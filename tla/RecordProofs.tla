---------------------------- MODULE RecordProofs ----------------------------
(***************************************************************************)
(* Proofs about what is recorded for good.                                 *)
(*                                                                         *)
(* Resolution, for any number of positions and of passes of the monitor: a *)
(* position is booked at the settlement payout only when the exchange has a*)
(* result, and a row that knows the result keeps it.  The market is read by*)
(* three tasks that each wait between the reading and the write, so the    *)
(* invariant says of everything they carry across a wait - the list and    *)
(* the answer of the watcher's cycle, the positions it is about to close,  *)
(* the messages that have not been handled, the snapshot of a pass - that  *)
(* what it claims was true of the exchange; and the exchange never takes a *)
(* result back.                                                            *)
(*                                                                         *)
(* Fixtures and Benchmark, as parts of MCReviews, for any markets, number  *)
(* of signals, repetitions and runs: what the bank of fixtures shows, and  *)
(* what the benchmark pays for, counts and files.                          *)
(*                                                                         *)
(* SignalAnswer, AssessorInputs and Assessment, parts of it too: what is   *)
(* made of an answer and of the evidence (JudgedIsFair).                   *)
(*                                                                         *)
(* EntryRules and PositionReview: the analyses come to what trading does   *)
(* (ReviewsDoAgree).  A review starts from a row that has closed and a     *)
(* path of quotes; the monitor saw one quote at a time and kept one number *)
(* of them, the peak.  LifeInv ties the two together: it says of every     *)
(* quote that a pass has gone over why it did not end the position, of the *)
(* last one why it did, and that the peak is the highest bid so far.       *)
(***************************************************************************)
EXTENDS Resolution, MCReviews, FiniteSums, SequenceTheorems

Statuses == {"active", "closed", "determined", "finalized"}

PosType == [at : Held \cup {"none", "closed"},
            why : {"none", "stop", "terminal", "settled", "cancelled"}]

SocketType == [pc : {"down", "queried", "listening", "settling", "closing"},
               found : BOOLEAN, inbox : SUBSET {"determined", "settled"},
               doomed : SUBSET Positions]

PollType ==
  [pc : {"idle", "listed", "sweep", "fetch", "fetched", "missing", "resolve", "ask", "requery",
         "close"},
   got : {"none", "missing", "removed", "purged"} \cup Statuses,
   doomed : SUBSET Positions]

Snapshots == UNION {[some -> Held] : some \in SUBSET Positions}

PassType == [on : BOOLEAN, result : BOOLEAN, terminal : BOOLEAN, held : Snapshots]

Reasoned == \A p \in Positions : pos[p].at = "closed" => pos[p].why # "none"

Answered == poll.pc = "fetched" => poll.got \in {"missing"} \cup Statuses

Typed ==
  /\ venue \in {"active", "closed", "removed"} \cup Known
  /\ due \in BOOLEAN /\ subscribed \in BOOLEAN /\ failures \in 0 .. Failures
  /\ loop \in {"idle", "loaded", "opened"}
  /\ row \in RowType
  /\ pos \in [Positions -> PosType] /\ Reasoned
  /\ ws \in SocketType
  /\ poll \in PollType /\ Answered
  /\ pass \in [Passes -> PassType]

(* What each task carries across a wait.                                   *)
SocketJustified ==
  ws.inbox # {} \/ ws.doomed # {} \/ ws.pc \in {"settling", "closing"} => venue \in Known

PollJustified == poll.got \in Known \/ poll.doomed # {} => venue \in Known

PassJustified == \A a \in Passes : pass[a].result => venue \in Known

RowJustified == row.result => venue \in Known

Justified ==
  SocketJustified /\ PollJustified /\ PassJustified /\ RowJustified /\ SettledHasResult

ResolutionInv == Typed /\ Justified

-----------------------------------------------------------------------------
(* The types of the records that the tasks work on.                        *)

LEMMA TypedIsTypeOK == Typed => TypeOK
<1> SUFFICES ASSUME Typed PROVE TypeOK
  OBVIOUS
<1>1. ws.inbox \subseteq {"determined", "settled"} /\ ws.doomed \subseteq Positions
  BY DEF Typed, SocketType
<1>2. poll.doomed \subseteq Positions
  BY DEF Typed, PollType
<1> QED
  BY <1>1, <1>2 DEF Typed, TypeOK, PosType, Reasoned

(* A pass with nothing left has the type of a pass.                        *)
LEMMA NoPassTyped == NoPass \in PassType
<1>1. [p \in {} |-> "open"] \in [{} -> Held]
  BY DEF Held
<1>2. [p \in {} |-> "open"] \in Snapshots
  BY <1>1 DEF Snapshots
<1> QED
  BY <1>2 DEF NoPass, PassType

(* A position is opened or promoted.                                       *)
LEMMA PosSet ==
  ASSUME NEW f \in [Positions -> PosType], NEW p \in Positions, NEW at \in Held
  PROVE  /\ [f EXCEPT ![p].at = at] \in [Positions -> PosType]
         /\ [f EXCEPT ![p].at = at][p].at = at
<1>1. f[p] \in PosType
  OBVIOUS
<1>2. [f[p] EXCEPT !.at = at] = [at |-> at, why |-> f[p].why]
  BY <1>1 DEF PosType
<1>3. [at |-> at, why |-> f[p].why] \in PosType
  BY <1>1 DEF PosType
<1>4. [f EXCEPT ![p].at = at] = [f EXCEPT ![p] = [at |-> at, why |-> f[p].why]]
  BY <1>2
<1> QED
  BY <1>1, <1>3, <1>4 DEF PosType

(* A closed position has a reason.                                         *)
LEMMA CloseTyped ==
  ASSUME Typed, NEW p \in Positions, NEW why \in {"stop", "terminal", "settled", "cancelled"},
         Close(p, why)
  PROVE  pos' \in [Positions -> PosType] /\ Reasoned'
<1>1. pos' \in [Positions -> PosType]
  BY DEF Typed, Close, PosType
<1>2. \A q \in Positions : pos'[q] = IF q = p THEN [at |-> "closed", why |-> why] ELSE pos[q]
  BY DEF Close, Typed
<1> QED
  BY <1>1, <1>2 DEF Typed, Reasoned

(* What Upsert stores is a row.                                            *)
LEMMA UpsertTyped ==
  ASSUME row \in RowType, NEW status \in Statuses, NEW known \in BOOLEAN, Upsert(status, known)
  PROVE  row' \in RowType /\ row'.result = (row.result \/ known)
<1>1. 0 \in 0 .. StaleAfter
  BY ResolutionAssumption
<1> QED
  BY <1>1 DEF Upsert, RowType, Statuses

(* What a pass of the monitor writes is a position.                        *)
LEMMA MonitorTyped ==
  ASSUME Typed, NEW a \in Passes, NEW p \in Positions, Pending(a, p) \/ Exit(a, p)
  PROVE  pos' \in [Positions -> PosType] /\ Reasoned'
<1>1. CASE UNCHANGED pos
  BY <1>1 DEF Typed, Reasoned
<1>2. ASSUME NEW why \in {"stop", "terminal", "settled", "cancelled"}, Close(p, why)
      PROVE  pos' \in [Positions -> PosType] /\ Reasoned'
  BY <1>2, CloseTyped
<1>3. CASE pos' = [pos EXCEPT ![p].at = "open"]
  <2> pos \in [Positions -> PosType] /\ "open" \in Held
    BY DEF Typed, Held
  <2>1. pos' \in [Positions -> PosType] /\ pos'[p].at = "open"
    BY <1>3, PosSet
  <2>2. \A q \in Positions \ {p} : pos'[q] = pos[q]
    BY <1>3 DEF Typed
  <2> QED
    BY <2>1, <2>2 DEF Typed, Reasoned
<1> QED
  BY <1>1, <1>2, <1>3 DEF Pending, Exit

-----------------------------------------------------------------------------
(* The initial state satisfies the invariant.                              *)
LEMMA Starts == Init => ResolutionInv
<1> SUFFICES ASSUME Init PROVE ResolutionInv
  OBVIOUS
<1>1. row \in RowType
  BY ResolutionAssumption DEF Init, RowType
<1>2. pos \in [Positions -> PosType] /\ Reasoned
  BY DEF Init, PosType, Reasoned
<1>3. ws \in SocketType /\ poll \in PollType /\ Answered
  BY DEF Init, SocketType, PollType, Offline, NoPoll, Answered
<1>4. NoPass \in PassType
  BY NoPassTyped
<1>5. Typed
  <2>1. pass \in [Passes -> PassType]
    BY <1>4 DEF Init
  <2>2. failures \in 0 .. Failures
    BY ResolutionAssumption DEF Init
  <2> QED
    BY <1>1, <1>2, <1>3, <2>1, <2>2 DEF Init, Typed
<1>6. Justified
  <2>1. SocketJustified /\ PollJustified
    BY DEF Init, SocketJustified, PollJustified, Offline, NoPoll, Known
  <2>2. PassJustified
    BY DEF Init, PassJustified, NoPass
  <2> QED
    BY <2>1, <2>2 DEF Init, Justified, RowJustified, SettledHasResult
<1> QED
  BY <1>5, <1>6 DEF ResolutionInv

(* Every step keeps the types.                                             *)
LEMMA TypedKept ==
  ASSUME Typed, Next
  PROVE  Typed'
<1>1. CASE Exchange
  <2>1. ws' \in SocketType
    BY <1>1 DEF Typed, Exchange, StopTrading, Determine, Finalize, Purge, Event, SocketType
  <2>2. venue' \in {"active", "closed", "removed"} \cup Known
    BY <1>1 DEF Typed, Exchange, StopTrading, Determine, Finalize, Purge, Known
  <2> QED
    BY <1>1, <2>1, <2>2 DEF Typed, Reasoned, Answered, Exchange, StopTrading, Determine, Finalize, Purge
<1>2. CASE CloseTime
  BY <1>2 DEF Typed, Reasoned, Answered, CloseTime
<1>3. CASE Load
  BY <1>3 DEF Typed, Reasoned, Answered, Load
<1>4. CASE Submit
  <2>1. pos' \in [Positions -> PosType] /\ Reasoned'
    <3>1. CASE UNCHANGED pos
      BY <3>1 DEF Typed, Reasoned
    <3>2. ASSUME NEW p \in Positions, NEW at \in Held, pos' = [pos EXCEPT ![p].at = at]
          PROVE  pos' \in [Positions -> PosType] /\ Reasoned'
      <4> pos \in [Positions -> PosType]
        BY DEF Typed
      <4>1. pos' \in [Positions -> PosType] /\ pos'[p].at = at
        BY <3>2, PosSet
      <4>2. \A q \in Positions \ {p} : pos'[q] = pos[q]
        BY <3>2 DEF Typed
      <4> QED
        BY <4>1, <4>2 DEF Typed, Reasoned, Held
    <3> QED
      BY <1>4, <3>1, <3>2 DEF Submit
  <2> QED
    BY <1>4, <2>1 DEF Typed, Reasoned, Answered, Submit
<1>5. CASE Subscribe
  BY <1>5 DEF Typed, Reasoned, Answered, Subscribe
<1>6. CASE Connect
  <2>1. ws' \in SocketType
    BY <1>6 DEF Typed, Connect, SocketType
  <2> QED
    BY <1>6, <2>1 DEF Typed, Reasoned, Answered, Connect
<1>7. CASE Rebuild
  <2>1. ws' \in SocketType /\ ws.found \in BOOLEAN
    BY <1>7 DEF Typed, Rebuild, SocketType
  <2> QED
    BY <1>7, <2>1 DEF Typed, Reasoned, Answered, Rebuild
<1>8. CASE Disconnect
  <2>1. ws' \in SocketType
    BY <1>8 DEF Disconnect, Offline, SocketType
  <2> QED
    BY <1>8, <2>1 DEF Typed, Reasoned, Answered, Disconnect
<1>9. CASE Tick
  <2>1. row' \in RowType
    BY <1>9, ResolutionAssumption DEF Typed, Tick, RowType
  <2> QED
    BY <1>9, <2>1 DEF Typed, Reasoned, Answered, Tick
<1>10. CASE OnDetermined
  <2>1. row' \in RowType
    BY <1>10 DEF Typed, OnDetermined, RowType
  <2>2. ws' \in SocketType
    BY <1>10 DEF Typed, OnDetermined, SocketType
  <2> QED
    BY <1>10, <2>1, <2>2 DEF Typed, Reasoned, Answered, OnDetermined
<1>11. CASE LoadHeld
  <2>1. ws' \in SocketType
    BY <1>11 DEF Typed, LoadHeld, SocketType, Active
  <2> QED
    BY <1>11, <2>1 DEF Typed, Reasoned, Answered, LoadHeld
<1>12. CASE \E p \in Positions : CloseDetermined(p)
  <2>1. ws' \in SocketType
    BY <1>12 DEF Typed, CloseDetermined, SocketType
  <2>2. pos' \in [Positions -> PosType] /\ Reasoned'
    BY <1>12, CloseTyped DEF CloseDetermined
  <2> QED
    BY <1>12, <2>1, <2>2 DEF Typed, Reasoned, Answered, CloseDetermined
<1>13. CASE Unsubscribe
  <2>1. ws' \in SocketType
    BY <1>13 DEF Typed, Unsubscribe, SocketType
  <2> QED
    BY <1>13, <2>1 DEF Typed, Reasoned, Answered, Unsubscribe
<1>14. CASE OnSettled
  <2>1. row' \in RowType
    BY <1>14 DEF Typed, OnSettled, RowType
  <2>2. ws' \in SocketType
    BY <1>14 DEF Typed, OnSettled, SocketType
  <2> QED
    BY <1>14, <2>1, <2>2 DEF Typed, Reasoned, Answered, OnSettled
<1>15. CASE List
  <2>1. row' \in RowType
    BY <1>15, ResolutionAssumption DEF Typed, List, RowType
  <2>2. poll' \in PollType /\ Answered'
    BY <1>15 DEF Typed, List, PollType, Answered, Known, Statuses
  <2>3. failures' \in 0 .. Failures
    BY <1>15, ResolutionAssumption DEF Typed, List, Fails
  <2> QED
    BY <1>15, <2>1, <2>2, <2>3 DEF Typed, Reasoned, Answered, List, Fails
<1>16. CASE StoreList
  <2>1. row' \in RowType
    BY <1>16, UpsertTyped DEF Typed, StoreList, Statuses
  <2>2. poll' \in PollType /\ Answered'
    BY <1>16 DEF Typed, StoreList, Goto, PollType, Answered
  <2> QED
    BY <1>16, <2>1, <2>2 DEF Typed, Reasoned, Answered, StoreList
<1>17. CASE Select
  <2>1. poll' \in PollType /\ Answered'
    BY <1>17 DEF Typed, Select, Goto, PollType, Answered
  <2> QED
    BY <1>17, <2>1 DEF Typed, Reasoned, Answered, Select
<1>18. CASE Fetch
  <2>1. poll' \in PollType /\ Answered'
    BY <1>18 DEF Typed, Fetch, PollType, Answered, Known, Statuses
  <2>2. failures' \in 0 .. Failures
    BY <1>18, ResolutionAssumption DEF Typed, Fetch, Fails
  <2> QED
    BY <1>18, <2>1, <2>2 DEF Typed, Reasoned, Answered, Fetch
<1>19. CASE Abort
  <2>1. poll' \in PollType /\ Answered'
    BY <1>19 DEF Typed, Abort, NoPoll, PollType, Answered
  <2>2. failures' \in 0 .. Failures
    BY <1>19, ResolutionAssumption DEF Typed, Abort, Fails
  <2> QED
    BY <1>19, <2>1, <2>2 DEF Typed, Reasoned, Answered, Abort
<1>20. CASE StoreSweep
  <2>1. row' \in RowType
    <3>1. CASE poll.got = "missing"
      BY <1>20, <3>1 DEF Typed, StoreSweep, RowType
    <3>2. CASE poll.got = "closed"
      BY <1>20, <3>2, UpsertTyped DEF Typed, StoreSweep, Statuses
    <3>3. CASE poll.got \in Statuses \ {"closed"}
      <4>1. Upsert(poll.got, poll.got \in Known)
        BY <1>20, <3>3 DEF StoreSweep, Statuses
      <4>2. (poll.got \in Known) \in BOOLEAN
        OBVIOUS
      <4> QED
        BY <3>3, <4>1, <4>2, UpsertTyped DEF Typed
    <3> QED
      BY <1>20, <3>1, <3>2, <3>3 DEF Typed, StoreSweep, Answered
  <2>2. poll' \in PollType /\ Answered'
    BY <1>20 DEF Typed, StoreSweep, Goto, PollType, Answered
  <2> QED
    BY <1>20, <2>1, <2>2 DEF Typed, Reasoned, Answered, StoreSweep
<1>21. CASE MissingResult
  <2>1. row' \in RowType
    BY <1>21, UpsertTyped DEF Typed, MissingResult, Statuses
  <2>2. poll' \in PollType /\ Answered'
    BY <1>21 DEF Typed, MissingResult, Goto, PollType, Answered
  <2>3. failures' \in 0 .. Failures
    <3>1. UNCHANGED failures \/ Fails
      BY <1>21 DEF MissingResult, Fails
    <3> QED
      BY <3>1, ResolutionAssumption DEF Typed, Fails
  <2> QED
    BY <1>21, <2>1, <2>2, <2>3 DEF Typed, Reasoned, Answered, MissingResult
<1>22. CASE ResolveKnown
  <2>1. poll' \in PollType /\ Answered'
    BY <1>22 DEF Typed, ResolveKnown, Resolvable, Active, PollType, Answered
  <2> QED
    BY <1>22, <2>1 DEF Typed, Reasoned, Answered, ResolveKnown
<1>23. CASE AskResult
  <2>1. row' \in RowType
    BY <1>23, UpsertTyped DEF Typed, AskResult, Known, Gone, Statuses
  <2>2. poll' \in PollType /\ Answered'
    BY <1>23 DEF Typed, AskResult, Goto, PollType, Answered
  <2>3. failures' \in 0 .. Failures
    <3>1. UNCHANGED failures \/ Fails
      BY <1>23 DEF AskResult, Fails
    <3> QED
      BY <3>1, ResolutionAssumption DEF Typed, Fails
  <2> QED
    BY <1>23, <2>1, <2>2, <2>3 DEF Typed, Reasoned, Answered, AskResult
<1>24. CASE Requery
  <2>1. poll' \in PollType /\ Answered'
    BY <1>24 DEF Typed, Requery, Active, PollType, Answered
  <2> QED
    BY <1>24, <2>1 DEF Typed, Reasoned, Answered, Requery
<1>25. CASE \E p \in Positions : CloseResolved(p)
  <2>1. poll' \in PollType /\ Answered'
    BY <1>25 DEF Typed, CloseResolved, PollType, Answered
  <2>2. pos' \in [Positions -> PosType] /\ Reasoned'
    BY <1>25, CloseTyped DEF CloseResolved
  <2> QED
    BY <1>25, <2>1, <2>2 DEF Typed, Reasoned, Answered, CloseResolved
<1>26. CASE EndCycle
  <2>1. poll' \in PollType /\ Answered'
    BY <1>26 DEF Typed, EndCycle, NoPoll, PollType, Answered
  <2> QED
    BY <1>26, <2>1 DEF Typed, Reasoned, Answered, EndCycle
<1>27. ASSUME NEW a \in Passes, StartPass(a) PROVE Typed'
  <2>1. [p \in Active |-> pos[p].at] \in Snapshots
    <3>1. [p \in Active |-> pos[p].at] \in [Active -> Held]
      BY DEF Active
    <3> QED
      BY <3>1 DEF Snapshots, Active
  <2>2. row.result \in BOOLEAN
    BY DEF Typed, RowType
  <2>3. pass' \in [Passes -> PassType]
    BY <1>27, <2>1, <2>2 DEF Typed, StartPass, PassType
  <2> QED
    BY <1>27, <2>3 DEF Typed, Reasoned, Answered, StartPass
<1>28. ASSUME NEW a \in Passes, NEW p \in Positions, Decided(a, p), Pending(a, p) \/ Exit(a, p)
      PROVE  Typed'
  <2>1. pos' \in [Positions -> PosType] /\ Reasoned'
    BY <1>28, MonitorTyped
  <2>2. pass[a] \in PassType /\ pass[a].held \in Snapshots
    BY DEF Typed, PassType
  <2>3. Rest(a, p) \in Snapshots
    <3>1. PICK some \in SUBSET Positions : pass[a].held \in [some -> Held]
      BY <2>2 DEF Snapshots
    <3>2. Rest(a, p) \in [some \ {p} -> Held]
      BY <3>1 DEF Rest
    <3> QED
      BY <3>2 DEF Snapshots
  <2>4. [pass[a] EXCEPT !.held = Rest(a, p)] \in PassType
    BY <2>2, <2>3 DEF PassType
  <2>5. NoPass \in PassType
    BY NoPassTyped
  <2>6. pass' \in [Passes -> PassType]
    BY <1>28, <2>4, <2>5 DEF Typed, Decided
  <2> QED
    BY <1>28, <2>1, <2>6 DEF Typed, Answered, Decided
<1> QED
  <2>1. \A a \in Passes : Monitor(a) => Typed'
    <3> SUFFICES ASSUME NEW a \in Passes, Monitor(a) PROVE Typed'
      OBVIOUS
    <3>1. CASE StartPass(a)
      BY <3>1, <1>27
    <3>2. CASE \E p \in Positions : Decided(a, p) /\ (Pending(a, p) \/ Exit(a, p))
      BY <3>2, <1>28
    <3> QED
      BY <3>1, <3>2 DEF Monitor
  <2> QED
    BY <2>1, <1>1, <1>2, <1>3, <1>4, <1>5, <1>6, <1>7, <1>8, <1>9, <1>10, <1>11, <1>12,
       <1>13, <1>14, <1>15, <1>16, <1>17, <1>18, <1>19, <1>20, <1>21, <1>22, <1>23, <1>24,
       <1>25, <1>26 DEF Next, WebSocket, Watch

-----------------------------------------------------------------------------
(* Everything the tasks carry says at most that the exchange has a result, *)
(* and a result is for good.  So there are two cases: it has one, and there*)
(* is nothing more to show; or it has none, and nobody carries a claim.    *)
SocketEmpty == ws.inbox = {} /\ ws.doomed = {} /\ ws.pc \notin {"settling", "closing"}
PollEmpty == poll.got \notin Known /\ poll.doomed = {}
PassesEmpty == \A a \in Passes : ~pass[a].result
NoneSettled == \A p \in Positions : pos[p].why # "settled"

NoEvidence == SocketEmpty /\ PollEmpty /\ PassesEmpty /\ NoneSettled /\ ~row.result

LEMMA EvidenceOfKnown ==
  /\ venue \in Known => Justified
  /\ NoEvidence => Justified
  /\ venue \notin Known /\ Justified => NoEvidence
  BY DEF Justified, SocketJustified, PollJustified, PassJustified, RowJustified, SettledHasResult,
         NoEvidence, SocketEmpty, PollEmpty, PassesEmpty, NoneSettled

(* The exchange does not take a result back.                               *)
LEMMA KnownForGood == ASSUME Next, venue \in Known PROVE venue' \in Known
<1>1. CASE Exchange
  BY <1>1 DEF Exchange, StopTrading, Determine, Finalize, Purge, Known
<1>2. CASE UNCHANGED venue
  BY <1>2
<1> QED
  BY <1>1, <1>2 DEF Next, CloseTime, Load, Submit, Subscribe, WebSocket, Connect, Rebuild, Disconnect,
     Tick, OnDetermined, LoadHeld, CloseDetermined, Unsubscribe, OnSettled, Watch, List, StoreList,
     Select, Fetch, Abort, StoreSweep, MissingResult, ResolveKnown, AskResult, Requery,
     CloseResolved, EndCycle, Monitor, StartPass, Decided

(* While it has none, no task makes up a claim that it has.                *)
LEMMA NoneInvented ==
  ASSUME Typed, NoEvidence, venue \notin Known, Next
  PROVE  venue' \in Known \/ NoEvidence'
<1>1. CASE Exchange
  <2>1. CASE venue' \in Known
    BY <2>1
  <2>2. CASE venue' \notin Known
    <3>1. UNCHANGED ws
      BY <1>1, <2>2 DEF Exchange, StopTrading, Determine, Finalize, Purge, Known
    <3> QED
      BY <1>1, <3>1 DEF Exchange, NoEvidence, SocketEmpty, PollEmpty, PassesEmpty, NoneSettled
  <2> QED
    BY <2>1, <2>2
<1>2. CASE Load
  BY <1>2 DEF NoEvidence, SocketEmpty, PollEmpty, PassesEmpty, NoneSettled, Load
<1>3. CASE CloseTime
  BY <1>3 DEF NoEvidence, SocketEmpty, PollEmpty, PassesEmpty, NoneSettled, CloseTime
<1>4. CASE Submit
  <2>1. NoneSettled'
    BY <1>4 DEF Typed, PosType, NoEvidence, NoneSettled, Submit
  <2> QED
    BY <1>4, <2>1 DEF NoEvidence, SocketEmpty, PollEmpty, PassesEmpty, Submit
<1>5. CASE Subscribe
  BY <1>5 DEF NoEvidence, SocketEmpty, PollEmpty, PassesEmpty, NoneSettled, Subscribe
<1>6. CASE Connect
  <2>1. SocketEmpty'
    BY <1>6 DEF Typed, SocketType, NoEvidence, SocketEmpty, Connect
  <2> QED
    BY <1>6, <2>1 DEF NoEvidence, PollEmpty, PassesEmpty, NoneSettled, Connect
<1>7. CASE Rebuild
  <2>1. SocketEmpty'
    BY <1>7 DEF Typed, SocketType, NoEvidence, SocketEmpty, Rebuild
  <2> QED
    BY <1>7, <2>1 DEF NoEvidence, PollEmpty, PassesEmpty, NoneSettled, Rebuild
<1>8. CASE Disconnect
  <2>1. SocketEmpty'
    BY <1>8 DEF SocketEmpty, Disconnect, Offline
  <2> QED
    BY <1>8, <2>1 DEF NoEvidence, PollEmpty, PassesEmpty, NoneSettled, Disconnect
<1>9. CASE Tick
  <2>1. ~row'.result
    BY <1>9 DEF Typed, RowType, NoEvidence, Tick
  <2> QED
    BY <1>9, <2>1 DEF NoEvidence, SocketEmpty, PollEmpty, PassesEmpty, NoneSettled, Tick
<1>10. CASE OnDetermined
  BY <1>10 DEF NoEvidence, SocketEmpty, PollEmpty, OnDetermined
<1>11. CASE LoadHeld
  BY <1>11 DEF NoEvidence, SocketEmpty, PollEmpty, LoadHeld
<1>12. CASE \E p \in Positions : CloseDetermined(p)
  BY <1>12 DEF NoEvidence, SocketEmpty, PollEmpty, CloseDetermined
<1>13. CASE Unsubscribe
  BY <1>13 DEF NoEvidence, SocketEmpty, PollEmpty, Unsubscribe
<1>14. CASE OnSettled
  BY <1>14 DEF NoEvidence, SocketEmpty, PollEmpty, OnSettled
<1>15. CASE List
  <2>1. ~row'.result
    BY <1>15 DEF Typed, RowType, NoEvidence, List
  <2>2. PollEmpty'
    BY <1>15 DEF Typed, PollType, NoEvidence, PollEmpty, List
  <2> QED
    BY <1>15, <2>1, <2>2 DEF NoEvidence, SocketEmpty, PassesEmpty, NoneSettled, List
<1>16. CASE StoreList
  <2>1. ~row'.result
    BY <1>16, UpsertTyped DEF Typed, NoEvidence, StoreList, Statuses
  <2>2. PollEmpty'
    BY <1>16 DEF Typed, PollType, NoEvidence, PollEmpty, StoreList, Goto, Known
  <2> QED
    BY <1>16, <2>1, <2>2 DEF NoEvidence, SocketEmpty, PassesEmpty, NoneSettled, StoreList
<1>17. CASE Select
  <2>1. PollEmpty'
    BY <1>17 DEF Typed, PollType, NoEvidence, PollEmpty, Select, Goto, Known
  <2> QED
    BY <1>17, <2>1 DEF NoEvidence, SocketEmpty, PassesEmpty, NoneSettled, Select
<1>18. CASE Fetch
  <2>1. PollEmpty'
    BY <1>18 DEF Typed, PollType, NoEvidence, PollEmpty, Fetch, Known
  <2> QED
    BY <1>18, <2>1 DEF NoEvidence, SocketEmpty, PassesEmpty, NoneSettled, Fetch
<1>19. CASE Abort
  <2>1. PollEmpty'
    BY <1>19 DEF PollEmpty, Abort, NoPoll, Known
  <2> QED
    BY <1>19, <2>1 DEF NoEvidence, SocketEmpty, PassesEmpty, NoneSettled, Abort
<1>20. CASE StoreSweep
  <2>1. ~row'.result
    <3>1. CASE poll.got = "missing"
      BY <1>20, <3>1 DEF Typed, RowType, NoEvidence, StoreSweep
    <3>2. CASE poll.got = "closed"
      BY <1>20, <3>2, UpsertTyped DEF Typed, NoEvidence, StoreSweep, Statuses
    <3>3. CASE poll.got \in Statuses \ {"closed"}
      <4>1. Upsert(poll.got, FALSE)
        <5>1. (poll.got \in Known) = FALSE
          BY DEF NoEvidence, PollEmpty
        <5> QED
          BY <1>20, <3>3, <5>1 DEF StoreSweep, Statuses
      <4> QED
        BY <3>3, <4>1, UpsertTyped DEF Typed, NoEvidence
    <3> QED
      BY <1>20, <3>1, <3>2, <3>3 DEF Typed, StoreSweep, Answered
  <2>2. PollEmpty'
    BY <1>20 DEF Typed, PollType, NoEvidence, PollEmpty, StoreSweep, Goto, Known
  <2> QED
    BY <1>20, <2>1, <2>2 DEF NoEvidence, SocketEmpty, PassesEmpty, NoneSettled, StoreSweep
<1>21. CASE MissingResult
  <2>1. UNCHANGED row
    BY <1>21 DEF MissingResult, Known
  <2>2. PollEmpty'
    BY <1>21 DEF Typed, PollType, NoEvidence, PollEmpty, MissingResult, Goto, Known
  <2> QED
    BY <1>21, <2>1, <2>2 DEF NoEvidence, SocketEmpty, PassesEmpty, NoneSettled, MissingResult
<1>22. CASE ResolveKnown
  <2>1. PollEmpty'
    BY <1>22 DEF Typed, PollType, NoEvidence, PollEmpty, ResolveKnown, Resolvable
  <2> QED
    BY <1>22, <2>1 DEF NoEvidence, SocketEmpty, PassesEmpty, NoneSettled, ResolveKnown
<1>23. CASE AskResult
  <2>1. UNCHANGED row
    BY <1>23 DEF AskResult, Known
  <2>2. PollEmpty'
    BY <1>23 DEF Typed, PollType, NoEvidence, PollEmpty, AskResult, Goto, Known
  <2> QED
    BY <1>23, <2>1, <2>2 DEF NoEvidence, SocketEmpty, PassesEmpty, NoneSettled, AskResult
<1>24. CASE Requery
  <2>1. PollEmpty'
    BY <1>24 DEF Typed, PollType, NoEvidence, PollEmpty, Requery
  <2> QED
    BY <1>24, <2>1 DEF NoEvidence, SocketEmpty, PassesEmpty, NoneSettled, Requery
<1>25. CASE \E p \in Positions : CloseResolved(p)
  BY <1>25 DEF NoEvidence, SocketEmpty, PollEmpty, CloseResolved
<1>26. CASE EndCycle
  <2>1. PollEmpty'
    BY <1>26 DEF PollEmpty, EndCycle, NoPoll, Known
  <2> QED
    BY <1>26, <2>1 DEF NoEvidence, SocketEmpty, PassesEmpty, NoneSettled, EndCycle
<1>27. ASSUME NEW a \in Passes, StartPass(a) PROVE NoEvidence'
  <2>1. PassesEmpty'
    BY <1>27 DEF Typed, NoEvidence, PassesEmpty, StartPass
  <2> QED
    BY <1>27, <2>1 DEF NoEvidence, SocketEmpty, PollEmpty, NoneSettled, StartPass
<1>28. ASSUME NEW a \in Passes, NEW p \in Positions, Decided(a, p), Pending(a, p) \/ Exit(a, p)
      PROVE  NoEvidence'
  <2>1. NoneSettled'
    BY <1>28 DEF Typed, PosType, NoEvidence, PassesEmpty, NoneSettled, Pending, Exit, Close
  <2>2. PassesEmpty'
    <3>1. ~NoPass.result
      BY DEF NoPass
    <3>2. \A h : ~[pass[a] EXCEPT !.held = h].result
      BY DEF Typed, PassType, NoEvidence, PassesEmpty
    <3> QED
      BY <1>28, <3>1, <3>2 DEF Typed, NoEvidence, PassesEmpty, Decided
  <2> QED
    BY <1>28, <2>1, <2>2 DEF NoEvidence, SocketEmpty, PollEmpty, Decided
<1> QED
  <2>1. \A a \in Passes : Monitor(a) => NoEvidence'
    <3> SUFFICES ASSUME NEW a \in Passes, Monitor(a) PROVE NoEvidence'
      OBVIOUS
    <3>1. CASE StartPass(a)
      BY <3>1, <1>27
    <3>2. CASE \E p \in Positions : Decided(a, p) /\ (Pending(a, p) \/ Exit(a, p))
      BY <3>2, <1>28
    <3> QED
      BY <3>1, <3>2 DEF Monitor
  <2> QED
    BY <2>1, <1>1, <1>2, <1>3, <1>4, <1>5, <1>6, <1>7, <1>8, <1>9, <1>10, <1>11, <1>12,
       <1>13, <1>14, <1>15, <1>16, <1>17, <1>18, <1>19, <1>20, <1>21, <1>22, <1>23, <1>24,
       <1>25, <1>26 DEF Next, WebSocket, Watch

(* Every step keeps the invariant.                                         *)
LEMMA InvKept == ResolutionInv /\ [Next]_vars => ResolutionInv'
<1> SUFFICES ASSUME ResolutionInv, [Next]_vars PROVE ResolutionInv'
  OBVIOUS
<1>1. CASE UNCHANGED vars
  BY <1>1 DEF ResolutionInv, vars, Typed, Reasoned, Answered, Justified, SocketJustified,
     PollJustified, PassJustified, RowJustified, SettledHasResult
<1>2. CASE Next
  <2>1. Typed'
    BY <1>2, TypedKept DEF ResolutionInv
  <2>2. CASE venue \in Known
    <3>1. venue' \in Known
      BY <1>2, <2>2, KnownForGood
    <3>2. Justified'
      BY <3>1 DEF Justified, SocketJustified, PollJustified, PassJustified, RowJustified,
         SettledHasResult
    <3> QED
      BY <2>1, <3>2 DEF ResolutionInv
  <2>3. CASE venue \notin Known
    <3>1. NoEvidence
      BY <2>3, EvidenceOfKnown DEF ResolutionInv
    <3>2. venue' \in Known \/ NoEvidence'
      BY <1>2, <2>3, <3>1, NoneInvented DEF ResolutionInv
    <3>3. Justified'
      BY <3>2 DEF Justified, SocketJustified, PollJustified, PassJustified, RowJustified,
         SettledHasResult, NoEvidence, SocketEmpty, PollEmpty, PassesEmpty, NoneSettled
    <3> QED
      BY <2>1, <3>3 DEF ResolutionInv
  <2> QED
    BY <2>2, <2>3
<1> QED
  BY <1>1, <1>2

-----------------------------------------------------------------------------
(* The state of the market's row, its positions, the watchers and the      *)
(* monitor's passes keeps its types.                                       *)
THEOREM ResolutionTypes == Spec => []TypeOK
<1>1. ResolutionInv => TypeOK
  BY TypedIsTypeOK DEF ResolutionInv
<1> QED
  BY Starts, InvKept, <1>1, PTL DEF Spec

(* A position is booked at the settlement payout only when the exchange has*)
(* a result - whichever of the WebSocket, the watcher's two sweeps and the *)
(* monitor's passes books it, and however long ago it read the market.     *)
THEOREM SettledWithResult == Spec => []SettledHasResult
<1>1. ResolutionInv => SettledHasResult
  BY DEF ResolutionInv, Justified
<1> QED
  BY Starts, InvKept, <1>1, PTL DEF Spec

(* A row that knows the result keeps it, whichever list, sweep, message or *)
(* pass writes it next and whenever that was read.                         *)
THEOREM ResultIsKept == Spec => ResultKept
<1>1. ASSUME ResolutionInv, [Next]_vars, row.result PROVE row'.result
  <2> USE <1>1 DEF ResolutionInv
  <2>1. CASE UNCHANGED row
    BY <2>1
  <2>2. ASSUME NEW status \in Statuses, NEW known \in BOOLEAN, Upsert(status, known)
        PROVE  row'.result
    BY <2>2, UpsertTyped DEF Typed
  <2>3. CASE Tick \/ OnDetermined \/ OnSettled \/ List
    BY <2>3 DEF Typed, RowType, Tick, OnDetermined, OnSettled, List
  <2>4. CASE StoreList
    BY <2>1, <2>2, <2>4 DEF StoreList, Statuses
  <2>5. CASE StoreSweep
    <3>1. CASE poll.got = "missing"
      BY <2>5, <3>1 DEF Typed, RowType, StoreSweep
    <3>2. CASE poll.got # "missing"
      <4>1. (poll.got \in Known) \in BOOLEAN /\ FALSE \in BOOLEAN /\ "closed" \in Statuses
        BY DEF Statuses
      <4> QED
        BY <2>1, <2>2, <2>5, <3>2, <4>1 DEF StoreSweep, Typed, Answered
    <3> QED
      BY <3>1, <3>2
  <2>6. CASE MissingResult
    BY <2>1, <2>2, <2>6 DEF MissingResult, Statuses
  <2>7. CASE AskResult
    BY <2>1, <2>2, <2>7 DEF AskResult, Known, Gone, Statuses
  <2>8. CASE Exchange \/ CloseTime \/ Load \/ Submit \/ Subscribe
    BY <2>8 DEF Exchange, CloseTime, Load, Submit, Subscribe
  <2>9. CASE WebSocket
    BY <2>3, <2>9 DEF WebSocket, Connect, Rebuild, Disconnect, LoadHeld, CloseDetermined, Unsubscribe
  <2>10. CASE Watch
    BY <2>3, <2>4, <2>5, <2>6, <2>7, <2>10
       DEF Watch, Select, Fetch, Abort, ResolveKnown, Requery, CloseResolved, EndCycle
  <2>11. CASE \E a \in Passes : Monitor(a)
    BY <2>11 DEF Monitor, StartPass, Decided
  <2>12. CASE UNCHANGED vars
    BY <2>12 DEF vars
  <2> QED
    BY <1>1, <2>8, <2>9, <2>10, <2>11, <2>12 DEF Next
<1>2. ResolutionInv /\ [Next]_vars => [row.result => row'.result]_vars
  BY <1>1
<1> QED
  BY Starts, InvKept, <1>2, PTL DEF Spec, ResultKept

-----------------------------------------------------------------------------
(* The bank of fixtures: what the tables hold is one of the contents, and a *)
(* file, once in the bank, is only replaced by one that passed the gate.    *)
FrozenInv ==
  /\ world \in [X!Parts \cup {"body"} -> X!Content]
  /\ files = [live |-> files.live, bank |-> files.bank]
  /\ X!BankIsAsOf

LEMMA FrozenStart == ASSUME X!Init PROVE FrozenInv
BY DEF X!Init, FrozenInv, X!Content, X!BankIsAsOf

LEMMA FrozenStep == ASSUME FrozenInv, [X!Next]_frozen PROVE FrozenInv'
<1>1. ASSUME world' \in [X!Parts \cup {"body"} -> X!Content], UNCHANGED files PROVE FrozenInv'
  BY <1>1 DEF FrozenInv, X!BankIsAsOf
<1>2. ASSUME NEW p \in X!Parts \cup {"body"}, X!Drift(p) PROVE FrozenInv'
  <2>1. {"outcome", "later"} \subseteq X!Content
    BY DEF X!Content
  <2> QED BY <1>1, <1>2, <2>1 DEF X!Drift, FrozenInv
<1>3. ASSUME UNCHANGED world, NEW f, files' = [files EXCEPT !.live = f] PROVE FrozenInv'
  BY <1>3 DEF FrozenInv, X!BankIsAsOf
<1>4. ASSUME NEW inputs \in X!Parsed, X!RecordBank(inputs) PROVE FrozenInv'
  <2>1. PICK s \in [X!Parts -> {"then", "garbled"}] : inputs = [shown |-> s, body |-> X!FullBody]
    BY DEF X!Parsed
  <2>2. X!FullBody \in X!Content \cup {NoFile}
    BY DEF X!FullBody, FrozenInv
  <2>3. inputs \in X!Inputs
    BY <2>1, <2>2 DEF X!Inputs, X!Content
  <2>4. ASSUME NEW p \in X!Parts PROVE inputs.shown[p] = "then"
    <3>1. X!Rendered(code, inputs)[p] = X!RawContext[p]
      BY <1>4 DEF X!RecordBank, X!RoundTrips
    <3> QED BY <3>1 DEF X!Rendered, X!RawContext
  <2>5. /\ files'.bank = [inputs |-> inputs, expect |-> X!Expectations(code, inputs)]
        /\ files' = [live |-> files'.live, bank |-> files'.bank] /\ UNCHANGED world
    BY <1>4 DEF X!RecordBank, X!File, FrozenInv
  <2>6. files'.bank.inputs = inputs
    BY <2>5
  <2> HIDE DEF X!Expectations
  <2> QED BY <2>3, <2>4, <2>5, <2>6 DEF FrozenInv, X!BankIsAsOf
<1>5. CASE X!Settle \/ X!Merge \/ (\E t \in X!Texts, bump \in BOOLEAN : X!Edit(t, bump))
  BY <1>1, <1>5 DEF X!Settle, X!Merge, X!Edit, FrozenInv
<1>6. CASE X!RecordLive \/ X!Update
  BY <1>3, <1>6 DEF X!RecordLive, X!Update, X!File
<1>7. CASE UNCHANGED frozen
  BY <1>1, <1>7 DEF frozen, FrozenInv
<1> QED BY <1>2, <1>4, <1>5, <1>6, <1>7 DEF X!Next

-----------------------------------------------------------------------------
(* The benchmark.  What a run still has to pay for is the repetitions of   *)
(* its first scenario that are neither on file nor done, and of every      *)
(* later one what the cache lacks now.                                     *)
Answers == [call : Nat, rev : Nat]

\* Answers of different calls, of the first n.
Given(s, n) == /\ s \in Seq(Answers)
               /\ \A i \in 1..Len(s) : s[i].call <= n
               /\ \A i, j \in 1..Len(s) : s[i] = s[j] => i = j

Caches == [B!Prompts -> Seq(Answers)]

CacheInv == /\ calls \in Nat /\ rev \in Nat /\ asked \in Nat
            /\ cache \in Caches
            /\ \A p \in B!Prompts : Given(cache[p], calls) /\ Len(cache[p]) <= asked

Larger(a, b) == IF a < b THEN b ELSE a
Smaller(a, b) == IF a < b THEN a ELSE b

Lacking(c, reps) == [s \in B!Scenario |-> reps - Smaller(Len(c[B!Prompt(s)]), reps)]

Cost(c, reps, todo) == SumFunctionOnSet(Lacking(c, reps), todo)

Later(todo) == {s \in todo : s # B!First(todo)}

\* Of the scenario that is run now.
Due == IF run.todo = {} THEN 0
       ELSE run.reps - Larger(Len(run.got), Smaller(Len(run.onFile), run.reps))

RunType == [todo : SUBSET B!Scenario, reps : Nat, got : Seq(Answers), onFile : Seq(Answers),
            paid : Nat, estimate : Int]

RunInv ==
  run # NoRun =>
    /\ run \in RunType
    /\ run.reps <= asked /\ Len(run.got) <= run.reps
    /\ Given(run.got, calls) /\ Given(run.onFile, calls)
    /\ \A i \in 1..Len(run.got) : i <= Len(run.onFile) => run.got[i] = run.onFile[i]
    /\ run.todo # {} => Len(cache[B!Asked]) <= Larger(Len(run.onFile), Len(run.got))
    /\ run.paid + Due + Cost(cache, run.reps, Later(run.todo)) <= run.estimate

LEMMA BenchSum == ASSUME NEW f PROVE B!SumFunction(f) = SumFunctionOnSet(f, DOMAIN f)
BY DEF B!SumFunction, B!SumFunctionOnSet, B!FoldFunctionOnSet, B!MapThenFoldSet,
       SumFunctionOnSet, FoldFunctionOnSet, MapThenFoldSet

LEMMA RoundWithin ==
  ASSUME NEW a \in Nat, NEW b \in Nat \ {0}, NEW m \in Nat, a <= b * m
  PROVE  B!RoundDiv(a, b) \in 0..m
<1> DEFINE q == a \div b  r == a % b
<1>1. q \in Nat /\ r \in 0..(b - 1) /\ a = b * q + r
  OBVIOUS
<1> HIDE DEF q, r
<1>2. q <= m
  <2>1. SUFFICES ASSUME q >= m + 1 PROVE FALSE
    BY <1>1
  <2>2. b * q >= b * (m + 1)
    BY <1>1, <2>1
  <2>3. b * (m + 1) = b * m + b
    OBVIOUS
  <2>4. b * q \in Nat /\ b * m \in Nat
    BY <1>1
  <2> QED BY <1>1, <2>2, <2>3, <2>4
<1>3. q = m => r = 0
  <2>1. b * q \in Nat /\ b * m \in Nat
    BY <1>1
  <2> QED BY <1>1, <2>1
<1>4. B!RoundDiv(a, b) = IF 2 * r > b \/ (2 * r = b /\ q % 2 = 1) THEN q + 1 ELSE q
  BY DEF B!RoundDiv, q, r
<1> QED BY <1>1, <1>2, <1>3, <1>4

LEMMA SpreadWithin ==
  ASSUME NEW n \in Nat \ {0}, NEW k \in Nat \ {0}
  PROVE  B!Spread(n, k) \subseteq 1..n
<1>1. CASE n > k /\ k # 1
  <2>1. ASSUME NEW i \in 0..(k - 1) PROVE 1 + B!RoundDiv(i * (n - 1), k - 1) \in 1..n
    <3>1. i * (n - 1) \in Nat /\ i * (n - 1) <= (k - 1) * (n - 1)
      OBVIOUS
    <3>2. B!RoundDiv(i * (n - 1), k - 1) \in 0..(n - 1)
      <4>1. k - 1 \in Nat \ {0} /\ n - 1 \in Nat
        BY <1>1
      <4> QED BY <3>1, <4>1, RoundWithin
    <3> QED BY <3>2
  <2> QED BY <1>1, <2>1 DEF B!Spread
<1>2. CASE ~(n > k /\ k # 1)
  BY <1>2 DEF B!Spread
<1> QED BY <1>1, <1>2

LEMMA SampleWithin ==
  ASSUME NEW ms \in SUBSET B!Usable, NEW m \in B!SampleModes
  PROVE  B!Sampled(ms, m) \in SUBSET B!Scenario
<1> USE ReviewsAssumption
<1>1. B!PerMarket(m) \subseteq 1..Analysed
  <2>1. CASE m[1] = "spread"
    <3>1. m[2] \in 1..Analysed
      BY <2>1 DEF B!SampleModes
    <3>2. B!Spread(Analysed, m[2]) \subseteq 1..Analysed
      BY <3>1, SpreadWithin
    <3> QED BY <2>1, <3>2 DEF B!PerMarket
  <2>2. CASE m[1] \in {"all", "first", "last"}
    BY <2>2 DEF B!PerMarket
  <2> QED BY <2>1, <2>2 DEF B!SampleModes
<1> QED BY <1>1 DEF B!Sampled, B!Usable, B!Scenario

LEMMA ScenariosFinite == IsFiniteSet(B!Scenario)
<1>1. IsFiniteSet(Markets) /\ IsFiniteSet(1..Analysed)
  BY ReviewsAssumption, FS_Interval
<1> QED BY <1>1, FS_Product DEF B!Scenario

LEMMA LackingType ==
  ASSUME NEW c \in Caches, NEW reps \in Nat, NEW s \in B!Scenario
  PROVE  /\ B!Prompt(s) \in B!Prompts
         /\ Len(c[B!Prompt(s)]) \in Nat
         /\ Lacking(c, reps)[s] = reps - Smaller(Len(c[B!Prompt(s)]), reps)
         /\ Lacking(c, reps)[s] \in Nat
<1>1. B!Prompt(s) \in B!Prompts
  BY DEF B!Prompts
<1>2. Len(c[B!Prompt(s)]) \in Nat
  BY <1>1 DEF Caches
<1> QED BY <1>1, <1>2 DEF Lacking, Smaller

LEMMA CostType ==
  ASSUME NEW c \in Caches, NEW reps \in Nat, NEW T \in SUBSET B!Scenario
  PROVE  IsFiniteSet(T) /\ Cost(c, reps, T) \in Nat
<1>1. IsFiniteSet(T)
  BY ScenariosFinite, FS_Subset
<1>2. \A s \in T : Lacking(c, reps)[s] \in Nat
  BY LackingType
<1> QED BY <1>1, <1>2, SumNat DEF Cost

(* What is announced is what the cache lacks. *)
LEMMA EstimateIsCost ==
  ASSUME cache \in Caches, NEW todo \in SUBSET B!Scenario, NEW reps \in Nat
  PROVE  B!Estimate(todo, reps) = Cost(cache, reps, todo)
<1> DEFINE f == [s \in todo |-> reps - B!Saved(B!Prompt(s), reps)]
<1>1. B!Estimate(todo, reps) = SumFunctionOnSet(f, todo)
  BY BenchSum DEF B!Estimate
<1>2. \A s \in todo : f[s] = Lacking(cache, reps)[s]
  BY LackingType DEF B!Saved, Smaller
<1>3. IsFiniteSet(todo)
  BY CostType
<1> HIDE DEF f
<1> QED BY <1>1, <1>2, <1>3, SumSame DEF Cost

(* A cache that grows lacks less. *)
LEMMA CostFalls ==
  ASSUME NEW c \in Caches, NEW d \in Caches, NEW reps \in Nat, NEW T \in SUBSET B!Scenario,
         \A p \in B!Prompts : Len(c[p]) <= Len(d[p])
  PROVE  Cost(d, reps, T) <= Cost(c, reps, T)
<1>1. \A s \in T : /\ Lacking(d, reps)[s] \in Int /\ Lacking(c, reps)[s] \in Int
                    /\ Lacking(d, reps)[s] <= Lacking(c, reps)[s]
  BY LackingType DEF Smaller
<1>2. IsFiniteSet(T)
  BY CostType
<1> QED BY <1>1, <1>2, SumMonotone DEF Cost

(* The first scenario of a run that is starting, or of what is left of it. *)
LEMMA FirstOut ==
  ASSUME NEW c \in Caches, NEW reps \in Nat, NEW todo \in SUBSET B!Scenario, todo # {}
  PROVE  /\ B!First(todo) \in todo
         /\ Later(todo) \in SUBSET B!Scenario
         /\ B!Prompt(B!First(todo)) \in B!Prompts
         /\ Cost(c, reps, todo)
              = reps - Smaller(Len(c[B!Prompt(B!First(todo))]), reps)
                  + Cost(c, reps, Later(todo))
<1> DEFINE y == B!First(todo)
<1>1. y \in todo
  BY DEF B!First
<1> HIDE DEF y
<1>2. \A s \in todo : Lacking(c, reps)[s] \in Int
  BY LackingType
<1>3. IsFiniteSet(todo)
  BY CostType
<1>4. Cost(c, reps, todo) = Lacking(c, reps)[y] + Cost(c, reps, todo \ {y})
  BY <1>1, <1>2, <1>3, SumWithout DEF Cost
<1>5. Later(todo) = todo \ {y}
  BY DEF Later, y
<1> QED BY <1>1, <1>4, <1>5, LackingType DEF y

LEMMA GivenMore ==
  ASSUME NEW n \in Nat, NEW s, Given(s, n)
  PROVE  Given(s, n + 1)
<1>1. \A i \in 1..Len(s) : s[i].call \in Int /\ s[i].call <= n
  <2>1. \A i \in 1..Len(s) : s[i] \in Answers
    BY DEF Given
  <2> QED BY <2>1 DEF Answers, Given
<1>2. \A i \in 1..Len(s) : s[i].call <= n + 1
  BY <1>1
<1> QED BY <1>2 DEF Given

LEMMA GivenAppend ==
  ASSUME NEW n \in Nat, NEW s, Given(s, n), NEW r \in Nat
  PROVE  Given(Append(s, [call |-> n + 1, rev |-> r]), n + 1)
<1> DEFINE a == [call |-> n + 1, rev |-> r]
           t == Append(s, a)
<1>1. a \in Answers /\ a.call = n + 1
  BY DEF Answers
<1> HIDE DEF a
<1>2. /\ t \in Seq(Answers) /\ Len(t) = Len(s) + 1
      /\ \A i \in 1..Len(s) : t[i] = s[i]
      /\ t[Len(s) + 1] = a
  BY <1>1 DEF Given
<1>3. \A i \in 1..Len(s) : s[i].call <= n
  BY DEF Given
<1>4. Len(s) \in Nat
  BY DEF Given
<1> HIDE DEF t
<1>5. ASSUME NEW i \in 1..Len(t) PROVE t[i].call <= n + 1
  <2>1. CASE i = Len(s) + 1
    BY <1>1, <1>2, <2>1
  <2>2. CASE i \in 1..Len(s)
    <3>1. s[i] \in Answers
      BY <2>2 DEF Given
    <3> QED BY <1>2, <1>3, <2>2, <3>1 DEF Answers
  <2> QED BY <1>2, <1>4, <2>1, <2>2
<1>6. ASSUME NEW i \in 1..Len(t), NEW j \in 1..Len(t), t[i] = t[j] PROVE i = j
  <2>1. \A k \in 1..Len(s) : s[k] # a
    <3> SUFFICES ASSUME NEW k \in 1..Len(s) PROVE s[k].call # n + 1
      BY <1>1
    <3>1. s[k] \in Answers
      BY DEF Given
    <3> QED BY <1>3, <3>1 DEF Answers
  <2> QED BY <1>2, <1>4, <1>6, <2>1 DEF Given
<1> QED BY <1>2, <1>5, <1>6 DEF Given, t, a

(* The next answer of the file, after those before it. *)
LEMMA GivenNext ==
  ASSUME NEW n, NEW s \in Seq(Answers), NEW f, Given(s, n), Given(f, n), Len(s) < Len(f),
         \A i \in 1..Len(s) : i <= Len(f) => s[i] = f[i]
  PROVE  Given(Append(s, f[Len(s) + 1]), n)
<1> DEFINE a == f[Len(s) + 1]
           t == Append(s, a)
<1>1. f \in Seq(Answers) /\ Len(f) \in Nat /\ Len(s) \in Nat
  BY DEF Given
<1>2. a \in Answers
  BY <1>1
<1>3. /\ t \in Seq(Answers) /\ Len(t) = Len(s) + 1
      /\ \A i \in 1..Len(s) : t[i] = s[i]
      /\ t[Len(s) + 1] = a
  BY <1>2
<1> HIDE DEF t
<1>4. \A i \in 1..Len(t) : i \in 1..Len(f) /\ t[i] = f[i]
  BY <1>1, <1>3
<1> HIDE DEF a
<1> QED BY <1>3, <1>4 DEF Given

LEMMA BenchStart == ASSUME B!Init PROVE CacheInv /\ RunInv
<1>1. Given(<<>>, 0)
  BY DEF Given
<1>2. cache \in Caches /\ \A p \in B!Prompts : cache[p] = <<>>
  BY DEF B!Init, Caches
<1> QED BY <1>1, <1>2 DEF B!Init, CacheInv, RunInv

(* One more repetition of the scenario that is run: from the file, or paid *)
(* for when the file has no more of them.                                  *)
LEMMA RunAnswers ==
  ASSUME CacheInv, CacheInv', RunInv, B!Running, NEW a \in Answers, NEW d \in {0, 1},
         run' = [run EXCEPT !.got = Append(run.got, a), !.paid = run.paid + d],
         asked' = asked, Given(Append(run.got, a), calls'), Given(run.onFile, calls'),
         d = 0 => Len(run.got) < Len(run.onFile) /\ a = run.onFile[Len(run.got) + 1],
         d = 1 => Len(run.got) >= Len(run.onFile),
         \A p \in B!Prompts : Len(cache[p]) <= Len(cache'[p]),
         Len(cache'[B!Asked]) <= Larger(Len(run.onFile), Len(run.got) + 1)
  PROVE  RunInv'
<1>1. run # NoRun /\ run \in RunType /\ run.todo # {} /\ Len(run.got) < run.reps
  BY DEF B!Running, RunInv
<1> DEFINE g == Append(run.got, a)
<1>2. /\ run'.todo = run.todo /\ run'.reps = run.reps /\ run'.onFile = run.onFile
      /\ run'.got = g /\ run'.paid = run.paid + d /\ run'.estimate = run.estimate
      /\ run' \in RunType
  <2>1. g \in Seq(Answers) /\ run.paid + d \in Nat
    BY <1>1 DEF RunType
  <2> HIDE DEF g
  <2>2. run' = [run EXCEPT !.got = g, !.paid = run.paid + d]
    BY DEF g
  <2> QED BY <1>1, <2>1, <2>2 DEF RunType
<1>3. /\ Len(run.got) \in Nat /\ Len(run.onFile) \in Nat /\ run.reps \in Nat
      /\ run.paid \in Nat /\ run.estimate \in Int
  BY <1>1 DEF RunType
<1>4. /\ Len(g) = Len(run.got) + 1 /\ g[Len(run.got) + 1] = a
      /\ \A i \in 1..Len(run.got) : g[i] = run.got[i]
  BY <1>1 DEF RunType
<1>5. Given(g, calls') /\ Given(run.onFile, calls')
  OBVIOUS
<1> HIDE DEF g
<1>6. /\ run.reps <= asked
      /\ \A i \in 1..Len(run.got) : i <= Len(run.onFile) => run.got[i] = run.onFile[i]
      /\ run.paid + Due + Cost(cache, run.reps, Later(run.todo)) <= run.estimate
  BY <1>1 DEF RunInv
<1>7. \A i \in 1..Len(g) : i <= Len(run.onFile) => g[i] = run.onFile[i]
  BY <1>3, <1>4, <1>6
<1>8. Due \in Int /\ Due' = Due - d
  <2>1. Due' = run.reps - Larger(Len(run.got) + 1, Smaller(Len(run.onFile), run.reps))
    BY <1>1, <1>2, <1>4 DEF Due
  <2> QED BY <1>1, <1>3, <2>1 DEF Due, Larger, Smaller
<1>9. /\ Cost(cache, run.reps, Later(run.todo)) \in Int
      /\ Cost(cache', run.reps, Later(run.todo)) \in Int
      /\ Cost(cache', run.reps, Later(run.todo)) <= Cost(cache, run.reps, Later(run.todo))
  <2>1. Later(run.todo) \in SUBSET B!Scenario
    BY <1>1 DEF RunType, Later
  <2>2. cache \in Caches /\ cache' \in Caches
    BY DEF CacheInv
  <2>3. /\ Cost(cache, run.reps, Later(run.todo)) \in Nat
        /\ Cost(cache', run.reps, Later(run.todo)) \in Nat
    BY <1>3, <2>1, <2>2, CostType
  <2>4. \A p \in B!Prompts : Len(cache[p]) <= Len(cache'[p])
    OBVIOUS
  <2>5. Cost(cache', run.reps, Later(run.todo)) <= Cost(cache, run.reps, Later(run.todo))
    BY <1>3, <2>1, <2>2, <2>4, CostFalls
  <2> QED BY <2>3, <2>5
<1>10. B!Asked' = B!Asked
  BY <1>2 DEF B!Asked, B!Prompt, B!First
<1>11. run'.paid + Due' + Cost(cache', run.reps, Later(run.todo)) <= run.estimate
  BY <1>2, <1>3, <1>6, <1>8, <1>9
<1>12. Len(cache'[B!Asked']) <= Larger(Len(run'.onFile), Len(run'.got))
  BY <1>2, <1>4, <1>10
<1>13. run'.reps <= asked' /\ Len(run'.got) <= run'.reps
  BY <1>1, <1>2, <1>3, <1>4, <1>6
<1> QED
  <2> HIDE DEF Due, B!Asked
  <2> QED BY <1>2, <1>5, <1>7, <1>11, <1>12, <1>13 DEF RunInv

(* The run begins a list of scenarios: the answers on file are read for    *)
(* the first of them.                                                      *)
LEMMA RunTurns ==
  ASSUME CacheInv, CacheInv', UNCHANGED <<cache, calls>>, NEW todo \in SUBSET B!Scenario, todo # {},
         NEW reps \in Nat, reps <= asked', NEW paid \in Nat, NEW estimate \in Int,
         paid + Cost(cache, reps, todo) <= estimate,
         run' = [todo |-> todo, reps |-> reps, got |-> <<>>,
                 onFile |-> cache[B!Prompt(B!First(todo))], paid |-> paid, estimate |-> estimate]
  PROVE  RunInv'
<1> DEFINE p == B!Prompt(B!First(todo))
           o == cache[p]
<1>1. /\ B!First(todo) \in todo /\ p \in B!Prompts
      /\ Later(todo) \in SUBSET B!Scenario
      /\ Cost(cache, reps, todo) = reps - Smaller(Len(o), reps) + Cost(cache, reps, Later(todo))
  BY FirstOut DEF CacheInv
<1>2. Cost(cache, reps, Later(todo)) \in Int
  BY <1>1, CostType DEF CacheInv
<1>3. o \in Seq(Answers) /\ Given(o, calls)
  BY <1>1 DEF CacheInv, Caches
<1>4. B!Asked' = p
  BY DEF B!Asked
<1>5. run'.onFile = o
  OBVIOUS
<1> HIDE DEF p, o
<1>6. /\ run' \in RunType
      /\ run'.todo = todo /\ run'.reps = reps /\ run'.got = <<>> /\ run'.paid = paid
      /\ run'.estimate = estimate
  <2>1. run' = [todo |-> todo, reps |-> reps, got |-> <<>>, onFile |-> o, paid |-> paid,
                estimate |-> estimate]
    BY DEF o, p
  <2> QED BY <1>3, <2>1 DEF RunType
<1>7. Given(<<>>, calls)
  BY DEF Given
<1>8. Due' = reps - Smaller(Len(o), reps)
  BY <1>3, <1>5, <1>6 DEF Due, Larger, Smaller
<1>9. paid + Due' + Cost(cache', reps, Later(todo)) <= estimate
  <2>1. cache' = cache /\ Len(o) \in Nat
    BY <1>3
  <2>2. Smaller(Len(o), reps) \in Nat
    BY <2>1 DEF Smaller
  <2> QED BY <1>1, <1>2, <1>8, <2>1, <2>2
<1>10. Len(cache'[p]) <= Larger(Len(o), 0)
  BY <1>3 DEF o, Larger
<1> QED
  <2> HIDE DEF Due, B!Asked
  <2> QED BY <1>3, <1>4, <1>5, <1>6, <1>7, <1>9, <1>10 DEF RunInv

LEMMA BenchStep == ASSUME CacheInv, RunInv, [B!Next]_bench PROVE CacheInv' /\ RunInv'
<1>1. ASSUME NEW ms \in SUBSET B!Usable, NEW m \in B!SampleModes, NEW reps \in 1..MaxReps,
             B!Start(ms, m, reps)
      PROVE  CacheInv' /\ RunInv'
  <2> DEFINE todo == B!Sampled(ms, m)
  <2>1. todo \in SUBSET B!Scenario
    BY SampleWithin
  <2> HIDE DEF todo
  <2>2. /\ UNCHANGED <<cache, rev, calls>>
        /\ run' = [todo |-> todo, reps |-> reps, got |-> <<>>,
                   onFile |-> IF todo = {} THEN <<>> ELSE cache[B!Prompt(B!First(todo))],
                   paid |-> 0, estimate |-> B!Estimate(todo, reps)]
    BY <1>1 DEF B!Start, todo
  <2>3. asked' \in Nat /\ asked <= asked' /\ reps <= asked' /\ reps \in Nat
    BY <1>1 DEF B!Start, CacheInv
  <2>4. CacheInv'
    <3>1. \A p \in B!Prompts : Len(cache[p]) \in Nat
      BY DEF CacheInv, Caches
    <3> QED BY <2>2, <2>3, <3>1 DEF CacheInv
  <2>5. B!Estimate(todo, reps) = Cost(cache, reps, todo) /\ Cost(cache, reps, todo) \in Int
    BY <2>1, <2>3, EstimateIsCost, CostType DEF CacheInv
  <2>6. CASE todo # {}
    BY <2>1, <2>2, <2>3, <2>4, <2>5, <2>6, RunTurns
  <2>7. CASE todo = {}
    <3> DEFINE e == Cost(cache, reps, {})
    <3>1. run' = [todo |-> {}, reps |-> reps, got |-> <<>>, onFile |-> <<>>, paid |-> 0,
                  estimate |-> e] /\ e \in Int
      BY <2>2, <2>5, <2>7
    <3>2. e = 0 /\ Later({}) = {}
      BY FS_EmptySet, SumZero DEF Cost, Later
    <3> HIDE DEF e
    <3>3. run' \in RunType /\ run'.todo = {} /\ run'.reps = reps /\ run'.got = <<>>
          /\ run'.onFile = <<>> /\ run'.paid = 0 /\ run'.estimate = 0
      BY <2>3, <3>1, <3>2 DEF RunType
    <3>4. Due' = 0
      BY <3>3 DEF Due
    <3>6. Cost(cache', reps, Later({})) = 0
      BY <2>2, <3>2 DEF e
    <3>5. Given(<<>>, calls')
      BY DEF Given
    <3> HIDE DEF Due
    <3>7. run'.paid + Due' + Cost(cache', run'.reps, Later(run'.todo)) <= run'.estimate
      BY <3>3, <3>4, <3>6
    <3>8. Len(run'.got) = 0
      BY <3>3
    <3>9. run'.reps <= asked' /\ Len(run'.got) <= run'.reps
      BY <2>3, <3>3, <3>8
    <3>10. RunInv'
      BY <3>3, <3>5, <3>7, <3>8, <3>9 DEF RunInv
    <3> QED BY <2>4, <3>10
  <2> QED BY <2>4, <2>6, <2>7
<1>2. CASE B!Serve \/ B!Call \/ B!CallFails \/ B!Killed
  <2>0. B!Running /\ UNCHANGED <<asked, rev>>
    BY <1>2 DEF B!Serve, B!Call, B!CallFails, B!Killed, B!Pays
  <2>1. /\ run # NoRun /\ run \in RunType /\ run.todo # {} /\ run.todo \in SUBSET B!Scenario
        /\ run.got \in Seq(Answers) /\ run.onFile \in Seq(Answers)
        /\ run.paid \in Nat
    BY <2>0 DEF B!Running, RunInv, RunType
  <2>2. B!Asked \in B!Prompts
    BY <2>1, FirstOut DEF B!Asked, CacheInv
  <2>3. /\ Given(run.got, calls) /\ Given(run.onFile, calls)
        /\ \A i \in 1..Len(run.got) : i <= Len(run.onFile) => run.got[i] = run.onFile[i]
        /\ Len(cache[B!Asked]) <= Larger(Len(run.onFile), Len(run.got))
        /\ Len(run.got) < run.reps /\ run.reps <= asked
    BY <2>0, <2>1 DEF RunInv, B!Running
  <2>4. /\ Len(run.got) \in Nat /\ Len(run.onFile) \in Nat /\ run.reps \in Nat
        /\ asked \in Nat /\ calls \in Nat /\ rev \in Nat
    BY <2>1 DEF RunType, CacheInv
  <2>5. CASE B!Serve
    <3> DEFINE a == run.onFile[Len(run.got) + 1]
    <3>1. a \in Answers
      BY <2>1, <2>4, <2>5 DEF B!Serve
    <3>2. run' = [run EXCEPT !.got = Append(run.got, a), !.paid = run.paid + 0]
      <4>1. run' = [run EXCEPT !.got = Append(run.got, a)]
        BY <2>5 DEF B!Serve, B!Record
      <4> HIDE DEF a
      <4> DEFINE g == Append(run.got, a)
      <4>2. g \in Seq(Answers)
        BY <2>1, <3>1
      <4>3. run' = [run EXCEPT !.got = g]
        BY <4>1
      <4> HIDE DEF g
      <4>4. run.paid + 0 = run.paid
        BY <2>1
      <4>5. run' = [run EXCEPT !.got = g, !.paid = run.paid + 0]
        BY <2>1, <4>2, <4>3, <4>4 DEF RunType
      <4> QED BY <4>5 DEF g
    <3>3. UNCHANGED <<cache, rev, calls, asked>>
      BY <2>5 DEF B!Serve
    <3>4. CacheInv'
      BY <3>3 DEF CacheInv
    <3>5. Len(run.got) < Len(run.onFile)
      BY <2>5 DEF B!Serve
    <3>6. Len(cache'[B!Asked]) <= Larger(Len(run.onFile), Len(run.got) + 1)
      BY <2>3, <2>4, <3>3 DEF Larger
    <3>7. Given(Append(run.got, a), calls)
      BY <2>1, <2>3, <2>4, <3>5, GivenNext
    <3>8. \A p \in B!Prompts : Len(cache[p]) <= Len(cache'[p])
      BY <3>3 DEF CacheInv, Caches
    <3>9. Given(Append(run.got, a), calls') /\ Given(run.onFile, calls')
      BY <2>3, <3>3, <3>7
    <3>10. a = run.onFile[Len(run.got) + 1]
      OBVIOUS
    <3> HIDE DEF a
    <3>11. RunInv'
      <4> DEFINE d == 0
      <4>1. d \in {0, 1} /\ d = 0 /\ d # 1
        OBVIOUS
      <4>2. run' = [run EXCEPT !.got = Append(run.got, a), !.paid = run.paid + d]
        BY <3>2
      <4> HIDE DEF d
      <4> QED BY <2>0, <3>1, <3>3, <3>4, <3>5, <3>6, <3>8, <3>9, <3>10, <4>1, <4>2, RunAnswers
    <3> QED BY <3>4, <3>11
  <2>6. ASSUME B!Pays, run' = [run EXCEPT !.got = Append(run.got, B!Answer), !.paid = run.paid + 1],
               \/ UNCHANGED cache
               \/ cache' = [cache EXCEPT ![B!Asked] = Append(cache[B!Asked], B!Answer)]
        PROVE  CacheInv' /\ RunInv'
    <3> DEFINE a == B!Answer
               c == cache[B!Asked]
    <3>1. a \in Answers /\ a = [call |-> calls + 1, rev |-> rev]
      BY <2>4 DEF B!Answer, Answers
    <3>2. calls' = calls + 1 /\ Len(run.got) >= Len(run.onFile)
      BY <2>6 DEF B!Pays
    <3>3. c \in Seq(Answers) /\ Given(c, calls) /\ Len(c) \in Nat
      BY <2>2 DEF CacheInv, Caches
    <3> HIDE DEF a, c
    <3>4. Given(Append(c, a), calls') /\ Given(Append(run.got, a), calls')
      BY <2>3, <2>4, <3>1, <3>2, <3>3, GivenAppend
    <3>5. /\ Append(c, a) \in Seq(Answers) /\ Len(Append(c, a)) = Len(c) + 1
      BY <3>1, <3>3
    <3>6. Len(c) <= Len(run.got)
      BY <2>3, <2>4, <3>2, <3>3 DEF c, Larger
    <3>7. cache \in Caches /\ \A p \in B!Prompts : /\ Given(cache[p], calls')
                                                  /\ Len(cache[p]) \in Nat /\ Len(cache[p]) <= asked
      BY <2>4, <3>2, GivenMore DEF CacheInv, Caches
    <3>8. UNCHANGED cache \/ cache' = [cache EXCEPT ![B!Asked] = Append(c, a)]
      BY <2>6 DEF a, c
    <3> DEFINE q == B!Asked
               e == Append(c, a)
    <3> HIDE DEF q, e
    <3>9. /\ cache' \in Caches
          /\ \A p \in B!Prompts : cache'[p] = cache[p] \/ (p = q /\ cache'[p] = e)
      BY <2>2, <3>5, <3>7, <3>8 DEF Caches, q, e
    <3>10. /\ Given(e, calls') /\ Len(e) = Len(c) + 1 /\ Len(e) <= asked
           /\ c = cache[q]
      BY <2>3, <2>4, <3>3, <3>4, <3>5, <3>6 DEF e, q, c
    <3>11. CacheInv'
      BY <2>0, <2>4, <3>2, <3>7, <3>9, <3>10 DEF CacheInv
    <3>12. \A p \in B!Prompts : Len(cache[p]) <= Len(cache'[p])
      BY <3>3, <3>7, <3>9, <3>10
    <3>13. Len(cache'[q]) <= Larger(Len(run.onFile), Len(run.got) + 1)
      BY <2>2, <2>4, <3>2, <3>3, <3>6, <3>9, <3>10 DEF Larger, q
    <3>14. Given(run.onFile, calls')
      BY <2>3, <2>4, <3>2, GivenMore
    <3>15. RunInv'
      <4> DEFINE d == 1
      <4>1. d \in {0, 1} /\ d # 0 /\ d = 1
        OBVIOUS
      <4>2. run' = [run EXCEPT !.got = Append(run.got, a), !.paid = run.paid + d]
        BY <2>6 DEF a
      <4>3. Len(cache'[B!Asked]) <= Larger(Len(run.onFile), Len(run.got) + 1)
        BY <3>13 DEF q
      <4> HIDE DEF d
      <4> QED BY <2>0, <3>1, <3>2, <3>4, <3>11, <3>12, <3>14, <4>1, <4>2, <4>3, RunAnswers
    <3> QED BY <3>11, <3>15
  <2>7. CASE B!Call
    BY <2>6, <2>7 DEF B!Call, B!Appended
  <2>8. CASE B!CallFails
    BY <2>6, <2>8 DEF B!CallFails
  <2>9. CASE B!Killed
    <3>1. calls' = calls + 1 /\ run' = NoRun /\ cache' = [cache EXCEPT ![B!Asked] = <<>>]
      BY <2>9 DEF B!Killed, B!Pays
    <3>2. cache \in Caches /\ \A p \in B!Prompts : /\ Given(cache[p], calls')
                                                  /\ Len(cache[p]) <= asked
      BY <2>4, <3>1, GivenMore DEF CacheInv
    <3>3. Given(<<>>, calls') /\ Len(<<>>) = 0
      BY DEF Given
    <3>4. /\ cache' \in Caches
          /\ \A p \in B!Prompts : cache'[p] = cache[p] \/ cache'[p] = <<>>
      BY <2>2, <3>1, <3>2 DEF Caches
    <3> QED BY <2>0, <2>4, <3>1, <3>2, <3>3, <3>4 DEF CacheInv, RunInv
  <2> QED BY <1>2, <2>5, <2>7, <2>8, <2>9
<1>3. CASE B!Advance
  <2> DEFINE left == Later(run.todo)
  <2>1. /\ run # NoRun /\ UNCHANGED <<cache, rev, calls, asked>>
        /\ run.todo = {} \/ Len(run.got) = run.reps
        /\ run' = IF left = {} THEN NoRun
                  ELSE [run EXCEPT !.todo = left, !.got = <<>>,
                                   !.onFile = cache[B!Prompt(B!First(left))]]
    BY <1>3 DEF B!Advance, Later
  <2>2. CacheInv'
    BY <2>1 DEF CacheInv
  <2>3. CASE left = {}
    BY <2>1, <2>2, <2>3 DEF RunInv
  <2>4. CASE left # {}
    <3>1. /\ run \in RunType /\ run.todo # {} /\ Len(run.got) = run.reps /\ run.reps <= asked
          /\ run.paid + Due + Cost(cache, run.reps, left) <= run.estimate
      BY <2>1, <2>4 DEF RunInv, Later
    <3>2. /\ run.reps \in Nat /\ run.paid \in Nat /\ run.estimate \in Int
          /\ Len(run.onFile) \in Nat /\ left \in SUBSET B!Scenario
      BY <3>1 DEF RunType, Later
    <3>3. Due = 0
      BY <3>1, <3>2 DEF Due, Larger, Smaller
    <3>4. Cost(cache, run.reps, left) \in Int
      BY <3>2, CostType DEF CacheInv
    <3>5. run.paid + Cost(cache, run.reps, left) <= run.estimate
      BY <3>1, <3>2, <3>3, <3>4
    <3> DEFINE o == cache[B!Prompt(B!First(left))]
    <3> HIDE DEF left
    <3>6. run' = [todo |-> left, reps |-> run.reps, got |-> <<>>, onFile |-> o,
                  paid |-> run.paid, estimate |-> run.estimate]
      <4>1. run' = [run EXCEPT !.todo = left, !.got = <<>>, !.onFile = o]
        BY <2>1, <2>4
      <4> HIDE DEF o
      <4> QED BY <3>1, <4>1 DEF RunType
    <3> QED BY <2>1, <2>2, <2>4, <3>1, <3>2, <3>5, <3>6, RunTurns
  <2> QED BY <2>3, <2>4
<1>4. CASE B!Interrupt
  BY <1>4 DEF B!Interrupt, CacheInv, RunInv
<1>5. CASE B!Revise
  BY <1>5 DEF B!Revise, CacheInv, RunInv
<1>6. CASE UNCHANGED bench
  <2>1. UNCHANGED <<cache, rev, calls, asked, run>>
    BY <1>6 DEF bench
  <2>2. CacheInv'
    BY <2>1 DEF CacheInv
  <2>3. Due' = Due /\ B!Asked' = B!Asked
    BY <2>1 DEF Due, B!Asked
  <2> HIDE DEF Due, B!Asked
  <2>4. RunInv'
    BY <2>1, <2>3 DEF RunInv
  <2> QED BY <2>2, <2>4
<1> QED BY <1>1, <1>2, <1>3, <1>4, <1>5, <1>6 DEF B!Next

-----------------------------------------------------------------------------
(* Each part has its own invariant; the part that runs does not change.     *)
RecordsInv == /\ Is("frozen") => FrozenInv
              /\ Is("bench") => CacheInv /\ RunInv

LEMMA RecordsStart == ReviewsInit => RecordsInv
BY FrozenStart, BenchStart DEF ReviewsInit, RecordsInv, Is

LEMMA RecordsKept == RecordsInv /\ [ReviewsNext]_reviews => RecordsInv'
<1> SUFFICES ASSUME RecordsInv, [ReviewsNext]_reviews PROVE RecordsInv'
  OBVIOUS
<1>1. part' = part
  BY DEF ReviewsNext, reviews
<1>2. Is("frozen") => [X!Next]_frozen
  BY DEF ReviewsNext, reviews, Is
<1>3. Is("bench") => [B!Next]_bench
  BY DEF ReviewsNext, reviews, Is
<1> QED BY <1>1, <1>2, <1>3, FrozenStep, BenchStep DEF RecordsInv, Is

LEMMA RecordsRight == RecordsInv => RecordsSound
<1> SUFFICES ASSUME RecordsInv PROVE RecordsSound
  OBVIOUS
<1>1. Is("frozen") => X!BankIsAsOf
  BY DEF RecordsInv, FrozenInv
<1>2. ASSUME CacheInv, RunInv PROVE B!EstimateBounds /\ B!RepsDistinct /\ B!FiledOnce
  <2>1. B!FiledOnce
    BY <1>2 DEF CacheInv, B!FiledOnce
  <2>2. CASE run # NoRun
    <3>1. run \in RunType /\ Given(run.got, calls)
          /\ run.paid + Due + Cost(cache, run.reps, Later(run.todo)) <= run.estimate
      BY <1>2, <2>2 DEF RunInv
    <3>2. B!IsInjective(run.got)
      BY <3>1 DEF Given, B!IsInjective
    <3>3. Due \in Nat
      BY <1>2, <2>2 DEF Due, RunInv, RunType, Larger, Smaller
    <3>4. Cost(cache, run.reps, Later(run.todo)) \in Nat
      BY <1>2, <3>1, CostType DEF CacheInv, RunType, Later
    <3>5. B!EstimateBounds
      BY <3>1, <3>3, <3>4 DEF B!EstimateBounds, RunType
    <3> QED BY <2>1, <3>2, <3>5 DEF B!RepsDistinct
  <2>3. CASE run = NoRun
    BY <2>1, <2>3 DEF B!EstimateBounds, B!RepsDistinct
  <2> QED BY <2>2, <2>3
<1> QED BY <1>1, <1>2 DEF RecordsInv, RecordsSound

(* Whatever the tables and the code have become, a prompt of the bank shows *)
(* the world its signal saw; however often runs of the benchmark are        *)
(* stopped, killed and repeated, none makes more calls than it announced,   *)
(* counts an answer twice, or files more answers than repetitions asked for.*)
THEOREM RecordsAreSound == ReviewsSpec => []RecordsSound
<1> QED BY RecordsStart, RecordsKept, RecordsRight, PTL DEF ReviewsSpec
-----------------------------------------------------------------------------
(* An answer of the model (SignalAnswer). *)

(* A number of an answer whose text is sound is the one the model meant,    *)
(* written in its unit.                                                     *)
AnswerInv ==
  /\ answer \in [meant : [S!Fields -> 0..S!One], unit : [S!Fields -> {"fraction", "percent"}],
                 raw : [S!Fields -> Int], sound : BOOLEAN, direction : S!Directions]
  /\ answer.sound => \A f \in S!Fields : answer.raw[f] = S!Written(answer.meant[f], answer.unit[f])

(* A number is written as a number. *)
LEMMA WrittenInt ==
  ASSUME NEW v \in Int, NEW u
  PROVE  S!Written(v, u) \in Int
BY DEF S!Written, S!Percent

(* The numbers of an answer as they are written; one of them may be odd. *)
RawOf(meant, unit, stray, odd) ==
  [f \in S!Fields |-> IF f = stray THEN odd ELSE S!Written(meant[f], unit[f])]

(* What an answer holds is numbers, of known meaning unless odd. *)
LEMMA RawInt ==
  ASSUME NEW meant \in [S!Fields -> Values], NEW unit, NEW stray, NEW odd \in Strays
  PROVE  /\ meant \in [S!Fields -> 0..S!One]
         /\ RawOf(meant, unit, stray, odd) \in [S!Fields -> Int]
<1>0. Values \subseteq 0..S!One /\ Strays \subseteq Int
  BY ReviewsAssumption DEF S!UnitsAssumption
<1>1. ASSUME NEW f \in S!Fields
      PROVE  /\ meant[f] \in 0..S!One
             /\ (IF f = stray THEN odd ELSE S!Written(meant[f], unit[f])) \in Int
  <2>1. meant[f] \in Values
    OBVIOUS
  <2>2. meant[f] \in 0..S!One
    BY <1>0, <2>1
  <2>3. meant[f] \in Int
    BY <2>2
  <2>4. S!Written(meant[f], unit[f]) \in Int
    BY <2>3, WrittenInt
  <2>5. odd \in Int
    BY <1>0
  <2> QED BY <2>2, <2>4, <2>5
<1>2. meant \in [S!Fields -> 0..S!One]
  BY <1>1
<1>3. RawOf(meant, unit, stray, odd) \in [S!Fields -> Int]
  BY <1>1 DEF RawOf
<1> QED BY <1>2, <1>3

(* An answer is one of those. *)
LEMMA AnswerStart == ASSUME S!Init PROVE AnswerInv
<1>1. PICK meant \in [S!Fields -> Values], unit \in [S!Fields -> {"fraction", "percent"}],
           dir \in S!Directions, stray \in S!Fields \cup {"no field"}, odd \in Strays :
        answer = [meant |-> meant, unit |-> unit, direction |-> dir,
                  raw |-> [f \in S!Fields |-> IF f = stray THEN odd
                                              ELSE S!Written(meant[f], unit[f])],
                  sound |-> stray = "no field"]
  BY DEF S!Init
<1> DEFINE raw == RawOf(meant, unit, stray, odd)
<1>2. meant \in [S!Fields -> 0..S!One] /\ raw \in [S!Fields -> Int]
  BY RawInt
<1>3. stray = "no field" => \A f \in S!Fields : raw[f] = S!Written(meant[f], unit[f])
  BY DEF RawOf, S!Fields
<1> HIDE DEF raw
<1>4. answer = [meant |-> meant, unit |-> unit, direction |-> dir, raw |-> raw,
                sound |-> stray = "no field"]
  BY <1>1 DEF raw, RawOf
<1> DEFINE sound == stray = "no field"
<1>5. sound \in BOOLEAN /\ (sound => \A f \in S!Fields : raw[f] = S!Written(meant[f], unit[f]))
  BY <1>3
<1>6. answer = [meant |-> meant, unit |-> unit, direction |-> dir, raw |-> raw, sound |-> sound]
  BY <1>4
<1> HIDE DEF sound
<1> QED BY <1>2, <1>5, <1>6 DEF AnswerInv

(* A number is understood as it was meant, in either unit. *)
LEMMA NumberUnderstood ==
  ASSUME NEW v \in 0..S!One, NEW u \in {"fraction", "percent"}, u = "percent" => v > S!Percent
  PROVE  S!Clamp(S!Fraction(S!Written(v, u))) = v
<1>1. CASE u = "fraction"
  BY <1>1 DEF S!Written, S!Fraction, S!Clamp, S!One, S!Percent
<1>2. CASE u = "percent"
  <2>1. S!Written(v, u) = 100 * v /\ 100 * v > 10000 /\ (100 * v) \div 100 = v
    BY <1>2 DEF S!Written, S!Percent, S!One
  <2> QED BY <2>1 DEF S!Fraction, S!Clamp, S!One, S!Percent
<1> QED BY <1>1, <1>2

(* Whatever was written, fractions come out, and the estimate and its       *)
(* posterior no more than a point apart.                                    *)
LEMMA NumbersAre ==
  ASSUME NEW raw \in [S!Fields -> Int]
  PROVE  /\ S!Numbers(raw) \in [S!Fields -> 0..S!One]
         /\ S!Settled(S!Numbers(raw)) \in [S!Fields -> 0..S!One]
         /\ \A f \in S!Fields \ {"probability"} : S!Settled(S!Numbers(raw))[f] = S!Numbers(raw)[f]
         /\ S!Distance(S!Settled(S!Numbers(raw))["probability"],
                       S!Settled(S!Numbers(raw))["posterior"]) <= 100
<1>1. ASSUME NEW v \in Int PROVE S!Clamp(S!Fraction(v)) \in 0..S!One
  BY DEF S!Clamp, S!Fraction, S!One, S!Percent
<1> DEFINE n == S!Numbers(raw)
           p == S!Settled(n)
<1>2. n \in [S!Fields -> 0..S!One]
  BY <1>1 DEF S!Numbers
<1> HIDE DEF n
<1>3. {"probability", "posterior"} \subseteq S!Fields
  BY DEF S!Fields
<1> DEFINE x == n["probability"]
           y == n["posterior"]
<1>4. x \in Int /\ y \in Int /\ x = n["probability"] /\ y = n["posterior"]
  BY <1>2, <1>3
<1> HIDE DEF x, y
<1>5. CASE S!Distance(x, y) > 100
  <2>1. p = [n EXCEPT !["probability"] = y]
    BY <1>4, <1>5 DEF S!Settled
  <2> HIDE DEF p
  <2>2. p["probability"] = y /\ p["posterior"] = y
    BY <1>2, <1>3, <1>4, <2>1
  <2>3. S!Distance(y, y) <= 100
    BY <1>4 DEF S!Distance
  <2>4. p \in [S!Fields -> 0..S!One] /\ \A f \in S!Fields \ {"probability"} : p[f] = n[f]
    BY <1>2, <1>3, <1>4, <2>1
  <2>5. S!Distance(p["probability"], p["posterior"]) <= 100
    BY <2>2, <2>3
  <2> QED BY <1>2, <2>4, <2>5 DEF n, p
<1>6. CASE ~(S!Distance(x, y) > 100)
  <2>1. p = n
    BY <1>4, <1>6 DEF S!Settled
  <2>2. S!Distance(x, y) <= 100
    BY <1>4, <1>6 DEF S!Distance
  <2>3. S!Distance(n["probability"], n["posterior"]) <= 100
    BY <1>4, <2>2
  <2> HIDE DEF p
  <2> QED BY <1>2, <2>1, <2>3 DEF n, p
<1> QED BY <1>5, <1>6

(* So the side is what the numbers say, and a sound answer is understood. *)
LEMMA AnswerRight == ASSUME AnswerInv PROVE S!SideMatchesNumbers /\ S!Understood
<1>1. answer.raw \in [S!Fields -> Int]
  BY DEF AnswerInv
<1>2. S!SideMatchesNumbers
  BY <1>1, NumbersAre DEF S!SideMatchesNumbers, S!Accepted, S!Agrees, S!Parsed
<1>3. S!Understood
  <2> SUFFICES ASSUME answer.sound,
                      \A f \in S!Fields : answer.unit[f] = "percent" => answer.meant[f] > S!Percent,
                      NEW f \in S!Fields \ {"probability"}
               PROVE  S!Parsed[f] = answer.meant[f]
    BY DEF S!Understood
  <2>1. /\ answer.meant[f] \in 0..S!One /\ answer.unit[f] \in {"fraction", "percent"}
        /\ answer.raw[f] = S!Written(answer.meant[f], answer.unit[f])
    BY DEF AnswerInv
  <2>2. S!Numbers(answer.raw)[f] = answer.meant[f]
    BY <2>1, NumberUnderstood DEF S!Numbers
  <2> QED BY <1>1, <2>2, NumbersAre DEF S!Parsed
<1> QED BY <1>2, <1>3

-----------------------------------------------------------------------------
(* The judgments of the evidence (Assessment). *)

(* A signal, as the assessment knows it. *)
Written == [market : Markets, evidence : Evidence, clone : BOOLEAN]

(* A row of the assessment. *)
Judgement == [signal : Nat, size : {80, 98, 100, 120},
              verdict : {"size_down", "neutral", "size_up"}, judged : BOOLEAN]

(* Every row is of a signal that was written, and its size goes back to a   *)
(* judgment of the same evidence.                                           *)
JudgedInv ==
  /\ written \in Seq(Written) /\ rows \in Seq(Judgement)
  /\ \A k \in DOMAIN rows : rows[k].signal \in DOMAIN written
  /\ A!ScaledByItsEvidence

(* What a row's size goes back to. *)
Traced(r, w, k) ==
  r[k].size # 100 =>
    \E n \in 1..k : /\ r[n].judged
                    /\ r[n].size = r[k].size
                    /\ w[r[n].signal].market = w[r[k].signal].market
                    /\ w[r[n].signal].evidence = w[r[k].signal].evidence

(* Nothing is written at first. *)
LEMMA JudgedStart == ASSUME A!Init PROVE JudgedInv
BY DEF A!Init, JudgedInv, A!ScaledByItsEvidence

(* The property, row by row, *)
LEMMA TracedAll == A!ScaledByItsEvidence <=> \A k \in DOMAIN rows : Traced(rows, written, k)
BY DEF A!ScaledByItsEvidence, Traced

(* and after a step. *)
LEMMA TracedAllNext ==
  A!ScaledByItsEvidence' <=> \A k \in DOMAIN rows' : Traced(rows', written', k)
BY DEF A!ScaledByItsEvidence, Traced

(* The last of some indices is one of them. *)
LEMMA MaxIsIn ==
  ASSUME NEW N, IsFiniteSet(N), N # {}
  PROVE  N \subseteq Int => A!Max(N) \in N /\ \A y \in N : A!Max(N) >= y
BY Highest DEF A!Max

(* A signal is written: the rows keep theirs.                              *)
LEMMA SignalWritten ==
  ASSUME JudgedInv, NEW s \in Written, written' = Append(written, s), rows' = rows
  PROVE  JudgedInv'
<1>1. /\ written' \in Seq(Written) /\ DOMAIN written \subseteq DOMAIN written'
      /\ \A i \in DOMAIN written : written'[i] = written[i]
  BY AppendProperties, LenProperties DEF JudgedInv
<1>2. \A k \in DOMAIN rows : Traced(rows, written, k)
  BY TracedAll DEF JudgedInv
<1>3. ASSUME NEW k \in DOMAIN rows PROVE Traced(rows, written', k)
  <2> SUFFICES ASSUME rows[k].size # 100 PROVE Traced(rows, written', k)
    BY DEF Traced
  <2>1. PICK n \in 1..k : /\ rows[n].judged /\ rows[n].size = rows[k].size
               /\ written[rows[n].signal].market = written[rows[k].signal].market
               /\ written[rows[n].signal].evidence = written[rows[k].signal].evidence
    BY <1>2 DEF Traced
  <2>2. n \in DOMAIN rows
    BY LenProperties DEF JudgedInv
  <2>3. rows[n].signal \in DOMAIN written /\ rows[k].signal \in DOMAIN written
    BY <2>2 DEF JudgedInv
  <2> QED BY <1>1, <2>1, <2>3 DEF Traced
<1>4. A!ScaledByItsEvidence'
  BY <1>3, TracedAllNext
<1> QED BY <1>1, <1>4 DEF JudgedInv

(* A row is filed: at full size, judged just now, or after an earlier one. *)
LEMMA RowFiled ==
  ASSUME JudgedInv, NEW r \in Judgement, A!Add(r), r.signal \in DOMAIN written,
         \/ r.size = 100 \/ r.judged
         \/ \E m \in DOMAIN rows :
              /\ rows[m].size = r.size
              /\ written[rows[m].signal].market = written[r.signal].market
              /\ written[rows[m].signal].evidence = written[r.signal].evidence
  PROVE  JudgedInv'
<1>1. rows' = Append(rows, r) /\ written' = written
  BY DEF A!Add
<1>2. /\ rows' \in Seq(Judgement) /\ DOMAIN rows' = 1..(Len(rows) + 1)
      /\ DOMAIN rows = 1..Len(rows) /\ Len(rows) \in Nat
      /\ rows'[Len(rows) + 1] = r
      /\ \A i \in 1..Len(rows) : rows'[i] = rows[i]
  BY <1>1, AppendProperties, LenProperties DEF JudgedInv
<1>3. \A k \in DOMAIN rows' : rows'[k].signal \in DOMAIN written'
  BY <1>1, <1>2 DEF JudgedInv
<1>4. ASSUME NEW k \in DOMAIN rows PROVE Traced(rows', written, k)
  <2>1. Traced(rows, written, k)
    BY TracedAll DEF JudgedInv
  <2>2. \A n \in 1..k : rows'[n] = rows[n]
    BY <1>2
  <2>3. k \in 1..k
    BY <1>2
  <2> QED BY <2>1, <2>2, <2>3 DEF Traced
<1>5. Traced(rows', written, Len(rows) + 1)
  <2> SUFFICES ASSUME r.size # 100 PROVE Traced(rows', written, Len(rows) + 1)
    BY <1>2 DEF Traced
  <2>1. CASE r.judged
    <3>1. Len(rows) + 1 \in 1..(Len(rows) + 1)
      BY <1>2
    <3> QED BY <1>2, <2>1, <3>1 DEF Traced
  <2>2. CASE ~r.judged
    <3>1. PICK m \in DOMAIN rows :
              /\ rows[m].size = r.size
              /\ written[rows[m].signal].market = written[r.signal].market
              /\ written[rows[m].signal].evidence = written[r.signal].evidence
      BY <2>2
    <3>2. Traced(rows, written, m)
      BY TracedAll DEF JudgedInv
    <3>3. PICK n \in 1..m : /\ rows[n].judged /\ rows[n].size = rows[m].size
               /\ written[rows[n].signal].market = written[rows[m].signal].market
               /\ written[rows[n].signal].evidence = written[rows[m].signal].evidence
      BY <3>1, <3>2 DEF Traced
    <3>4. n \in 1..(Len(rows) + 1) /\ rows'[n] = rows[n]
      BY <1>2
    <3> QED BY <1>2, <3>1, <3>3, <3>4 DEF Traced
  <2> QED BY <2>1, <2>2
<1>6. \A k \in DOMAIN rows' : Traced(rows', written', k)
  <2>1. \A k \in DOMAIN rows' : k \in DOMAIN rows \/ k = Len(rows) + 1
    BY <1>2
  <2> QED BY <1>1, <1>4, <1>5, <2>1
<1> QED BY <1>1, <1>2, <1>3, <1>6, TracedAllNext DEF JudgedInv

(* Every step of the assessment is one of these two, or neither. *)
LEMMA JudgedKept == ASSUME JudgedInv, A!Next PROVE JudgedInv'
<1>1. ASSUME NEW m \in Markets, NEW e \in Evidence, A!Analyze(m, e) PROVE JudgedInv'
  <2>1. [market |-> m, evidence |-> e, clone |-> FALSE] \in Written
    BY DEF Written
  <2> QED BY <1>1, <2>1, SignalWritten DEF A!Analyze
<1>2. ASSUME NEW m \in Markets, A!Clone(m) PROVE JudgedInv'
  <2>1. /\ A!OfMarket(m) \subseteq 1..Len(written) /\ Len(written) \in Nat
        /\ written \in Seq(Written) /\ DOMAIN written = 1..Len(written)
    BY LenProperties DEF JudgedInv, A!OfMarket
  <2>2. IsFiniteSet(A!OfMarket(m)) /\ A!OfMarket(m) # {} /\ A!OfMarket(m) \subseteq Int
    BY <1>2, <2>1, IndicesFinite DEF A!Clone
  <2>3. A!Max(A!OfMarket(m)) \in DOMAIN written
    BY <2>1, <2>2, MaxIsIn
  <2>4. written[A!Max(A!OfMarket(m))] \in Written
    BY <2>1, <2>3
  <2>5. [written[A!Max(A!OfMarket(m))] EXCEPT !.clone = TRUE] \in Written
    BY <2>4 DEF Written
  <2> QED BY <1>2, <2>5, SignalWritten DEF A!Clone
<1>3. CASE A!NightlyJob \/ \E m \in Markets : A!Resolves(m)
  <2>1. written' = written /\ rows' = rows
    BY <1>3 DEF A!NightlyJob, A!Resolves
  <2> QED BY <2>1 DEF JudgedInv, A!ScaledByItsEvidence
<1>4. ASSUME NEW i \in DOMAIN written, A!Assess(i) PROVE JudgedInv'
  <2>0. i \in Nat
    BY <1>4, LenProperties DEF JudgedInv
  <2>1. ASSUME NEW j \in A!Judgments, NEW b \in BOOLEAN
        PROVE  A!Row(i, j, b) \in Judgement /\ A!Row(i, j, b).signal = i
               /\ A!Row(i, j, b).judged = b /\ A!Row(i, j, b).size = j.size
    BY <2>0 DEF A!Judgments, A!Row, Judgement
  <2>2. CASE A!Judge(i)
    BY <1>4, <2>1, <2>2, RowFiled DEF A!Judge
  <2>3. A!Neutral \in A!Judgments /\ A!Neutral.size = 100
    BY DEF A!Neutral, A!Judgments
  <2>4. CASE A!FallBack(i) \/ A!Skip(i)
    <3>1. A!Add(A!Row(i, A!Neutral, FALSE))
      BY <2>4 DEF A!FallBack, A!Skip
    <3> QED BY <1>4, <2>1, <2>3, <3>1, RowFiled
  <2>5. CASE A!CarryForward(i)
    <3>1. /\ A!Prior(i) \subseteq DOMAIN rows /\ DOMAIN rows = 1..Len(rows)
          /\ Len(rows) \in Nat /\ rows \in Seq(Judgement)
      BY LenProperties DEF A!Prior, JudgedInv
    <3>2. IsFiniteSet(A!Prior(i)) /\ A!Prior(i) # {} /\ A!Prior(i) \subseteq Int
      BY <2>5, <3>1, IndicesFinite DEF A!CarryForward
    <3> DEFINE m == A!Max(A!Prior(i))
               r == A!Row(i, rows[m], FALSE)
    <3>3. m \in A!Prior(i)
      BY <3>2, MaxIsIn
    <3>4. A!Add(r)
      BY <2>5 DEF A!CarryForward
    <3> HIDE DEF m
    <3>5. rows[m] \in Judgement
      BY <3>1, <3>3
    <3>6. r \in Judgement /\ r.signal = i /\ r.size = rows[m].size
      BY <2>0, <3>5 DEF A!Row, Judgement
    <3>7. /\ written[rows[m].signal].market = written[i].market
          /\ written[rows[m].signal].evidence = written[i].evidence
      BY <3>3 DEF A!Prior
    <3> HIDE DEF r
    <3> QED BY <1>4, <3>1, <3>3, <3>4, <3>6, <3>7, RowFiled
  <2> QED BY <1>4, <2>2, <2>4, <2>5 DEF A!Assess
<1> QED BY <1>1, <1>2, <1>3, <1>4 DEF A!Next

-----------------------------------------------------------------------------
(* What the assessor is shown of signals and of losses (AssessorInputs). *)

(* The sum of the model is that of the library, whose lemmas FiniteSums     *)
(* has.                                                                     *)
LEMMA ToldSum == ASSUME NEW f PROVE I!SumFunction(f) = SumFunctionOnSet(f, DOMAIN f)
BY DEF I!SumFunction, I!SumFunctionOnSet, I!FoldFunctionOnSet, I!MapThenFoldSet,
       SumFunctionOnSet, FoldFunctionOnSet, MapThenFoldSet

(* And its cardinality. *)
LEMMA Card == ASSUME NEW f PROVE I!Cardinality(f) = Cardinality(f)
BY DEF I!Cardinality, Cardinality, I!IsFiniteSet, IsFiniteSet

(* The inputs are what the tables hold; a history is in the order of its    *)
(* times.                                                                   *)
ToldInv ==
  /\ resolved \in Seq(I!Resolved) /\ history \in Seq(I!Points) /\ uses \in Seq(I!Uses)
  /\ I!InOrder(history)

(* That is how they start. *)
LEMMA ToldStart == ASSUME I!Init PROVE ToldInv
<1>1. ASSUME NEW T, NEW n, NEW s \in I!BoundedSeq(T, n)
      PROVE  s \in Seq(T)
  <2>1. PICK m \in 0..n : s \in [1..m -> T]
    BY DEF I!BoundedSeq, I!SeqOf
  <2>2. m \in Nat
    BY <2>1
  <2> QED BY <2>1, <2>2
<1>2. <<>> \in Seq(I!Resolved) /\ <<>> \in Seq(I!Points) /\ <<>> \in Seq(I!Uses)
  OBVIOUS
<1>3. history = <<>> => I!InOrder(history)
  BY DEF I!InOrder
<1> QED BY <1>1, <1>2, <1>3 DEF I!Init, ToldInv

(* The sum of two values. *)
LEMMA SumOfTwo ==
  ASSUME NEW a, NEW b, a # b, NEW f, DOMAIN f = {a, b}, f[a] \in Int, f[b] \in Int
  PROVE  I!SumFunction(f) = f[a] + f[b]
<1>0. {a, b} \ {a} = {b} /\ {b} \ {b} = {} /\ {a, b} = {b} \cup {a}
  OBVIOUS
<1>2. IsFiniteSet({b})
  BY FS_Singleton
<1>1. IsFiniteSet({a, b}) /\ {a, b} \ {a} = {b} /\ {b} \ {b} = {}
  BY <1>0, <1>2, FS_AddElement
<1>3. SumFunctionOnSet(f, {a, b}) = f[a] + SumFunctionOnSet(f, {b})
  BY <1>1, SumWithout
<1>4. SumFunctionOnSet(f, {b}) = f[b] + SumFunctionOnSet(f, {})
  BY <1>1, <1>2, SumWithout
<1>5. SumFunctionOnSet(f, {}) = 0
  BY <1>2, SumEquation
<1> QED BY <1>3, <1>4, <1>5, ToldSum

(* The cells of two bands share no signal.                                 *)
LEMMA CellCounts ==
  ASSUME ToldInv, NEW d, NEW sc, NEW v, NEW b
  PROVE  /\ IsFiniteSet(I!Members(b, d, sc, v)) /\ I!Cell(b, d, sc, v) \in Nat
         /\ I!Cell(b, d, sc, v) <= Cardinality(I!Members(b, d, sc, v))
<1>1. IsFiniteSet(DOMAIN resolved)
  <2>1. DOMAIN resolved = 1..Len(resolved) /\ Len(resolved) \in Nat
    BY LenProperties DEF ToldInv
  <2> QED BY <2>1, FS_Interval
<1>2. I!Members(b, d, sc, v) \subseteq DOMAIN resolved
  BY DEF I!Members
<1>3. IsFiniteSet(I!Members(b, d, sc, v))
  BY <1>1, <1>2, FS_Subset
<1>4. Cardinality(I!Members(b, d, sc, v)) \in Nat
  BY <1>3, FS_CardinalityType
<1>5. I!Cell(b, d, sc, v) \in {0, Cardinality(I!Members(b, d, sc, v))}
  BY Card DEF I!Cell
<1> QED BY <1>3, <1>4, <1>5

(* The cells of a cohort are disjoint: together they count no more than it  *)
(* has signals.                                                             *)
LEMMA CountedOnceHolds == ASSUME ToldInv PROVE I!CountedOnce
<1> SUFFICES ASSUME NEW i \in DOMAIN resolved, I!Shown(resolved[i])
             PROVE  LET s == resolved[i]
                    IN  /\ I!SameDirection(s) >= MinSamples
                        /\ I!AllBands(s) >= I!SameDirection(s)
                        /\ I!AllBands(s) <= I!Cardinality({ j \in DOMAIN resolved :
                               resolved[j].side = s.side
                               /\ I!Scope(s) \in {I!Everywhere, resolved[j].series} })
  BY DEF I!CountedOnce
<1> DEFINE s == resolved[i]
           sc == I!Scope(s)
           v == I!Cohort(s, s.side, sc)
           f == [b \in I!Bands |-> I!Cell(b, s.side, sc, v)]
           whole == { j \in DOMAIN resolved : resolved[j].side = s.side
                               /\ sc \in {I!Everywhere, resolved[j].series} }
           M(b) == I!Members(b, s.side, sc, v)
<1>1. s.band \in {"small", "large"}
  <2>1. resolved[i] \in I!Resolved
    BY DEF ToldInv
  <2> QED BY <2>1 DEF I!Resolved, I!Bands
<1>2. I!SameDirection(s) >= MinSamples
  BY DEF I!SameDirection, I!Shown, I!Thick, I!Scope
<1>3. /\ DOMAIN f = {"small", "large"} /\ f["small"] = I!Cell("small", s.side, sc, v)
      /\ f["large"] = I!Cell("large", s.side, sc, v)
  BY DEF I!Bands
<1>4. I!AllBands(s) = I!SumFunction(f)
  BY DEF I!AllBands
<1>5. I!SameDirection(s) = I!Cell(s.band, s.side, sc, v)
  BY DEF I!SameDirection
<1> HIDE DEF f, sc, v, s
<1>6. I!AllBands(s) = I!Cell("small", s.side, sc, v) + I!Cell("large", s.side, sc, v)
  <2>1. f["small"] \in Int /\ f["large"] \in Int
    BY <1>3, CellCounts
  <2> QED BY <1>3, <1>4, <2>1, SumOfTwo
<1>7. I!AllBands(s) >= I!SameDirection(s)
  BY <1>1, <1>5, <1>6, CellCounts
<1>8. /\ M("small") \cap M("large") = {} /\ M("small") \cup M("large") \subseteq whole
  BY DEF I!Members
<1>9. IsFiniteSet(whole)
  <2>1. DOMAIN resolved = 1..Len(resolved) /\ Len(resolved) \in Nat
    BY LenProperties DEF ToldInv
  <2>2. whole \subseteq DOMAIN resolved
    OBVIOUS
  <2> HIDE DEF whole
  <2>3. IsFiniteSet(DOMAIN resolved)
    BY <2>1, FS_Interval
  <2> QED BY <2>2, <2>3, FS_Subset
<1> HIDE DEF whole
<1>10. Cardinality(M("small") \cup M("large")) <= Cardinality(whole)
  BY <1>8, <1>9, FS_Subset
<1>11. Cardinality(M("small") \cup M("large")) = Cardinality(M("small")) + Cardinality(M("large"))
  <2>1. Cardinality(M("small") \cap M("large")) = 0
    BY <1>8, FS_EmptySet
  <2>2. IsFiniteSet(M("small")) /\ IsFiniteSet(M("large"))
    BY CellCounts
  <2>3. Cardinality(M("small")) \in Nat /\ Cardinality(M("large")) \in Nat
    BY <2>2, FS_CardinalityType
  <2> HIDE DEF M
  <2>4. Cardinality(M("small") \cup M("large"))
          = Cardinality(M("small")) + Cardinality(M("large")) - Cardinality(M("small") \cap M("large"))
    BY <2>2, FS_Union
  <2> QED BY <2>1, <2>3, <2>4
<1>12. Cardinality(whole) \in Nat /\ Cardinality(M("small")) \in Nat /\ Cardinality(M("large")) \in Nat
  BY <1>9, CellCounts, FS_CardinalityType
<1>13. I!AllBands(s) <= Cardinality(whole)
  <2>1. /\ I!Cell("small", s.side, sc, v) <= Cardinality(M("small"))
        /\ I!Cell("large", s.side, sc, v) <= Cardinality(M("large"))
        /\ I!Cell("small", s.side, sc, v) \in Nat /\ I!Cell("large", s.side, sc, v) \in Nat
    BY CellCounts
  <2> HIDE DEF M
  <2> QED BY <1>6, <1>10, <1>11, <1>12, <2>1
<1> QED BY <1>2, <1>7, <1>13, Card DEF s, sc, whole

(* A loss and what it used are small numbers. *)
LEMMA LossInt ==
  ASSUME ToldInv
  PROVE  /\ DOMAIN uses = 1..Len(uses) /\ Len(uses) \in Nat /\ IsFiniteSet(DOMAIN uses)
         /\ \A i \in DOMAIN uses : /\ uses[i].loss \in 0..2
                                   /\ DOMAIN uses[i].docs = {"a", "b"}
                                   /\ uses[i].docs["a"] \in 0..2 /\ uses[i].docs["b"] \in 0..2
<1>1. uses \in Seq(I!Uses) /\ DOMAIN uses = 1..Len(uses) /\ Len(uses) \in Nat
  BY LenProperties DEF ToldInv
<1>2. IsFiniteSet(DOMAIN uses)
  BY <1>1, FS_Interval
<1>3. ASSUME NEW i \in DOMAIN uses
      PROVE  uses[i].loss \in 0..2 /\ uses[i].docs \in [{"a", "b"} -> 0..2]
  <2>1. uses[i] \in I!Uses
    BY <1>1
  <2> QED BY <2>1 DEF I!Uses, I!Sources
<1>4. ASSUME NEW i \in DOMAIN uses
      PROVE  DOMAIN uses[i].docs = {"a", "b"} /\ uses[i].docs["a"] \in 0..2 /\ uses[i].docs["b"] \in 0..2
  BY <1>3
<1> QED BY <1>1, <1>2, <1>3, <1>4

(* A signal's shares come to one. *)
LEMMA SharedWhole ==
  ASSUME ToldInv, NEW i \in DOMAIN uses
  PROVE  /\ I!Documents(uses[i]) \in 0..4
         /\ I!Share(uses[i], "a") \in Nat /\ I!Share(uses[i], "b") \in Nat
         /\ I!Share(uses[i], "a") + I!Share(uses[i], "b")
              = IF I!Documents(uses[i]) > 0 THEN 12 ELSE 0
<1> DEFINE a == uses[i].docs["a"]
           b == uses[i].docs["b"]
<1>1. a \in 0..2 /\ b \in 0..2 /\ DOMAIN uses[i].docs = {"a", "b"}
  BY LossInt
<1> DEFINE d == I!Documents(uses[i])
<1>2. d = a + b
  <2>1. d = I!SumFunction(uses[i].docs)
    BY DEF I!Documents
  <2>2. uses[i].docs["a"] \in Int /\ uses[i].docs["b"] \in Int
    BY <1>1
  <2>3. I!SumFunction(uses[i].docs) = uses[i].docs["a"] + uses[i].docs["b"]
    BY <1>1, <2>2, SumOfTwo
  <2> QED BY <2>1, <2>3
<1>3. /\ I!Share(uses[i], "a") = (IF d = 0 THEN 0 ELSE (12 * a) \div d)
      /\ I!Share(uses[i], "b") = (IF d = 0 THEN 0 ELSE (12 * b) \div d)
  BY DEF I!Share
<1> HIDE DEF a, b, d
<1>4. /\ d \in 0..4
      /\ (IF d = 0 THEN 0 ELSE (12 * a) \div d) \in Nat
      /\ (IF d = 0 THEN 0 ELSE (12 * b) \div d) \in Nat
      /\ (IF d = 0 THEN 0 ELSE (12 * a) \div d) + (IF d = 0 THEN 0 ELSE (12 * b) \div d)
           = IF d > 0 THEN 12 ELSE 0
  <2>1. a \in {0, 1, 2} /\ b \in {0, 1, 2}
    BY <1>1
  <2>2. CASE a = 0
    BY <1>2, <2>1, <2>2
  <2>3. CASE a = 1
    BY <1>2, <2>1, <2>3
  <2>4. CASE a = 2
    BY <1>2, <2>1, <2>4
  <2> QED BY <2>1, <2>2, <2>3, <2>4
<1> QED BY <1>3, <1>4 DEF d

(* The shares of a loss come to the loss, over any number of signals and    *)
(* documents.                                                               *)
LEMMA LossSharedHolds == ASSUME ToldInv PROVE I!LossSharedOut
<1> DEFINE D == DOMAIN uses
           with == { i \in D : I!Documents(uses[i]) > 0 }
           sa == [i \in D |-> I!Share(uses[i], "a")]
           sb == [i \in D |-> I!Share(uses[i], "b")]
           sh == [i \in D |-> IF i \in with THEN 12 ELSE 0]
           ea == [i \in D |-> uses[i].loss * I!Share(uses[i], "a")]
           eb == [i \in D |-> uses[i].loss * I!Share(uses[i], "b")]
           eh == [i \in D |-> IF i \in with THEN 12 * uses[i].loss ELSE 0]
           el == [i \in with |-> 12 * uses[i].loss]
           shares == [x \in I!Sources |-> I!Shares(x)]
           errors == [x \in I!Sources |-> I!Error(x)]
<1>1. IsFiniteSet(D) /\ with \in SUBSET D /\ IsFiniteSet(with)
  BY LossInt, FS_Subset
<1>2. ASSUME NEW i \in D
      PROVE  /\ sa[i] \in Int /\ sb[i] \in Int /\ sh[i] = sa[i] + sb[i]
             /\ ea[i] \in Int /\ eb[i] \in Int /\ eh[i] = ea[i] + eb[i]
             /\ eh[i] \in Int /\ sh[i] \in Int
  <2>1. uses[i].loss \in {0, 1, 2}
    BY LossInt
  <2> DEFINE l == uses[i].loss
             p == I!Share(uses[i], "a")
             q == I!Share(uses[i], "b")
  <2>2. p \in Nat /\ q \in Nat /\ p + q = IF i \in with THEN 12 ELSE 0
    BY SharedWhole
  <2>3. sa[i] = p /\ sb[i] = q /\ sh[i] = (IF i \in with THEN 12 ELSE 0)
    OBVIOUS
  <2>4. ea[i] = l * p /\ eb[i] = l * q /\ eh[i] = (IF i \in with THEN 12 * l ELSE 0)
    OBVIOUS
  <2> DEFINE w == i \in with
  <2> HIDE DEF l, p, q, sa, sb, sh, ea, eb, eh, with
  <2>5. l \in {0, 1, 2}
    BY <2>1 DEF l
  <2>6. l * p \in Int /\ l * q \in Int /\ (IF w THEN 12 * l ELSE 0) = l * p + l * q
    <3>1. CASE l = 0
      BY <2>2, <3>1
    <3>2. CASE l = 1
      BY <2>2, <3>2
    <3>3. CASE l = 2
      BY <2>2, <3>3
    <3> QED BY <2>5, <3>1, <3>2, <3>3
  <2> QED BY <2>2, <2>3, <2>4, <2>5, <2>6
<1>3. /\ DOMAIN shares = {"a", "b"} /\ shares["a"] = I!Shares("a") /\ shares["b"] = I!Shares("b")
      /\ DOMAIN errors = {"a", "b"} /\ errors["a"] = I!Error("a") /\ errors["b"] = I!Error("b")
  BY DEF I!Sources
<1>4. /\ I!Shares("a") = SumFunctionOnSet(sa, D) /\ I!Shares("b") = SumFunctionOnSet(sb, D)
      /\ I!Error("a") = SumFunctionOnSet(ea, D) /\ I!Error("b") = SumFunctionOnSet(eb, D)
  <2>1. DOMAIN sa = D /\ DOMAIN sb = D /\ DOMAIN ea = D /\ DOMAIN eb = D
    OBVIOUS
  <2>2. /\ I!Shares("a") = I!SumFunction(sa) /\ I!Shares("b") = I!SumFunction(sb)
        /\ I!Error("a") = I!SumFunction(ea) /\ I!Error("b") = I!SumFunction(eb)
    BY DEF I!Shares, I!Error
  <2> HIDE DEF sa, sb, ea, eb
  <2> QED BY <2>1, <2>2, ToldSum
<1>5. DOMAIN el = with /\ \A i \in with : sh[i] = 12 /\ eh[i] = el[i]
  OBVIOUS
<1>6. \A i \in D \ with : sh[i] = 0 /\ eh[i] = 0
  OBVIOUS
<1>7. I!LossSharedOut <=>
        /\ I!SumFunction(shares) = 12 * I!Cardinality(with)
        /\ I!SumFunction(errors) = I!SumFunction(el)
  BY DEF I!LossSharedOut
<1> HIDE DEF sa, sb, sh, ea, eb, eh, el, shares, errors, with, D
<1>8. /\ SumFunctionOnSet(sa, D) \in Int /\ SumFunctionOnSet(sb, D) \in Int
      /\ SumFunctionOnSet(ea, D) \in Int /\ SumFunctionOnSet(eb, D) \in Int
  BY <1>1, <1>2, SumInt
<1>9. /\ I!SumFunction(shares) = SumFunctionOnSet(sa, D) + SumFunctionOnSet(sb, D)
      /\ I!SumFunction(errors) = SumFunctionOnSet(ea, D) + SumFunctionOnSet(eb, D)
  <2>1. /\ shares["a"] \in Int /\ shares["b"] \in Int /\ errors["a"] \in Int /\ errors["b"] \in Int
    BY <1>3, <1>4, <1>8
  <2>2. I!SumFunction(shares) = shares["a"] + shares["b"]
    BY <1>3, <2>1, SumOfTwo
  <2>3. I!SumFunction(errors) = errors["a"] + errors["b"]
    BY <1>3, <2>1, SumOfTwo
  <2> QED BY <1>3, <1>4, <2>2, <2>3
<1>10. /\ SumFunctionOnSet(sh, D) = SumFunctionOnSet(sa, D) + SumFunctionOnSet(sb, D)
       /\ SumFunctionOnSet(eh, D) = SumFunctionOnSet(ea, D) + SumFunctionOnSet(eb, D)
  BY <1>1, <1>2, SumsAdd
<1>11. SumFunctionOnSet(sh, with) = SumFunctionOnSet(sh, D)
  BY <1>1, <1>2, <1>6, SumOfPartOnly
<1>12. SumFunctionOnSet(sh, with) = 12 * Cardinality(with)
  BY <1>1, <1>5, SumConstant
<1>13. SumFunctionOnSet(el, with) = SumFunctionOnSet(eh, D)
  <2>1. \A x \in with : eh[x] \in Int /\ el[x] = eh[x]
    BY <1>1, <1>2, <1>5
  <2> QED BY <1>1, <1>6, <2>1, SumOfPartOnly
<1>14. I!SumFunction(el) = SumFunctionOnSet(el, with)
  BY <1>5, ToldSum
<1> QED BY <1>7, <1>9, <1>10, <1>11, <1>12, <1>13, <1>14, Card

-----------------------------------------------------------------------------
(* What the assessor is shown of a market's history (AssessorInputs). *)

(* The ends of a bucket are in it. *)
LEMMA HighIn ==
  ASSUME NEW N, IsFiniteSet(N), N # {}
  PROVE  N \subseteq Int => /\ I!Max(N) \in N /\ \A y \in N : I!Max(N) >= y
                            /\ I!Min(N) \in N /\ \A y \in N : I!Min(N) <= y
<1>1. N \subseteq Int => I!Max(N) \in N /\ \A y \in N : I!Max(N) >= y
  BY Highest DEF I!Max
<1>2. N \subseteq Int => I!Min(N) \in N /\ \A y \in N : I!Min(N) <= y
  BY Lowest DEF I!Min
<1> QED BY <1>1, <1>2

(* Neighbours that agree, over a range, agree with its ends. *)
LEMMA AllAlike ==
  ASSUME NEW v, NEW lo \in Int, NEW hi \in Int, \A k \in lo..(hi - 1) : v[k] = v[k + 1],
         NEW i \in lo..hi
  PROVE  v[i] = v[hi]
<1> DEFINE F == {k \in lo..hi : v[k] # v[hi]}
<1> SUFFICES ASSUME F # {} PROVE FALSE
  OBVIOUS
<1>1. F \subseteq lo..hi
  OBVIOUS
<1>2. IsFiniteSet(F)
  BY <1>1, FS_Interval, FS_Subset
<1>3. F \subseteq Int
  OBVIOUS
<1> HIDE DEF F
<1>4. PICK k \in F : \A j \in F : k >= j
  BY <1>2, <1>3, Highest
<1>5. k \in lo..hi /\ v[k] # v[hi]
  BY <1>4 DEF F
<1>6. k # hi /\ k + 1 \in lo..hi /\ k \in lo..(hi - 1)
  BY <1>5
<1>7. k + 1 \notin F
  BY <1>4, <1>5
<1> QED BY <1>5, <1>6, <1>7 DEF F

(* No change counted, no change. *)
LEMMA NoChange ==
  ASSUME NEW h, Len(h) \in Nat
  PROVE  I!Changes(h) = 0 <=> \A k \in 1..(Len(h) - 1) : h[k].side = h[k + 1].side
<1> DEFINE C == { k \in 1..(Len(h) - 1) : h[k].side # h[k + 1].side }
<1>1. I!Changes(h) = Cardinality(C)
  BY Card DEF I!Changes
<1>2. IsFiniteSet(C)
  <2>1. IsFiniteSet(1..(Len(h) - 1))
    BY FS_Interval
  <2> QED BY <2>1, FS_Subset
<1>3. C = {} <=> \A k \in 1..(Len(h) - 1) : h[k].side = h[k + 1].side
  OBVIOUS
<1> HIDE DEF C
<1> QED BY <1>1, <1>2, <1>3, FS_EmptySet

(* A quotient of natural numbers is one. *)
LEMMA QuotientNat ==
  ASSUME NEW a \in Nat, NEW m \in Nat, NEW s \in Nat \ {0}
  PROVE  (a * m) \div s \in Nat
<1>1. a * m \in Nat
  OBVIOUS
<1> DEFINE p == a * m
<1> HIDE DEF p
<1>2. p \in Nat => p \div s \in Nat
  OBVIOUS
<1> QED BY <1>1, <1>2 DEF p

(* A history begins at its first point and ends at its latest. *)
LEMMA HistoryIs ==
  ASSUME ToldInv, history # <<>>
  PROVE  /\ I!Latest \in Nat /\ I!Latest >= 1 /\ I!Latest = Len(history)
         /\ history \in Seq(I!Points) /\ DOMAIN history = 1..I!Latest
         /\ \A i \in 1..I!Latest : history[i].at \in Int
         /\ \A i \in 1..I!Latest : history[1].at <= history[i].at
         /\ I!Span \in Int /\ I!Span >= 0
<1>1. I!Latest = Len(history) /\ Len(history) \in Nat /\ DOMAIN history = 1..Len(history)
      /\ Len(history) >= 1 /\ history \in Seq(I!Points)
  BY EmptySeq, LenProperties DEF ToldInv, I!Latest
<1>2. \A i \in 1..I!Latest : history[i].at \in Int
  <2> SUFFICES ASSUME NEW i \in 1..I!Latest PROVE history[i].at \in Int
    OBVIOUS
  <2>1. history[i] \in I!Points
    BY <1>1
  <2> QED BY <2>1 DEF I!Points
<1>3. \A i \in 1..I!Latest : history[1].at <= history[i].at
  BY <1>1 DEF ToldInv, I!InOrder
<1>4. I!Span \in Int /\ I!Span >= 0
  BY <1>1, <1>2, <1>3 DEF I!Span
<1> QED BY <1>1, <1>2, <1>3, <1>4

(* There are at most two buckets fewer than points to show. *)
LEMMA BucketIn ==
  ASSUME ToldInv, history # <<>>, I!Span # 0, NEW i \in 1..I!Latest
  PROVE  I!Bucket(i) \in 0..(MaxPoints - 3)
<1>0. MaxPoints \in Nat /\ MaxPoints >= 3
  BY ReviewsAssumption DEF I!PointsAssumption
<1> DEFINE a == history[i].at - history[1].at
           m == MaxPoints - 2
           q == (a * m) \div I!Span
<1>1. a \in Nat /\ m \in Nat /\ I!Span \in Nat \ {0}
  BY <1>0, HistoryIs
<1>2. q \in Nat
  BY <1>1, QuotientNat
<1>3. I!Bucket(i) = IF q < MaxPoints - 2 THEN q ELSE MaxPoints - 3
  BY DEF I!Bucket
<1> HIDE DEF q
<1> QED BY <1>0, <1>2, <1>3

(* The points of a bucket, the first and the latest of the history left     *)
(* out.                                                                     *)
InBucket(b) == { i \in 2..(I!Latest - 1) : I!Bucket(i) = b }
(* The buckets that have one. *)
Buckets == { I!Bucket(i) : i \in 2..(I!Latest - 1) }

(* A bucket that has a point has a first and a last. *)
LEMMA BucketHolds ==
  ASSUME ToldInv, history # <<>>, NEW b \in Buckets
  PROVE  /\ I!Max(InBucket(b)) \in InBucket(b) /\ I!Min(InBucket(b)) \in InBucket(b)
         /\ \A i \in InBucket(b) : I!Min(InBucket(b)) <= i /\ i <= I!Max(InBucket(b))
<1>1. InBucket(b) # {}
  BY DEF Buckets, InBucket
<1>2. InBucket(b) \subseteq 1..I!Latest /\ I!Latest \in Nat
  BY HistoryIs DEF InBucket
<1>3. IsFiniteSet(InBucket(b)) /\ InBucket(b) \subseteq Int
  BY <1>2, IndicesFinite
<1> QED BY <1>1, <1>3, HighIn

(* It is shown by its last point, with the changes of side in it. *)
LEMMA BucketPointIs ==
  ASSUME NEW b
  PROVE  I!BucketPoint(b) = [shown |-> I!Max(InBucket(b)), covers |-> InBucket(b),
                             changes |-> I!Changes(SubSeq(history, I!Min(InBucket(b)), I!Max(InBucket(b))))]
BY DEF I!BucketPoint, InBucket

(* A long history is shown by its ends and its buckets. *)
LEMMA SampleIs ==
  I!Sample = IF I!Latest <= MaxPoints THEN { I!Verbatim(i) : i \in 1..I!Latest }
             ELSE IF I!Span = 0
                  THEN { I!Verbatim(i) : i \in (1..(MaxPoints - 1)) \cup {I!Latest} }
             ELSE {I!Verbatim(1), I!Verbatim(I!Latest)} \cup { I!BucketPoint(b) : b \in Buckets }
BY DEF I!Sample, Buckets

(* A point shown as it is stands for itself. *)
LEMMA VerbatimIs ==
  ASSUME NEW i
  PROVE  /\ I!Verbatim(i).shown = i /\ I!Verbatim(i).covers = {i} /\ I!Verbatim(i).changes = 0
BY DEF I!Verbatim

(* The ends are always shown. *)
LEMMA EndsShown ==
  ASSUME ToldInv, history # <<>>
  PROVE  {I!Verbatim(1), I!Verbatim(I!Latest)} \subseteq I!Sample
<1>0. MaxPoints \in Nat /\ MaxPoints >= 3
  BY ReviewsAssumption DEF I!PointsAssumption
<1>1. 1 \in 1..I!Latest /\ I!Latest \in 1..I!Latest /\ 1 \in 1..(MaxPoints - 1)
  BY <1>0, HistoryIs
<1> QED BY <1>1, SampleIs

(* What is shown is never more than the limit. *)
LEMMA SampleFits ==
  ASSUME ToldInv, history # <<>>
  PROVE  Cardinality(I!Sample) <= MaxPoints
<1>0. MaxPoints \in Nat /\ MaxPoints >= 3 /\ I!Latest \in Nat
  BY ReviewsAssumption, HistoryIs DEF I!PointsAssumption
<1>1. ASSUME NEW D, IsFiniteSet(D)
      PROVE  Cardinality({ I!Verbatim(i) : i \in D }) <= Cardinality(D)
  <2> DEFINE f == [i \in D |-> I!Verbatim(i)]
             T == {f[i] : i \in D}
  <2>1. { I!Verbatim(i) : i \in D } = T /\ DOMAIN f = D
    OBVIOUS
  <2> HIDE DEF f
  <2>2. Cardinality(T) <= Cardinality(D)
    BY <1>1, <2>1, ImageBound
  <2> QED BY <2>1, <2>2
<1>2. CASE I!Latest <= MaxPoints
  <2>1. IsFiniteSet(1..I!Latest) /\ Cardinality(1..I!Latest) <= MaxPoints
    <3>1. /\ IsFiniteSet(1..I!Latest)
          /\ Cardinality(1..I!Latest) = IF 1 > I!Latest THEN 0 ELSE I!Latest - 1 + 1
      BY <1>0, FS_Interval
    <3> QED BY <1>0, <1>2, <3>1
  <2>2. I!Sample = { I!Verbatim(i) : i \in 1..I!Latest }
    BY <1>2, SampleIs
  <2>3. Cardinality(I!Sample) <= Cardinality(1..I!Latest)
    BY <1>1, <2>1, <2>2
  <2>4. IsFiniteSet(I!Sample)
    <3> DEFINE f == [i \in 1..I!Latest |-> I!Verbatim(i)]
    <3>1. I!Sample = {f[i] : i \in 1..I!Latest} /\ DOMAIN f = 1..I!Latest
      BY <2>2
    <3> HIDE DEF f
    <3> QED BY <2>1, <3>1, ImageBound
  <2>5. Cardinality(I!Sample) \in Nat /\ Cardinality(1..I!Latest) \in Nat
    BY <2>1, <2>4, FS_CardinalityType
  <2> QED BY <1>0, <2>1, <2>3, <2>5
<1>3. CASE I!Latest > MaxPoints /\ I!Span = 0
  <2> DEFINE D == (1..(MaxPoints - 1)) \cup {I!Latest}
  <2>1. IsFiniteSet(1..(MaxPoints - 1)) /\ Cardinality(1..(MaxPoints - 1)) = MaxPoints - 1
    BY <1>0, FS_Interval
  <2>2. IsFiniteSet(D) /\ Cardinality(D) <= MaxPoints
    BY <1>0, <2>1, FS_AddElement
  <2>3. I!Sample = { I!Verbatim(i) : i \in D }
    BY <1>0, <1>3, SampleIs
  <2> HIDE DEF D
  <2>4. Cardinality(I!Sample) <= Cardinality(D)
    BY <1>1, <2>2, <2>3
  <2>5. IsFiniteSet(I!Sample)
    <3> DEFINE f == [i \in D |-> I!Verbatim(i)]
    <3>1. I!Sample = {f[i] : i \in D} /\ DOMAIN f = D
      BY <2>3
    <3> HIDE DEF f
    <3> QED BY <2>2, <3>1, ImageBound
  <2>6. Cardinality(I!Sample) \in Nat /\ Cardinality(D) \in Nat
    BY <2>2, <2>5, FS_CardinalityType
  <2> QED BY <1>0, <2>2, <2>4, <2>6
<1>4. CASE I!Latest > MaxPoints /\ I!Span # 0
  <2> DEFINE R == 0..(MaxPoints - 3)
             f == [b \in Buckets |-> I!BucketPoint(b)]
             T == { I!BucketPoint(b) : b \in Buckets }
  <2>1. IsFiniteSet(R) /\ Cardinality(R) = MaxPoints - 2
    BY <1>0, FS_Interval
  <2>2. Buckets \in SUBSET R
    BY <1>0, <1>4, BucketIn DEF Buckets
  <2>3. IsFiniteSet(Buckets) /\ Cardinality(Buckets) <= Cardinality(R)
    BY <2>1, <2>2, FS_Subset
  <2>4. DOMAIN f = Buckets /\ T = {f[b] : b \in Buckets}
    OBVIOUS
  <2>5. I!Sample = {I!Verbatim(1), I!Verbatim(I!Latest)} \cup T
    BY <1>0, <1>4, SampleIs
  <2> HIDE DEF f, T, R
  <2>6. IsFiniteSet(T) /\ Cardinality(T) <= Cardinality(Buckets)
    BY <2>3, <2>4, ImageBound
  <2>7. Cardinality(T) \in Nat /\ Cardinality(Buckets) \in Nat
    BY <2>3, <2>6, FS_CardinalityType
  <2> DEFINE x == I!Verbatim(1)
             y == I!Verbatim(I!Latest)
  <2>8. {x, y} \cup T = (T \cup {x}) \cup {y}
    OBVIOUS
  <2> HIDE DEF x, y
  <2>9. IsFiniteSet(T \cup {x}) /\ Cardinality(T \cup {x}) <= Cardinality(T) + 1
        /\ Cardinality(T \cup {x}) \in Nat
    <3>1. /\ IsFiniteSet(T \cup {x})
          /\ Cardinality(T \cup {x}) = IF x \in T THEN Cardinality(T) ELSE Cardinality(T) + 1
      BY <2>6, FS_AddElement
    <3> QED BY <2>7, <3>1
  <2>10. Cardinality((T \cup {x}) \cup {y}) <= Cardinality(T \cup {x}) + 1
         /\ Cardinality((T \cup {x}) \cup {y}) \in Nat
    <3> DEFINE W == T \cup {x}
    <3>1. IsFiniteSet(W) /\ Cardinality(W) \in Nat
      BY <2>9
    <3> HIDE DEF W
    <3>2. Cardinality(W \cup {y}) = IF y \in W THEN Cardinality(W) ELSE Cardinality(W) + 1
      BY <3>1, FS_AddElement
    <3>3. Cardinality(W \cup {y}) <= Cardinality(W) + 1 /\ Cardinality(W \cup {y}) \in Nat
      BY <3>1, <3>2
    <3> QED BY <3>3 DEF W
  <2>11. I!Sample = (T \cup {x}) \cup {y}
    BY <2>5, <2>8 DEF x, y
  <2> QED BY <1>0, <2>1, <2>3, <2>6, <2>7, <2>9, <2>10, <2>11
<1> QED BY <1>0, <1>2, <1>3, <1>4

(* Every point is covered by one that is shown. *)
LEMMA AllCovered ==
  ASSUME ToldInv, history # <<>>, I!Span > 0
  PROVE  UNION { p.covers : p \in I!Sample } = 1..I!Latest
<1>0. I!Latest \in Nat /\ I!Latest >= 1 /\ MaxPoints \in Nat /\ MaxPoints >= 3 /\ I!Span # 0
      /\ I!Span \in Int
  BY ReviewsAssumption, HistoryIs DEF I!PointsAssumption
<1>1. CASE I!Latest <= MaxPoints
  <2>1. I!Sample = { I!Verbatim(i) : i \in 1..I!Latest }
    BY <1>1, SampleIs
  <2> QED BY <2>1, VerbatimIs
<1>2. CASE I!Latest > MaxPoints
  <2>1. I!Sample = {I!Verbatim(1), I!Verbatim(I!Latest)} \cup { I!BucketPoint(b) : b \in Buckets }
    BY <1>0, <1>2, SampleIs
  <2>2. ASSUME NEW b \in Buckets PROVE I!BucketPoint(b).covers = InBucket(b)
    BY BucketPointIs
  <2>3. ASSUME NEW i \in 1..I!Latest PROVE \E p \in I!Sample : i \in p.covers
    <3>1. CASE i = 1 \/ i = I!Latest
      BY <2>1, <3>1, VerbatimIs
    <3>2. CASE i # 1 /\ i # I!Latest
      <4>1. i \in 2..(I!Latest - 1)
        BY <1>0, <3>2
      <4>2. I!Bucket(i) \in Buckets /\ i \in InBucket(I!Bucket(i))
        BY <4>1 DEF Buckets, InBucket
      <4> QED BY <2>1, <2>2, <4>2
    <3> QED BY <3>1, <3>2
  <2>4. ASSUME NEW p \in I!Sample PROVE p.covers \subseteq 1..I!Latest
    <3>1. CASE p \in {I!Verbatim(1), I!Verbatim(I!Latest)}
      <4>1. p.covers = {1} \/ p.covers = {I!Latest}
        BY <3>1, VerbatimIs
      <4> QED BY <1>0, <4>1
    <3>2. ASSUME NEW b \in Buckets, p = I!BucketPoint(b) PROVE p.covers \subseteq 1..I!Latest
      <4>1. p.covers = InBucket(b)
        BY <2>2, <3>2
      <4> QED BY <1>0, <4>1 DEF InBucket
    <3> QED BY <2>1, <3>1, <3>2
  <2> QED BY <2>3, <2>4
<1> QED BY <1>0, <1>1, <1>2

(* When no change shows there was none: within a bucket they are counted,   *)
(* and between buckets the sides shown differ.                              *)
LEMMA NothingHidden ==
  ASSUME ToldInv, history # <<>>, I!Span > 0,
         \A p, q \in I!Sample : p.changes = 0 /\ history[p.shown].side = history[q.shown].side
  PROVE  I!Changes(history) = 0
<1>0. I!Latest \in Nat /\ I!Latest >= 1 /\ MaxPoints \in Nat /\ MaxPoints >= 3 /\ I!Span # 0
      /\ I!Span \in Int /\ history \in Seq(I!Points) /\ I!Latest = Len(history)
  BY ReviewsAssumption, HistoryIs DEF I!PointsAssumption
<1> DEFINE c == history[1].side
<1>1. ASSUME NEW p \in I!Sample PROVE p.changes = 0 /\ history[p.shown].side = c
  <2>1. I!Verbatim(1) \in I!Sample /\ I!Verbatim(1).shown = 1
    BY EndsShown, VerbatimIs
  <2> QED BY <1>1, <2>1
<1>2. ASSUME NEW i \in 1..I!Latest PROVE history[i].side = c
  <2>1. CASE I!Verbatim(i) \in I!Sample
    BY <1>1, <2>1, VerbatimIs
  <2>2. CASE I!Verbatim(i) \notin I!Sample
    <3>1. I!Latest > MaxPoints /\ i # 1 /\ i # I!Latest
      BY <1>0, <2>2, SampleIs, EndsShown
    <3>2. i \in 2..(I!Latest - 1)
      BY <1>0, <3>1
    <3> DEFINE b == I!Bucket(i)
               lo == I!Min(InBucket(b))
               hi == I!Max(InBucket(b))
               h == SubSeq(history, lo, hi)
    <3>3. b \in Buckets /\ i \in InBucket(b) /\ I!BucketPoint(b) \in I!Sample
      BY <1>0, <3>1, <3>2, SampleIs DEF Buckets, InBucket
    <3>4. /\ lo \in InBucket(b) /\ hi \in InBucket(b) /\ lo <= i /\ i <= hi
      BY <3>3, BucketHolds
    <3>5. lo \in 1..Len(history) /\ hi \in 1..Len(history) /\ lo \in Int /\ hi \in Int
          /\ i \in lo..hi
      BY <1>0, <3>2, <3>4 DEF InBucket
    <3>6. I!Changes(h) = 0 /\ history[hi].side = c
      BY <1>1, <3>3, BucketPointIs
    <3> HIDE DEF lo, hi
    <3>7. Len(h) = hi - lo + 1 /\ \A k \in 1..(hi - lo + 1) : h[k] = history[lo + k - 1]
      BY <1>0, <3>5, SubSeqProperties
    <3>8. \A k \in 1..(hi - lo) : h[k].side = h[k + 1].side
      <4>1. Len(h) \in Nat
        BY <3>5, <3>7
      <4>2. \A k \in 1..(Len(h) - 1) : h[k].side = h[k + 1].side
        BY <3>6, <4>1, NoChange
      <4> HIDE DEF h
      <4> QED BY <3>5, <3>7, <4>2
    <3> DEFINE v == [k \in 1..Len(history) |-> history[k].side]
    <3>9. \A k \in lo..(hi - 1) : v[k] = v[k + 1]
      <4> SUFFICES ASSUME NEW k \in lo..(hi - 1) PROVE v[k] = v[k + 1]
        OBVIOUS
      <4> DEFINE n == k - lo + 1
      <4>1. n \in 1..(hi - lo) /\ n + 1 \in 1..(hi - lo + 1) /\ n \in 1..(hi - lo + 1)
            /\ lo + n - 1 = k /\ lo + (n + 1) - 1 = k + 1
        BY <3>5
      <4> HIDE DEF h, n
      <4>2. h[n].side = h[n + 1].side /\ h[n] = history[k] /\ h[n + 1] = history[k + 1]
        BY <3>7, <3>8, <4>1
      <4>3. k \in 1..Len(history) /\ k + 1 \in 1..Len(history)
        BY <3>5
      <4> QED BY <4>2, <4>3
    <3>10. v[i] = history[i].side /\ v[hi] = history[hi].side
      BY <3>5, <1>0
    <3> HIDE DEF v
    <3>11. v[i] = v[hi]
      BY <3>5, <3>9, AllAlike
    <3> QED BY <3>6, <3>10, <3>11
  <2> QED BY <2>1, <2>2
<1>3. \A k \in 1..(Len(history) - 1) : history[k].side = history[k + 1].side
  <2> SUFFICES ASSUME NEW k \in 1..(Len(history) - 1)
               PROVE history[k].side = history[k + 1].side
    OBVIOUS
  <2>1. k \in 1..I!Latest /\ k + 1 \in 1..I!Latest
    BY <1>0
  <2> QED BY <1>2, <2>1
<1> QED BY <1>0, <1>3, NoChange

(* So the assessor is told of the history within the limit, and of its      *)
(* flips.                                                                   *)
LEMMA HistoryToldHolds == ASSUME ToldInv PROVE I!HistoryTold
BY SampleFits, EndsShown, AllCovered, NothingHidden, Card DEF I!HistoryTold

-----------------------------------------------------------------------------
(* The three parts together. *)
JudgedPartsInv ==
  /\ Is("answer") => AnswerInv
  /\ Is("told") => ToldInv
  /\ Is("judged") => JudgedInv

LEMMA JudgedPartsStart == ReviewsInit => JudgedPartsInv
BY AnswerStart, ToldStart, JudgedStart DEF ReviewsInit, JudgedPartsInv, Is

LEMMA AnswerStays ==
  ASSUME AnswerInv, answer' = answer PROVE AnswerInv'
<1>1. S!Fields' = S!Fields /\ S!Directions' = S!Directions /\ S!One' = S!One
  BY DEF S!Fields, S!Directions, S!One
<1>2. answer' \in [meant : [S!Fields -> 0..S!One], unit : [S!Fields -> {"fraction", "percent"}],
                    raw : [S!Fields -> Int], sound : BOOLEAN, direction : S!Directions]'
  BY <1>1 DEF AnswerInv
<1>3. (\A f \in S!Fields : answer.raw[f] = S!Written(answer.meant[f], answer.unit[f]))
        => (\A f \in S!Fields : answer.raw[f] = S!Written(answer.meant[f], answer.unit[f]))'
  BY <1>1 DEF S!Written, S!Percent
<1> QED BY <1>1, <1>2, <1>3 DEF AnswerInv

(* Answers and inputs are as they were given; judgments are made.           *)
LEMMA JudgedPartsKept == JudgedPartsInv /\ [ReviewsNext]_reviews => JudgedPartsInv'
<1> SUFFICES ASSUME JudgedPartsInv, [ReviewsNext]_reviews PROVE JudgedPartsInv'
  OBVIOUS
<1>1. part' = part
  BY DEF ReviewsNext, reviews
<1>2. Is("answer") => answer' = answer
  BY DEF ReviewsNext, reviews, Is
<1>3. Is("told") => resolved' = resolved /\ history' = history /\ uses' = uses
  BY DEF ReviewsNext, reviews, told, Is
<1>4. Is("judged") => A!Next \/ (written' = written /\ rows' = rows)
  BY DEF ReviewsNext, reviews, judged, Is
<1>5. AnswerInv /\ answer' = answer => AnswerInv'
  BY AnswerStays
<1>6. ToldInv /\ resolved' = resolved /\ history' = history /\ uses' = uses => ToldInv'
  BY DEF ToldInv, I!InOrder, I!Resolved, I!Points, I!Uses
<1>7. JudgedInv /\ written' = written /\ rows' = rows => JudgedInv'
  BY DEF JudgedInv, A!ScaledByItsEvidence
<1> QED BY <1>1, <1>2, <1>3, <1>4, <1>5, <1>6, <1>7, JudgedKept DEF JudgedPartsInv, Is

LEMMA JudgedPartsFair == JudgedPartsInv => JudgedFairly
BY AnswerRight, CountedOnceHolds, HistoryToldHolds, LossSharedHolds
   DEF JudgedPartsInv, JudgedFairly, JudgedInv

(* Whatever a model writes, whatever is resolved and used, and however      *)
(* markets are analysed, cloned and judged: an answer is understood as it   *)
(* was meant and sides with its numbers, a resolved signal counts once per  *)
(* cohort, a history is shown whole within its limit and keeps its flips, a *)
(* loss is shared out whole, and a size goes back to a judgment of the same *)
(* evidence.                                                                *)
THEOREM JudgedIsFair == ReviewsSpec => []JudgedFairly
<1> QED BY JudgedPartsStart, JudgedPartsKept, JudgedPartsFair, PTL DEF ReviewsSpec

-----------------------------------------------------------------------------
(* The entry gates, and what repeats them (EntryRules). *)

(* Both sides of the book have a price. *)
Quoted(s) == 0 < s.bid /\ s.bid < s.ask /\ s.ask < E!Dollar

(* The signals that cleared the gates. *)
ClearSet == {i \in 1..Len(log) : E!Clears(log[i])}

(* The log is of quoted signals, and entered was the first of each market   *)
(* that cleared.                                                            *)
EntriesInv ==
  /\ log \in Seq(E!Signals) /\ byLimit \in BOOLEAN
  /\ \A i \in 1..Len(log) : Quoted(log[i])
  /\ entered = E!FirstPerMarket(ClearSet)

(* Nothing is logged at first. *)
LEMMA EntriesStart == ASSUME E!Init PROVE EntriesInv
<1>1. log = <<>> /\ entered = {} /\ byLimit \in BOOLEAN /\ Len(log) = 0
  BY DEF E!Init
<1>2. ClearSet = {} /\ 1..0 = {}
  BY <1>1 DEF ClearSet
<1> QED BY <1>1, <1>2 DEF EntriesInv, E!FirstPerMarket

(* The earliest of some signals of one market. *)
LEMMA EarliestIs ==
  ASSUME NEW n \in Nat, NEW C, C \subseteq 1..n, NEW i \in C
  PROVE  \E j \in E!FirstPerMarket(C) : log[j].market = log[i].market
<1> DEFINE M == {j \in C : log[j].market = log[i].market}
<1>1. IsFiniteSet(M) /\ M # {} /\ M \subseteq Int
  <2>1. M \subseteq 1..n
    OBVIOUS
  <2>0. M # {}
    OBVIOUS
  <2> HIDE DEF M
  <2>3. M \subseteq Int
    BY <2>1
  <2>2. IsFiniteSet(1..n)
    BY FS_Interval
  <2> QED BY <2>0, <2>1, <2>2, <2>3, FS_Subset
<1> HIDE DEF M
<1>2. PICK j \in M : \A k \in M : j <= k
  BY <1>1, Lowest
<1> QED BY <1>2 DEF M, E!FirstPerMarket

(* A signal that is logged clears, or not, on its own; it is entered unless *)
(* an earlier one of its market was.                                        *)
LEMMA EntriesKept == ASSUME EntriesInv, E!Next PROVE EntriesInv'
<1>1. PICK s \in E!Signals :
        /\ Quoted(s)
        /\ log' = Append(log, s)
        /\ entered' = IF E!Clears(s) /\ \A i \in entered : log[i].market # s.market
                      THEN entered \cup {Len(log) + 1} ELSE entered
  BY DEF E!Next, E!Analyze, Quoted
<1>2. byLimit' = byLimit
  BY DEF E!Next, E!Analyze
<1> DEFINE n == Len(log)
<1>3. /\ n \in Nat /\ log' \in Seq(E!Signals) /\ Len(log') = n + 1
      /\ log'[n + 1] = s /\ \A i \in 1..n : log'[i] = log[i]
  BY <1>1, AppendProperties, LenProperties DEF EntriesInv
<1>4. \A i \in 1..Len(log') : Quoted(log'[i])
  BY <1>1, <1>3 DEF EntriesInv
<1> DEFINE first == E!FirstPerMarket(ClearSet)
           first2 == E!FirstPerMarket(ClearSet)'
<1>5. entered = first /\ first \subseteq 1..n /\ ClearSet \subseteq 1..n
  BY DEF EntriesInv, E!FirstPerMarket, ClearSet
<1>6. ClearSet' = {i \in 1..(n + 1) : E!Clears(log'[i])}
  BY <1>3 DEF ClearSet
<1>7. \A i \in 1..n : i \in ClearSet' <=> i \in ClearSet
  BY <1>3, <1>6 DEF ClearSet
<1>8. n + 1 \in ClearSet' <=> E!Clears(s)
  BY <1>3, <1>6
<1>9. first2 = {i \in ClearSet' : \A j \in ClearSet' : log'[j].market = log'[i].market => i <= j}
  BY DEF E!FirstPerMarket
<1>10. first = {i \in ClearSet : \A j \in ClearSet : log[j].market = log[i].market => i <= j}
  BY DEF E!FirstPerMarket
<1>11. ClearSet' \subseteq 1..(n + 1)
  BY <1>6
<1> HIDE DEF n, first, first2
<1>12. ASSUME NEW i \in 1..n PROVE i \in first2 <=> i \in first
  <2>1. ASSUME i \in first2, NEW j \in ClearSet, log[j].market = log[i].market PROVE i <= j
    BY <1>3, <1>5, <1>7, <1>9, <1>12, <2>1
  <2>2. ASSUME i \in first, NEW j \in ClearSet', log'[j].market = log'[i].market PROVE i <= j
    <3>1. CASE j = n + 1
      BY <1>3, <1>12, <3>1
    <3>2. CASE j # n + 1
      <4>1. j \in 1..n /\ j \in ClearSet
        BY <1>3, <1>7, <1>11, <3>2
      <4> QED BY <1>3, <1>10, <1>12, <2>2, <4>1
    <3> QED BY <3>1, <3>2
  <2>3. i \in ClearSet' <=> i \in ClearSet
    BY <1>7, <1>12
  <2>4. i \in first2 => i \in first
    BY <1>9, <1>10, <2>1, <2>3
  <2>5. i \in first => i \in first2
    BY <1>9, <1>10, <2>2, <2>3
  <2> QED BY <2>4, <2>5
<1>13. n + 1 \in first2 <=> E!Clears(s) /\ \A i \in first : log[i].market # s.market
  <2>1. ASSUME n + 1 \in first2, NEW i \in first, log[i].market = s.market PROVE FALSE
    <3>1. i \in 1..n /\ i \in ClearSet
      BY <1>5, <1>10, <2>1
    <3>2. i \in ClearSet' /\ log'[i].market = log'[n + 1].market
      BY <1>3, <1>7, <2>1, <3>1
    <3>3. n + 1 <= i
      BY <1>9, <2>1, <3>2
    <3> QED BY <1>3, <3>1, <3>3
  <2>2. n + 1 \in first2 => E!Clears(s)
    BY <1>8, <1>9
  <2>3. ASSUME E!Clears(s), \A i \in first : log[i].market # s.market PROVE n + 1 \in first2
    <3> SUFFICES ASSUME NEW j \in ClearSet', log'[j].market = log'[n + 1].market PROVE n + 1 <= j
      BY <1>8, <1>9, <2>3
    <3>1. SUFFICES ASSUME j # n + 1 PROVE FALSE
      BY <1>3
    <3>2. j \in 1..n /\ j \in ClearSet /\ log[j].market = s.market
      BY <1>3, <1>7, <1>11, <3>1
    <3>3. \E k \in first : log[k].market = log[j].market
      BY <1>3, <1>5, <3>2, EarliestIs DEF first
    <3> QED BY <2>3, <3>2, <3>3
  <2> QED BY <2>1, <2>2, <2>3
<1>14. first2 \subseteq 1..(n + 1) /\ n + 1 \notin first
  <2>1. first2 \subseteq ClearSet'
    BY <1>9
  <2>2. n + 1 \notin 1..n
    BY <1>3
  <2> QED BY <1>5, <1>11, <2>1, <2>2
<1>15. entered' = first2
  <2>1. \A i : i \in 1..(n + 1) <=> i \in 1..n \/ i = n + 1
    BY <1>3
  <2>2. entered' = IF E!Clears(s) /\ \A i \in first : log[i].market # s.market
                   THEN first \cup {n + 1} ELSE first
    BY <1>1, <1>5 DEF n
  <2>3. ASSUME NEW i \in 1..(n + 1) PROVE i \in entered' <=> i \in first2
    <3>1. CASE i = n + 1
      BY <1>13, <1>14, <2>2, <3>1
    <3>2. CASE i # n + 1
      <4>1. i \in 1..n
        BY <2>1, <3>2
      <4>2. i \in entered' <=> i \in first
        BY <2>2, <3>2
      <4> QED BY <1>12, <4>1, <4>2
    <3> QED BY <3>1, <3>2
  <2>4. entered' \subseteq 1..(n + 1)
    BY <1>5, <2>1, <2>2
  <2> QED BY <1>14, <2>3, <2>4
<1> QED BY <1>2, <1>3, <1>4, <1>15 DEF EntriesInv, first2

-----------------------------------------------------------------------------
(* The fields of a signal are numbers. *)
IsSignal(s) ==
  /\ s \in E!Signals /\ Quoted(s)
  /\ s.bid \in Int /\ s.ask \in Int /\ s.p \in Int /\ s.conf \in Int /\ s.days \in Int
  /\ s.direction \in {"YES", "NO", "SKIP"} /\ s.market \in Markets

(* The settings and the fields are numbers. *)
LEMMA BandsAre ==
  /\ Offers \subseteq Int /\ Beliefs \subseteq Int /\ Confidences \subseteq Int /\ Days \subseteq Int
  /\ LeastEdge \in Int /\ MaxEdge \in Int /\ MinConfidence \in Int /\ MinMid \in Int
  /\ MaxMid \in Int /\ WidestBook \in Int /\ MinDays \in Int /\ MaxDays \in Int
  /\ MinAnalysis \in Int /\ MaxAnalysis \in Int /\ Budget \in Int /\ MaxSize \in Int
<1>1. E!BandsAssumption
  BY ReviewsAssumption
<1>2. E!Prices \subseteq Int /\ 0..10 \subseteq Int
  BY DEF E!Prices
<1> QED BY <1>1, <1>2 DEF E!BandsAssumption

(* What is logged is a signal. *)
LEMMA SignalIs == ASSUME EntriesInv, NEW i \in 1..Len(log) PROVE IsSignal(log[i])
<1>1. log[i] \in E!Signals /\ Quoted(log[i])
  BY LenProperties DEF EntriesInv
<1> DEFINE s == log[i]
<1> HIDE DEF s
<1>2. s \in E!Signals => /\ s.bid \in Offers /\ s.ask \in Offers /\ s.p \in Beliefs
                         /\ s.conf \in Confidences /\ s.days \in Days
                         /\ s.direction \in {"YES", "NO", "SKIP"} /\ s.market \in Markets
  BY DEF E!Signals
<1> QED BY <1>1, <1>2, BandsAre DEF s, IsSignal

(* The spread that is worked out from edge, probability and mid is the      *)
(* book's.                                                                  *)
LEMMA SpreadRebuilt ==
  ASSUME NEW s, IsSignal(s), s.direction # "SKIP"
  PROVE  /\ E!ReconstructedSpread(s) = E!Spread(s) /\ E!Spread(s) > 0 /\ E!Spread(s) \in Int
         /\ \A most \in Int : E!SpreadWithin(s, most) <=> E!Spread(s) <= most
<1> DEFINE bid == s.bid
           ask == s.ask
<1>1. bid \in Int /\ ask \in Int /\ bid < ask /\ (s.direction = "YES" \/ s.direction = "NO")
  BY DEF IsSignal, Quoted
<1>2. E!Spread(s) = ask - bid
  BY DEF E!Spread
<1>3. E!ReconstructedSpread(s)
        = IF s.direction = "YES" THEN 2 * ask - (bid + ask)
          ELSE (bid + ask) + 2 * (IF s.direction = "NO" THEN 200 - bid ELSE ask) - 2 * 200
  BY DEF E!ReconstructedSpread, E!Mid, E!SideAsk, E!OtherSide, E!Dollar
<1> HIDE DEF bid, ask
<1>4. E!ReconstructedSpread(s) = ask - bid
  BY <1>1, <1>3
<1> QED BY <1>1, <1>2, <1>4 DEF E!SpreadWithin

(* With symmetric bands the middle is within them seen from either side. *)
LEMMA MidsAre ==
  ASSUME NEW s, IsSignal(s), s.direction # "SKIP", E!SymmetricBands
  PROVE  /\ E!Mid(s) \in Int /\ E!SideMid(s) \in Int
         /\ 2 * MinMid <= E!Mid(s) /\ E!Mid(s) <= 2 * MaxMid
              <=> 2 * MinMid <= E!SideMid(s) /\ E!SideMid(s) <= 2 * MaxMid
<1>1. MinMid \in Int /\ MaxMid \in Int /\ MinMid + MaxMid = 200
  BY BandsAre DEF E!SymmetricBands, E!Dollar
<1>2. E!Mid(s) \in Int
  BY DEF IsSignal, E!Mid
<1>3. E!SideMid(s) = IF s.direction = "NO" THEN 2 * 200 - E!Mid(s) ELSE E!Mid(s)
  BY DEF E!SideMid, E!Dollar
<1> QED BY <1>1, <1>2, <1>3

(* A signal of a side clears the gates when each of them admits it. *)
LEMMA GatesClear ==
  ASSUME NEW s, IsSignal(s), E!SymmetricBands
  PROVE  E!Clears(s) <=> s.direction # "SKIP" /\ \A g \in E!Gates : E!Admits(g, s)
<1>1. CASE s.direction = "SKIP"
  BY <1>1 DEF E!Clears
<1>2. CASE s.direction # "SKIP"
  <2>1. /\ E!Admits("min_edge", s) <=> LeastEdge <= E!Edge(s)
        /\ E!Admits("max_edge", s) <=> E!Edge(s) <= MaxEdge
        /\ E!Admits("min_confidence", s) <=> MinConfidence <= s.conf
        /\ E!Admits("max_spread", s) <=> E!SpreadWithin(s, WidestBook)
        /\ E!Admits("days_to_close", s) <=> MinDays <= s.days /\ s.days <= MaxDays
        /\ E!Admits("mid_price_band", s) <=> 2 * MinMid <= E!SideMid(s) /\ E!SideMid(s) <= 2 * MaxMid
    BY DEF E!Admits
  <2>2. E!SpreadWithin(s, WidestBook) <=> E!Spread(s) <= WidestBook
    BY <1>2, SpreadRebuilt, BandsAre
  <2>3. E!Gates = {"min_edge", "max_edge", "min_confidence", "max_spread", "days_to_close",
                   "mid_price_band"}
    BY DEF E!Gates
  <2>4. (\A g \in E!Gates : E!Admits(g, s)) <=>
           /\ E!Admits("min_edge", s) /\ E!Admits("max_edge", s) /\ E!Admits("min_confidence", s)
           /\ E!Admits("max_spread", s) /\ E!Admits("days_to_close", s)
           /\ E!Admits("mid_price_band", s)
    BY <2>3
  <2>5. E!Clears(s) <=>
          /\ E!Spread(s) <= WidestBook
          /\ 2 * MinMid <= E!Mid(s) /\ E!Mid(s) <= 2 * MaxMid
          /\ MinDays <= s.days /\ s.days <= MaxDays
          /\ LeastEdge <= E!Edge(s) /\ E!Edge(s) <= MaxEdge
          /\ MinConfidence <= s.conf
          /\ 2 * MinMid <= E!SideMid(s) /\ E!SideMid(s) <= 2 * MaxMid
    BY <1>2 DEF E!Clears, E!ShouldTrade, E!IsMarketInteresting
  <2>6. 2 * MinMid <= E!Mid(s) /\ E!Mid(s) <= 2 * MaxMid
              <=> 2 * MinMid <= E!SideMid(s) /\ E!SideMid(s) <= 2 * MaxMid
    BY <1>2, MidsAre
  <2> QED BY <1>2, <2>1, <2>2, <2>4, <2>5, <2>6
<1> QED BY <1>1, <1>2

(* The review counts as admitted what the gates admit, one by one and       *)
(* together.                                                                *)
LEMMA GatesAgreeHolds == ASSUME EntriesInv PROVE E!GatesAgree
<1> SUFFICES ASSUME E!SymmetricBands
             PROVE  /\ \A i \in entered : E!BenchTrades(log[i])
                    /\ \A g \in E!Gates :
                          /\ E!Admitted(g) = entered
                          /\ \A i \in E!Passing(E!Gates \ {g}) :
                               \E j \in E!Admitted(g) \cup E!Blocked(g) : log[j].market = log[i].market
                    /\ \A g \in E!Swept \cap E!Gates : E!SweepRow(g, E!Setting(g)) = entered
  BY DEF E!GatesAgree
<1>0. Len(log) \in Nat
  BY LenProperties DEF EntriesInv
<1>1. ClearSet = {i \in 1..Len(log) :
                    log[i].direction # "SKIP" /\ \A g \in E!Gates : E!Admits(g, log[i])}
  BY SignalIs, GatesClear DEF ClearSet
<1>2. ASSUME NEW i \in entered PROVE E!BenchTrades(log[i])
  <2>1. E!Clears(log[i])
    BY <1>2 DEF EntriesInv, E!FirstPerMarket, ClearSet
  <2> QED BY <2>1 DEF E!Clears, E!ShouldTrade, E!BenchTrades
<1>3. ASSUME NEW gates
      PROVE  E!Passing(gates) = {i \in 1..Len(log) :
                  log[i].direction # "SKIP" /\ \A g \in gates : E!Admits(g, log[i])}
  BY DEF E!Passing, E!Resolved
<1>4. ASSUME NEW g \in E!Gates
      PROVE  {i \in E!Passing(E!Gates \ {g}) : E!Admits(g, log[i])} = ClearSet
  BY <1>1, <1>3
<1>5. ASSUME NEW g \in E!Gates PROVE E!Admitted(g) = entered
  BY <1>4 DEF E!Admitted, EntriesInv
<1>6. ASSUME NEW g \in E!Gates, NEW i \in E!Passing(E!Gates \ {g})
      PROVE  \E j \in E!Admitted(g) \cup E!Blocked(g) : log[j].market = log[i].market
  <2>1. E!Passing(E!Gates \ {g}) \subseteq 1..Len(log)
    BY <1>3
  <2>2. PICK j \in E!FirstPerMarket(E!Passing(E!Gates \ {g})) : log[j].market = log[i].market
    BY <1>0, <1>6, <2>1, EarliestIs
  <2> QED BY <2>2 DEF E!Blocked
<1>7. ASSUME NEW g \in E!Swept \cap E!Gates PROVE E!SweepRow(g, E!Setting(g)) = entered
  <2>1. g \in {"min_edge", "max_edge", "min_confidence", "max_spread"}
    BY <1>7 DEF E!Swept, E!Gates
  <2>2. E!Excluded(g) = {g}
    BY <2>1 DEF E!Excluded
  <2>3. \A i : E!Within(g, log[i], E!Setting(g)) <=> E!Admits(g, log[i])
    BY <2>1 DEF E!Within, E!Setting, E!Admits
  <2>4. {i \in E!Passing(E!Gates \ E!Excluded(g)) : E!Within(g, log[i], E!Setting(g))} = ClearSet
    BY <1>4, <2>2, <2>3
  <2> QED BY <2>4 DEF E!SweepRow, EntriesInv
<1> QED BY <1>2, <1>5, <1>6, <1>7

(* The replay of a prompt admits what trading admitted: a price is on a     *)
(* tick already.                                                            *)
LEMMA ReplayHolds == ASSUME EntriesInv PROVE E!ReplayAgrees
<1> SUFFICES ASSUME NEW i \in 1..Len(log), ~byLimit \/ E!LimitPrice(log[i]) % E!Tick = 0
             PROVE  E!Replay(log[i]) = E!Submit(log[i])
  BY DEF E!ReplayAgrees
<1> DEFINE s == log[i]
           size == E!CappedSize(s)
<1>1. IsSignal(s)
  BY SignalIs
<1> HIDE DEF s
<1>2. CASE ~E!Clears(s)
  BY <1>2 DEF E!Replay, E!Submit, s
<1>3. CASE E!Clears(s) /\ ~byLimit
  <2>1. s.direction \in {"YES", "NO"}
    BY <1>1, <1>3 DEF IsSignal, E!Clears
  <2>2. E!SideAsk(s) = IF s.direction = "YES" THEN s.ask ELSE E!OtherSide(s.bid)
    BY <2>1 DEF E!SideAsk
  <2> QED BY <1>3, <2>2 DEF E!Replay, E!Submit, s
<1>4. CASE E!Clears(s) /\ byLimit
  <2> DEFINE l == E!LimitPrice(s)
  <2>1. l \in Int /\ l % 2 = 0
    BY <1>1, <1>4, BandsAre DEF E!LimitPrice, IsSignal, E!OtherSide, E!Dollar, E!Tick, s
  <2> HIDE DEF l
  <2>2. CASE l <= 0
    <3>1. E!RoundToTick(l) = 0
      BY <2>1, <2>2 DEF E!RoundToTick
    <3>2. E!Sized(0, size) = E!Declined /\ E!Sized(l, size) = E!Declined
      BY <2>1, <2>2 DEF E!Sized
    <3> QED BY <1>4, <3>1, <3>2 DEF E!Replay, E!Submit, s, l
  <2>3. CASE l > 0
    <3>1. E!RoundToTick(l) = l
      BY <2>1, <2>3 DEF E!RoundToTick, E!Tick
    <3> QED BY <1>4, <3>1 DEF E!Replay, E!Submit, s, l
  <2> QED BY <2>1, <2>2, <2>3
<1> QED BY <1>2, <1>3, <1>4 DEF s

-----------------------------------------------------------------------------
(* A signal and its reflection (EntryRules). *)

Sided(s) == IsSignal(s) /\ s.direction \in {"YES", "NO"}

(* The reflection swaps the sides and turns the prices upside down. *)
LEMMA MirrorIs ==
  ASSUME NEW s, Sided(s)
  PROVE  LET m == E!Mirror(s)
         IN  /\ m.direction = (IF s.direction = "YES" THEN "NO" ELSE "YES")
             /\ m.p = 200 - s.p /\ m.bid = 200 - s.ask /\ m.ask = 200 - s.bid
             /\ m.conf = s.conf /\ m.days = s.days
<1>1. s \in E!Signals /\ s.direction \in {"YES", "NO"}
  BY DEF Sided, IsSignal
<1>2. (CASE s.direction = "YES" -> "NO" [] s.direction = "NO" -> "YES" [] OTHER -> "SKIP")
        = IF s.direction = "YES" THEN "NO" ELSE "YES"
  BY <1>1
<1>3. E!Mirror(s) = [s EXCEPT !.direction = IF s.direction = "YES" THEN "NO" ELSE "YES",
              !.p = 200 - s.p, !.bid = 200 - s.ask, !.ask = 200 - s.bid]
  BY <1>2 DEF E!Mirror, E!OtherSide, E!Dollar
<1> QED BY <1>1, <1>3 DEF E!Signals

(* What the gates and the sizing read. *)
LEMMA MirrorReads ==
  ASSUME NEW s, Sided(s), E!SymmetricBands
  PROVE  LET m == E!Mirror(s)
         IN  /\ E!Edge(m) = E!Edge(s) /\ E!SideMid(m) = E!SideMid(s)
             /\ E!Mid(m) = 400 - E!Mid(s) /\ E!Spread(m) = E!Spread(s)
             /\ E!SideAsk(m) = E!SideAsk(s) /\ E!LimitPrice(m) = E!LimitPrice(s)
             /\ E!ReconstructedSpread(m) = E!ReconstructedSpread(s)
             /\ E!Kelly(m) = E!Kelly(s)
             /\ (2 * MinMid <= E!Mid(m) /\ E!Mid(m) <= 2 * MaxMid
                   <=> 2 * MinMid <= E!Mid(s) /\ E!Mid(s) <= 2 * MaxMid)
<1> DEFINE m == E!Mirror(s)
           d == s.direction
           bid == s.bid
           ask == s.ask
           p == s.p
           c == s.conf
<1>1. /\ m.direction = (IF d = "YES" THEN "NO" ELSE "YES") /\ m.p = 200 - p
      /\ m.bid = 200 - ask /\ m.ask = 200 - bid /\ m.conf = c
  BY MirrorIs
<1>2. d \in {"YES", "NO"} /\ bid \in Int /\ ask \in Int /\ p \in Int /\ c \in Int
  BY DEF Sided, IsSignal
<1>3. /\ LeastEdge \in Int /\ MinMid \in Int /\ MaxMid \in Int /\ MinMid + MaxMid = 200
  BY BandsAre DEF E!SymmetricBands, E!Dollar
<1> HIDE DEF m, d, bid, ask, p, c
<1>4. /\ E!Edge(s) = IF d = "NO" THEN (200 - p) - (200 - bid) ELSE p - ask
      /\ E!Edge(m) = IF m.direction = "NO" THEN (200 - m.p) - (200 - m.bid) ELSE m.p - m.ask
  BY DEF E!Edge, E!SideAsk, E!OtherSide, E!Dollar, d, p, bid, ask
<1>5. E!Edge(m) = E!Edge(s) /\ E!Edge(s) \in Int
  BY <1>1, <1>2, <1>4
<1>6. E!Mid(s) = bid + ask /\ E!Mid(m) = 400 - (bid + ask)
  BY <1>1, <1>2 DEF E!Mid, bid, ask
<1>7. E!SideMid(m) = E!SideMid(s)
  BY <1>1, <1>2, <1>6 DEF E!SideMid, E!Dollar, d
<1>8. E!Spread(m) = E!Spread(s)
  BY <1>1, <1>2 DEF E!Spread, bid, ask
<1>9. E!SideAsk(m) = E!SideAsk(s)
  BY <1>1, <1>2 DEF E!SideAsk, E!OtherSide, E!Dollar, d, bid, ask
<1>10. E!LimitPrice(m) = E!LimitPrice(s)
  BY <1>1, <1>2, <1>3 DEF E!LimitPrice, E!OtherSide, E!Dollar, d, p
<1>11. E!ReconstructedSpread(m) = E!ReconstructedSpread(s)
  BY <1>1, <1>2, <1>6, <1>9
  DEF E!ReconstructedSpread, E!SideAsk, E!OtherSide, E!Dollar, d, bid, ask
<1>12. E!Kelly(m) = E!Kelly(s)
  <2> DEFINE K(q, e, f) ==
        LET above == (f * e + (10 - f) * q) * (200 - q)
                       - (10 * 200 - (f * e + (10 - f) * q)) * q
        IN  IF above <= 0 THEN 0 ELSE (above * Budget) \div (10 * 200 * (200 - q))
  <2>1. E!Kelly(s) = K(IF d = "NO" THEN 200 - (p + E!Edge(s)) ELSE p - E!Edge(s),
                       IF d = "NO" THEN 200 - p ELSE p, c)
    BY DEF E!Kelly, E!OtherSide, E!Dollar, d, p, c
  <2>2. E!Kelly(m) = K(IF m.direction = "NO" THEN 200 - (m.p + E!Edge(m)) ELSE m.p - E!Edge(m),
                       IF m.direction = "NO" THEN 200 - m.p ELSE m.p, m.conf)
    BY DEF E!Kelly, E!OtherSide, E!Dollar
  <2>3. (IF m.direction = "NO" THEN 200 - (m.p + E!Edge(m)) ELSE m.p - E!Edge(m))
          = IF d = "NO" THEN 200 - (p + E!Edge(s)) ELSE p - E!Edge(s)
    BY <1>1, <1>2, <1>5
  <2>4. (IF m.direction = "NO" THEN 200 - m.p ELSE m.p) = IF d = "NO" THEN 200 - p ELSE p
    BY <1>1, <1>2
  <2> HIDE DEF K
  <2> QED BY <1>1, <2>1, <2>2, <2>3, <2>4
<1>13. 2 * MinMid <= E!Mid(m) /\ E!Mid(m) <= 2 * MaxMid
           <=> 2 * MinMid <= E!Mid(s) /\ E!Mid(s) <= 2 * MaxMid
  BY <1>2, <1>3, <1>6
<1> QED BY <1>2, <1>5, <1>6, <1>7, <1>8, <1>9, <1>10, <1>11, <1>12, <1>13 DEF m

(* A signal and its reflection are admitted, sized and priced alike. *)
LEMMA MirrorSubmits ==
  ASSUME NEW s, Sided(s), E!SymmetricBands
  PROVE  /\ E!Submit(E!Mirror(s)) = E!Submit(s) /\ E!Replay(E!Mirror(s)) = E!Replay(s)
         /\ \A g \in E!Gates : E!Admits(g, E!Mirror(s)) = E!Admits(g, s)
<1> DEFINE m == E!Mirror(s)
<1>1. /\ m.direction = (IF s.direction = "YES" THEN "NO" ELSE "YES")
      /\ s.direction \in {"YES", "NO"} /\ m.conf = s.conf /\ m.days = s.days
      /\ m.bid = 200 - s.ask /\ m.ask = 200 - s.bid
      /\ s.bid \in Int /\ s.ask \in Int
  BY MirrorIs DEF Sided, IsSignal
<1>2. /\ E!Edge(m) = E!Edge(s) /\ E!SideMid(m) = E!SideMid(s)
      /\ E!Spread(m) = E!Spread(s)
      /\ E!SideAsk(m) = E!SideAsk(s) /\ E!LimitPrice(m) = E!LimitPrice(s)
      /\ E!ReconstructedSpread(m) = E!ReconstructedSpread(s)
      /\ E!Kelly(m) = E!Kelly(s)
      /\ (2 * MinMid <= E!Mid(m) /\ E!Mid(m) <= 2 * MaxMid
            <=> 2 * MinMid <= E!Mid(s) /\ E!Mid(s) <= 2 * MaxMid)
  BY MirrorReads
<1> HIDE DEF m
<1>3. E!Clears(m) <=> E!Clears(s)
  BY <1>1, <1>2 DEF E!Clears, E!ShouldTrade, E!IsMarketInteresting
<1>4. E!CappedSize(m) = E!CappedSize(s)
  BY <1>2 DEF E!CappedSize
<1>5. E!Submit(m) = E!Submit(s)
  BY <1>2, <1>3, <1>4 DEF E!Submit
<1>6. (IF m.direction = "YES" THEN m.ask ELSE E!OtherSide(m.bid))
        = IF s.direction = "YES" THEN s.ask ELSE E!OtherSide(s.bid)
  BY <1>1 DEF E!OtherSide, E!Dollar
<1>7. E!Replay(m) = E!Replay(s)
  BY <1>2, <1>3, <1>4, <1>6 DEF E!Replay
<1>8. ASSUME NEW g \in E!Gates PROVE E!Admits(g, m) = E!Admits(g, s)
  <2>1. \A most : E!SpreadWithin(m, most) = E!SpreadWithin(s, most)
    BY <1>2 DEF E!SpreadWithin
  <2>2. g \in {"min_edge", "max_edge", "min_confidence", "max_spread", "days_to_close", "mid_price_band"}
    BY DEF E!Gates
  <2>3. CASE g = "min_edge" \/ g = "max_edge" \/ g = "min_confidence"
    BY <1>1, <1>2, <2>3 DEF E!Admits
  <2>4. CASE g = "max_spread"
    BY <2>1, <2>4 DEF E!Admits
  <2>5. CASE g = "days_to_close" \/ g = "mid_price_band"
    BY <1>1, <1>2, <2>5 DEF E!Admits
  <2> QED BY <2>2, <2>3, <2>4, <2>5
<1> QED BY <1>5, <1>7, <1>8 DEF m

(* And they end a position, and ask for another analysis, alike. *)
LEMMA MirrorExits ==
  ASSUME NEW s, Sided(s), NEW t, Sided(t), E!SymmetricBands
  PROVE  /\ E!ShouldExit(E!Mirror(s), E!Mirror(t)) = E!ShouldExit(s, t)
         /\ E!ShouldAnalyze(E!Mirror(s), E!Mirror(t)) = E!ShouldAnalyze(s, t)
<1> DEFINE m == E!Mirror(s)
           n == E!Mirror(t)
<1>1. /\ m.direction = (IF s.direction = "YES" THEN "NO" ELSE "YES")
      /\ s.direction \in {"YES", "NO"} /\ m.p = 200 - s.p /\ s.p \in Int
  BY MirrorIs DEF Sided, IsSignal
<1>2. /\ n.direction = (IF t.direction = "YES" THEN "NO" ELSE "YES")
      /\ t.direction \in {"YES", "NO"} /\ n.p = 200 - t.p /\ t.p \in Int /\ n.conf = t.conf
  BY MirrorIs DEF Sided, IsSignal
<1>3. E!Mid(n) = 400 - E!Mid(t) /\ E!Mid(t) \in Int
  BY MirrorReads DEF Sided, IsSignal, E!Mid
<1> HIDE DEF m, n
<1>4. (n.direction \notin {"SKIP", m.direction}) <=> (t.direction \notin {"SKIP", s.direction})
  BY <1>1, <1>2
<1>5. (IF m.direction = "YES" THEN m.p - n.p ELSE n.p - m.p)
        = IF s.direction = "YES" THEN s.p - t.p ELSE t.p - s.p
  BY <1>1, <1>2
<1>6. E!ShouldExit(m, n) = E!ShouldExit(s, t)
  BY <1>2, <1>4, <1>5 DEF E!ShouldExit
<1>7. (IF m.direction = "YES" THEN E!Mid(n) ELSE 2 * 200 - E!Mid(n))
        = IF s.direction = "YES" THEN E!Mid(t) ELSE 2 * 200 - E!Mid(t)
  BY <1>1, <1>3
<1>8. E!ShouldAnalyze(m, n) = E!ShouldAnalyze(s, t)
  BY <1>7 DEF E!ShouldAnalyze, E!Dollar
<1> QED BY <1>6, <1>8 DEF m, n

(* So no rule favours a side. *)
LEMMA MirrorHolds == ASSUME EntriesInv PROVE E!MirrorSymmetric
<1>1. ASSUME NEW i \in E!Resolved PROVE Sided(log[i])
  <2>1. i \in 1..Len(log) /\ log[i].direction # "SKIP"
    BY DEF E!Resolved
  <2>2. IsSignal(log[i])
    BY <2>1, SignalIs
  <2> QED BY <2>1, <2>2 DEF Sided, IsSignal
<1> QED BY <1>1, MirrorSubmits, MirrorExits DEF E!MirrorSymmetric

-----------------------------------------------------------------------------
(* The life of a position, as a review finds it (PositionReview). *)

(* What a sale brought and what a purchase cost at a time. *)
SaleAt(t) == V!Sale(side, path[t])
CostAt(t) == V!Cost(side, path[t])

(* The quotes the monitor has passed over. *)
Made == IF turn = "monitor" /\ result = V!None THEN Len(path) - 1 ELSE Len(path)

(* The prices the position could be sold at by a time, its entry first, and *)
(* the best of them.                                                        *)
Bid(k) == {position.entry} \cup {SaleAt(t) : t \in 1..k}
Top(k) == V!Max(Bid(k))

(* A signal that came at a time takes the other side. *)
Flipped(t) == \E i \in 1..Len(signals) : signals[i].at = t /\ V!Flips(signals[i])

(* A pass that had no reason to end the position. *)
Quiet(t) ==
  /\ SaleAt(t) > position.entry - Stop
  /\ V!AtMarket /\ Trailing => SaleAt(t) > V!StopLevel(Top(t - 1))
  /\ ~V!AtMarket /\ path[t].ask - path[t].bid <= MaxSpread => ~Flipped(t)

(* The fields are numbers; the last quote is the book; the fields of the    *)
(* order and the row go together.                                           *)
LifeTyped ==
  /\ side \in {"YES", "NO"} /\ mode \in {"paper", "live"} /\ terminal = FALSE
  /\ book \in V!Books /\ path \in Seq(V!Books) /\ Len(path) <= Ticks
  /\ Len(path) > 0 => book = path[Len(path)]
  /\ span \in Nat \ {0} /\ signals \in Seq(V!Signals)
  /\ \A i \in 1..Len(signals) : signals[i].at <= Len(path)
  /\ turn \in {"market", "monitor"} /\ result \in {V!None, 0, V!Dollar}
  /\ turn = "monitor" /\ result = V!None => Len(path) > 0
  /\ result # V!None => Len(path) = Ticks
  /\ position.status \in {"pending", "open", "closed"} /\ position.contracts = Size
  /\ position.entry \in Int /\ position.exit \in Int /\ position.pnl \in Int /\ peak \in Int
  /\ DOMAIN position = {"status", "entry", "contracts", "acc", "fees", "filled", "mae", "mfe",
                         "exit", "reason", "pnl"}
  /\ limit \in {V!None} \cup 1..V!Dollar /\ filledAt \in {V!None} \cup Nat /\ exitAt \in {V!None} \cup Nat
  /\ V!AtMarket => filledAt = 0 /\ position.status # "pending"
  /\ ~V!AtMarket => mode = "paper"
  /\ position.status = "closed" => mode = "paper" /\ turn = "market"

(* The order waits for the ask to come down to it. *)
LifeWaits ==
  position.status = "pending" =>
    /\ ~V!AtMarket /\ filledAt = V!None /\ position.entry = limit
    /\ \A t \in 1..Made : CostAt(t) > limit /\ t < Timeout
    /\ Len(path) = 0 => V!CurrentAsk > limit

(* The first ask that came down to it, in time, filled it. *)
LifeFilled ==
  position.status = "open" \/ (position.status = "closed" /\ position.reason # "cancelled") =>
    /\ filledAt # V!None /\ filledAt <= Made
    /\ ~V!AtMarket => /\ filledAt >= 1 /\ filledAt <= Timeout /\ CostAt(filledAt) <= limit
                      /\ \A t \in 1..(filledAt - 1) : CostAt(t) > limit

(* While it is open no pass had a reason to end it, and the peak is the     *)
(* best bid.                                                                *)
LifeOpen ==
  position.status = "open" /\ mode = "paper" /\ V!BidsThroughout =>
    /\ \A t \in (filledAt + 1)..Made : Quiet(t)
    /\ V!AtMarket => V!PeakPrice = Top(Made)

(* Why the position ended. *)
LifeEnded ==
  position.status = "closed" =>
    /\ exitAt # V!None /\ exitAt <= Len(path)
    /\ position.reason \in {"stoploss", "trailing_stop", "signal", "market_resolved", "cancelled"}
    /\ position.reason = "cancelled" =>
         /\ ~V!AtMarket /\ filledAt = V!None /\ exitAt >= Timeout /\ position.pnl = 0
         /\ \A t \in 1..exitAt : CostAt(t) > limit
    /\ position.reason # "cancelled" =>
         /\ position.pnl = (position.exit - position.entry) * Size
         /\ filledAt <= exitAt
    /\ position.reason = "market_resolved" =>
         result # V!None /\ exitAt = Ticks /\ position.exit = V!OfSide(result)
    /\ position.reason \in {"stoploss", "trailing_stop", "signal"} => filledAt < exitAt
    /\ V!BidsThroughout =>
         /\ position.reason # "cancelled" => \A t \in (filledAt + 1)..(exitAt - 1) : Quiet(t)
         /\ position.reason = "market_resolved" /\ filledAt < exitAt => Quiet(exitAt)
         /\ position.reason = "stoploss" =>
              SaleAt(exitAt) <= position.entry - Stop /\ position.exit <= position.entry - Stop
         /\ position.reason = "trailing_stop" /\ V!AtMarket =>
              /\ Trailing /\ SaleAt(exitAt) <= V!StopLevel(Top(exitAt - 1))
              /\ LimitExit => position.exit = V!StopLevel(Top(exitAt - 1))
         /\ position.reason = "signal" =>
              /\ ~V!AtMarket /\ Flipped(exitAt)
              /\ SaleAt(exitAt) > position.entry - Stop /\ position.exit = SaleAt(exitAt)

(* The parts together. *)
LifeInv == LifeTyped /\ LifeWaits /\ LifeFilled /\ LifeOpen /\ LifeEnded

-----------------------------------------------------------------------------
(* Quotes, best bids and candles. *)

(* A product with the length of a candle keeps the order. *)
LEMMA InOrderOf ==
  ASSUME NEW a \in Int, NEW b \in Int, NEW s \in Nat \ {0}
  PROVE  /\ a <= b => a * s <= b * s
         /\ a * s \in Int /\ b * s \in Int
OBVIOUS

(* The settings are numbers. *)
LEMMA LifeConstants ==
  /\ Stop \in Int /\ Trail \in Int /\ ArmAt \in Int /\ MaxSpread \in Int
  /\ 0 < Trail /\ Trail <= Stop /\ Size \in Nat \ {0}
  /\ Timeout \in Nat \ {0} /\ Ticks \in Nat /\ Spans \subseteq Nat \ {0}
  /\ Quotes \subseteq Int /\ Estimates \subseteq Int /\ Modes \subseteq {"paper", "live"}
  /\ Faults \in BOOLEAN /\ Trailing \in BOOLEAN /\ LimitExit \in BOOLEAN /\ OnExchange \in BOOLEAN
  /\ \A q \in Quotes : 0 <= q /\ q <= 100
<1>1. V!Cents \subseteq Int /\ \A q \in V!Cents : 0 <= q /\ q <= 100
  BY DEF V!Cents, V!Dollar
<1>2. /\ V!QuotesAssumption /\ V!SizeAssumption /\ V!StopAssumption /\ V!FlagAssumption
      /\ V!ModeAssumption /\ V!PathAssumption /\ V!ReviewAssumption /\ V!TrailAssumption
  BY ReviewsAssumption
<1>3. Quotes \subseteq V!Cents /\ Estimates \subseteq V!Cents
  BY <1>2 DEF V!QuotesAssumption, V!ReviewAssumption
<1>4. /\ Stop \in V!Cents /\ Trail \in V!Cents /\ ArmAt \in V!Cents /\ MaxSpread \in V!Cents
  BY <1>2 DEF V!StopAssumption
<1>5. Quotes \subseteq Int /\ Estimates \subseteq Int /\ \A q \in Quotes : 0 <= q /\ q <= 100
  BY <1>1, <1>3
<1>6. Stop \in Int /\ Trail \in Int /\ ArmAt \in Int /\ MaxSpread \in Int
  BY <1>1, <1>4
<1>7. 0 < Trail /\ Trail <= Stop
  BY <1>2 DEF V!TrailAssumption
<1>8. Size \in Nat \ {0} /\ Timeout \in Nat \ {0} /\ Ticks \in Nat /\ Spans \subseteq Nat \ {0}
  BY <1>2 DEF V!SizeAssumption, V!ReviewAssumption, V!PathAssumption
<1>9. Modes \subseteq {"paper", "live"}
  BY <1>2 DEF V!ModeAssumption
<1>10. Faults \in BOOLEAN /\ Trailing \in BOOLEAN /\ LimitExit \in BOOLEAN /\ OnExchange \in BOOLEAN
  BY <1>2 DEF V!FlagAssumption
<1> QED BY <1>5, <1>6, <1>7, <1>8, <1>9, <1>10

(* So are the prices of a quote, *)
LEMMA BooksAre ==
  ASSUME NEW b \in V!Books
  PROVE  /\ b.bid \in Int /\ b.ask \in Int /\ b.last \in Int /\ b.bid < b.ask
         /\ \A d : V!Sale(d, b) \in Int /\ V!Cost(d, b) \in Int
<1>1. b.bid \in Quotes /\ b.ask \in Quotes /\ b.last \in Quotes /\ b.bid < b.ask
  BY DEF V!Books
<1>2. b.bid \in Int /\ b.ask \in Int /\ b.last \in Int
  BY <1>1, LifeConstants
<1> QED BY <1>1, <1>2 DEF V!Sale, V!Cost, V!Dollar

(* of each of a path. *)
LEMMA PathIs ==
  ASSUME LifeTyped
  PROVE  /\ Len(path) \in Nat
         /\ \A t \in 1..Len(path) : /\ path[t] \in V!Books /\ SaleAt(t) \in Int /\ CostAt(t) \in Int
                                    /\ path[t].bid \in Int /\ path[t].ask \in Int
<1>1. Len(path) \in Nat /\ \A t \in 1..Len(path) : path[t] \in V!Books
  BY LenProperties DEF LifeTyped
<1> QED BY <1>1, BooksAre DEF SaleAt, CostAt

(* The least and the greatest of what a candle or a walk looks at. *)
LEMMA ExtremesIn ==
  ASSUME NEW N, IsFiniteSet(N), N # {}
  PROVE  N \subseteq Int => /\ V!Max(N) \in N /\ \A y \in N : V!Max(N) >= y
                            /\ V!Min(N) \in N /\ \A y \in N : V!Min(N) <= y
<1>1. N \subseteq Int => V!Max(N) \in N /\ \A y \in N : V!Max(N) >= y
  BY Highest DEF V!Max
<1>2. N \subseteq Int => V!Min(N) \in N /\ \A y \in N : V!Min(N) <= y
  BY Lowest DEF V!Min
<1> QED BY <1>1, <1>2

(* The first of some indices, if there is one. *)
LEMMA FirstIs ==
  ASSUME NEW n \in Nat, NEW N, N \subseteq 1..n
  PROVE  /\ V!First(N) = V!None <=> N = {}
         /\ N # {} => V!First(N) \in N /\ \A y \in N : V!First(N) <= y
<1>1. CASE N = {}
  BY <1>1 DEF V!First
<1>2. CASE N # {}
  <2>1. IsFiniteSet(N) /\ N \subseteq Int
    BY IndicesFinite
  <2>2. V!Min(N) \in N /\ \A y \in N : V!Min(N) <= y
    BY <1>2, <2>1, ExtremesIn
  <2>3. V!First(N) = V!Min(N)
    BY <1>2 DEF V!First
  <2>4. V!Min(N) # V!None
    BY <2>2 DEF V!None
  <2> QED BY <1>2, <2>2, <2>3, <2>4
<1> QED BY <1>1, <1>2

-----------------------------------------------------------------------------
(* The best bid is one of the bids, and no bid is better; *)
LEMMA TopIs ==
  ASSUME LifeTyped, NEW k \in 0..Len(path)
  PROVE  /\ Top(k) \in Bid(k) /\ Top(k) \in Int /\ \A y \in Bid(k) : y <= Top(k)
         /\ Top(k) >= position.entry
<1> DEFINE f == [t \in 1..k |-> SaleAt(t)]
           T == {f[t] : t \in 1..k}
<1>1. T = {SaleAt(t) : t \in 1..k} /\ DOMAIN f = 1..k
  OBVIOUS
<1>2. \A t \in 1..k : SaleAt(t) \in Int
  BY PathIs
<1>3. IsFiniteSet(1..k)
  <2>1. k \in Int
    BY PathIs
  <2> QED BY <2>1, FS_Interval
<1>4. Bid(k) = T \cup {position.entry}
  BY <1>1 DEF Bid
<1>5. Bid(k) \subseteq Int
  BY <1>2 DEF Bid, LifeTyped
<1> HIDE DEF f
<1>6. IsFiniteSet(T)
  BY <1>1, <1>3, ImageBound
<1> HIDE DEF T
<1>7. IsFiniteSet(Bid(k)) /\ Bid(k) # {} /\ position.entry \in Bid(k)
  BY <1>4, <1>6, FS_AddElement
<1>8. V!Max(Bid(k)) \in Bid(k) /\ \A y \in Bid(k) : V!Max(Bid(k)) >= y
  BY <1>5, <1>7, ExtremesIn
<1>9. V!Max(Bid(k)) \in Int /\ position.entry \in Int
  BY <1>5, <1>7, <1>8
<1> QED BY <1>5, <1>7, <1>8, <1>9 DEF Top

(* bids are numbers, *)
LEMMA BidInt ==
  ASSUME LifeTyped, NEW k \in 0..Len(path)
  PROVE  Bid(k) \subseteq Int
<1>1. \A t \in 1..k : SaleAt(t) \in Int
  BY PathIs
<1> QED BY <1>1 DEF Bid, LifeTyped

(* so one that no other beats is the best; *)
LEMMA TopUnique ==
  ASSUME LifeTyped, NEW k \in 0..Len(path), NEW x \in Bid(k), \A y \in Bid(k) : y <= x
  PROVE  Top(k) = x
<1>1. Top(k) \in Bid(k) /\ \A y \in Bid(k) : y <= Top(k)
  BY TopIs
<1>2. Bid(k) \subseteq Int
  BY BidInt
<1> QED BY <1>1, <1>2

(* and a quote raises it or leaves it. *)
LEMMA TopGrows ==
  ASSUME LifeTyped, NEW k \in 1..Len(path)
  PROVE  Top(k) = IF SaleAt(k) > Top(k - 1) THEN SaleAt(k) ELSE Top(k - 1)
<1>1. k \in 0..Len(path) /\ k - 1 \in 0..Len(path) /\ k \in 1..k /\ SaleAt(k) \in Int
  BY PathIs
<1>2. /\ Top(k - 1) \in Bid(k - 1) /\ Top(k - 1) \in Int
      /\ \A y \in Bid(k - 1) : y <= Top(k - 1)
  BY <1>1, TopIs
<1>3. \A t : t \in 1..k <=> t \in 1..(k - 1) \/ t = k
  BY <1>1
<1>4. Bid(k) = Bid(k - 1) \cup {SaleAt(k)}
  BY <1>3 DEF Bid
<1> DEFINE x == IF SaleAt(k) > Top(k - 1) THEN SaleAt(k) ELSE Top(k - 1)
<1>5. Bid(k) \subseteq Int
  BY <1>1, BidInt
<1>6. x \in Bid(k) /\ \A y \in Bid(k) : y <= x
  BY <1>1, <1>2, <1>4, <1>5
<1> HIDE DEF x
<1> QED BY <1>1, <1>6, TopUnique DEF x

(* The trailing level follows the peak, below it, and above the stop. *)
LEMMA LevelIs ==
  ASSUME position.entry \in Int, NEW a \in Int
  PROVE  /\ V!StopLevel(a) \in Int /\ V!StopLevel(a) < a
         /\ a >= position.entry => V!StopLevel(a) >= position.entry - Stop
         /\ V!TrailLevel(position.entry, a, ArmAt, Trail) = V!StopLevel(a)
         /\ \A b \in Int : a <= b => V!StopLevel(a) <= V!StopLevel(b)
BY LifeConstants DEF V!StopLevel, V!TrailDistance, V!TrailLevel

-----------------------------------------------------------------------------
(* A candle that fits ends where the next begins. *)
LEMMA Within ==
  ASSUME NEW n \in Nat, NEW s \in Nat \ {0}, NEW c \in 1..(n \div s)
  PROVE  /\ c * s \in Nat /\ (c - 1) * s \in Nat /\ (c - 1) * s + s = c * s /\ c * s <= n
<1>1. n \div s \in Nat /\ (n \div s) * s <= n
  OBVIOUS
<1>2. c * s <= (n \div s) * s
  <2> DEFINE q == n \div s
  <2>1. q \in Nat /\ c <= q
    BY <1>1
  <2> HIDE DEF q
  <2>2. c * s <= q * s
    BY <2>1
  <2> QED BY <2>2 DEF q
<1>3. c * s \in Nat /\ (c - 1) * s \in Nat
  OBVIOUS
<1>4. (c - 1) * s + s = c * s
  OBVIOUS
<1>5. (n \div s) * s \in Nat
  BY <1>1
<1> QED BY <1>1, <1>2, <1>3, <1>4, <1>5

(* A time within the candles is in one of them. *)
LEMMA CandleOf ==
  ASSUME NEW m \in Nat, NEW s \in Nat \ {0}, NEW t \in 1..(m * s)
  PROVE  \E c \in 1..m : t \in ((c - 1) * s + 1)..(c * s)
<1> DEFINE q == (t - 1) \div s
           r == (t - 1) % s
<1>1. q \in Nat /\ r \in 0..(s - 1) /\ t - 1 = s * q + r
  BY m * s \in Nat
<1> HIDE DEF q, r
<1>2. q < m
  <2> SUFFICES ASSUME q >= m PROVE FALSE
    BY <1>1
  <2>1. q * s >= m * s
    BY <1>1
  <2>2. m * s \in Nat /\ q * s \in Nat /\ s * q = q * s
    BY <1>1
  <2> QED BY <1>1, <2>1, <2>2
<1>3. q + 1 \in 1..m
  BY <1>1, <1>2
<1>4. ((q + 1) - 1) * s = s * q /\ (q + 1) * s = s * q + s /\ s * q \in Nat
  BY <1>1
<1>5. t \in (((q + 1) - 1) * s + 1)..((q + 1) * s)
  BY <1>1, <1>4, m * s \in Nat
<1> QED BY <1>3, <1>5

(* A candle's prices are the extremes of its quotes. *)
LEMMA CandleIs ==
  ASSUME LifeTyped, NEW c \in V!Candles
  PROVE  /\ V!EndOf(c) = c * span /\ V!EndOf(c - 1) = (c - 1) * span
         /\ c * span \in 1..Len(path) /\ (c - 1) * span \in Nat /\ (c - 1) * span + span = c * span
         /\ c \in 1..Len(path)
         /\ V!SellLow(c) \in Int /\ V!SellHigh(c) \in Int /\ V!BuyLow(c) \in Int
         /\ \A t \in ((c - 1) * span + 1)..(c * span) :
              /\ V!SellLow(c) <= SaleAt(t) /\ SaleAt(t) <= V!SellHigh(c) /\ V!BuyLow(c) <= CostAt(t)
              /\ t \in 1..Len(path)
         /\ \E t \in ((c - 1) * span + 1)..(c * span) : V!SellLow(c) = SaleAt(t)
         /\ \E t \in ((c - 1) * span + 1)..(c * span) : V!SellHigh(c) = SaleAt(t)
         /\ \E t \in ((c - 1) * span + 1)..(c * span) : V!BuyLow(c) = CostAt(t)
<1>1. span \in Nat \ {0} /\ Len(path) \in Nat /\ c \in 1..(Len(path) \div span)
  BY PathIs DEF LifeTyped, V!Candles
<1>2. /\ V!EndOf(c) = c * span /\ V!EndOf(c - 1) = (c - 1) * span
  BY DEF V!EndOf
<1> DEFINE lo == (c - 1) * span + 1
           hi == c * span
<1>3. /\ hi \in Nat /\ (c - 1) * span \in Nat /\ (c - 1) * span + span = hi /\ hi <= Len(path)
  BY <1>1, Within
<1>4. c <= hi
  <2>1. c \in Nat /\ c >= 1 /\ span >= 1
    BY <1>1
  <2>2. c * span >= c * 1
    BY <1>1, <2>1
  <2> QED BY <2>1, <2>2
<1>5. lo \in Nat /\ lo >= 1 /\ lo <= hi /\ \A t \in lo..hi : t \in 1..Len(path)
  BY <1>1, <1>3
<1> DEFINE sales == {V!Sale(side, q) : q \in V!InOf(c)}
           costs == {V!Cost(side, q) : q \in V!InOf(c)}
<1>6. V!InOf(c) = {path[t] : t \in lo..hi}
  BY <1>2 DEF V!InOf
<1>7. sales = {SaleAt(t) : t \in lo..hi} /\ costs = {CostAt(t) : t \in lo..hi}
  BY <1>6 DEF SaleAt, CostAt
<1>8. V!SellLow(c) = V!Min(sales) /\ V!SellHigh(c) = V!Max(sales) /\ V!BuyLow(c) = V!Min(costs)
  BY DEF V!SellLow, V!SellHigh, V!BuyLow
<1> HIDE DEF sales, costs, lo, hi
<1>9. IsFiniteSet(lo..hi) /\ lo..hi # {}
  <2>1. lo \in Int /\ hi \in Int /\ lo \in lo..hi
    BY <1>3, <1>5
  <2>2. IsFiniteSet(lo..hi)
    BY <2>1, FS_Interval
  <2> QED BY <2>1, <2>2
<1>10. IsFiniteSet(sales) /\ IsFiniteSet(costs)
  <2> DEFINE f == [t \in lo..hi |-> SaleAt(t)]
             g == [t \in lo..hi |-> CostAt(t)]
  <2>1. sales = {f[t] : t \in lo..hi} /\ DOMAIN f = lo..hi
        /\ costs = {g[t] : t \in lo..hi} /\ DOMAIN g = lo..hi
    BY <1>7
  <2> HIDE DEF f, g
  <2> QED BY <1>9, <2>1, ImageBound
<1>11. /\ sales \subseteq Int /\ costs \subseteq Int /\ sales # {} /\ costs # {}
  BY <1>5, <1>7, <1>9, PathIs
<1>12. /\ V!Max(sales) \in sales /\ \A y \in sales : V!Max(sales) >= y
       /\ V!Min(sales) \in sales /\ \A y \in sales : V!Min(sales) <= y
       /\ V!Min(costs) \in costs /\ \A y \in costs : V!Min(costs) <= y
  BY <1>10, <1>11, ExtremesIn
<1>13. /\ V!SellLow(c) \in Int /\ V!SellHigh(c) \in Int /\ V!BuyLow(c) \in Int
  BY <1>8, <1>11, <1>12
<1>14. \A t \in lo..hi :
              /\ V!SellLow(c) <= SaleAt(t) /\ SaleAt(t) <= V!SellHigh(c) /\ V!BuyLow(c) <= CostAt(t)
  <2> SUFFICES ASSUME NEW t \in lo..hi
               PROVE  /\ V!SellLow(c) <= SaleAt(t) /\ SaleAt(t) <= V!SellHigh(c)
                      /\ V!BuyLow(c) <= CostAt(t)
    OBVIOUS
  <2>1. SaleAt(t) \in sales /\ CostAt(t) \in costs
    BY <1>7
  <2>2. SaleAt(t) \in Int /\ V!Max(sales) \in Int
    BY <1>11, <1>12, <2>1
  <2> QED BY <1>8, <1>12, <2>1, <2>2
<1>15. /\ \E t \in lo..hi : V!SellLow(c) = SaleAt(t)
       /\ \E t \in lo..hi : V!SellHigh(c) = SaleAt(t)
       /\ \E t \in lo..hi : V!BuyLow(c) = CostAt(t)
  BY <1>7, <1>8, <1>12
<1>16. hi \in 1..Len(path) /\ c \in 1..Len(path)
  BY <1>1, <1>3, <1>4, <1>5
<1> QED BY <1>2, <1>3, <1>5, <1>13, <1>14, <1>15, <1>16 DEF lo, hi

(* A candle of one quote is that quote. *)
LEMMA CandleOne ==
  ASSUME LifeTyped, span = 1
  PROVE  /\ V!Candles = 1..Len(path)
         /\ \A c \in 1..Len(path) : /\ V!EndOf(c) = c /\ V!SellLow(c) = SaleAt(c)
                                    /\ V!SellHigh(c) = SaleAt(c) /\ V!BuyLow(c) = CostAt(c)
<1>1. Len(path) \in Nat /\ Len(path) \div 1 = Len(path)
  BY PathIs
<1>2. V!Candles = 1..Len(path)
  BY <1>1 DEF V!Candles
<1>3. ASSUME NEW c \in 1..Len(path)
      PROVE  /\ V!EndOf(c) = c /\ V!SellLow(c) = SaleAt(c)
             /\ V!SellHigh(c) = SaleAt(c) /\ V!BuyLow(c) = CostAt(c)
  <2>1. (c - 1) * span + 1 = c /\ c * span = c /\ c..c = {c}
    OBVIOUS
  <2>2. \A t \in ((c - 1) * span + 1)..(c * span) : t = c
    BY <2>1
  <2> QED BY <1>2, <2>1, <2>2, CandleIs
<1> QED BY <1>2, <1>3

(* When the book was never empty every candle counts. *)
LEMMA AllPriced ==
  ASSUME LifeTyped, V!BidsThroughout
  PROVE  /\ V!Priced = V!Candles
         /\ \A c \in V!Candles : V!SellLow(c) > 0
         /\ \A t \in 1..Len(path) : SaleAt(t) > 0
<1>1. \A t \in 1..Len(path) : SaleAt(t) > 0
  BY DEF V!BidsThroughout, SaleAt
<1>2. \A c \in V!Candles : V!SellLow(c) > 0
  BY <1>1, CandleIs
<1> QED BY <1>1, <1>2 DEF V!Priced

-----------------------------------------------------------------------------
(* What the sweeps and the simulation find in a life. *)

(* A quotient is the most that fit. *)
LEMMA FitsIn ==
  ASSUME NEW n \in Nat, NEW s \in Nat \ {0}, NEW c \in Nat, c * s <= n
  PROVE  c <= n \div s
<1> DEFINE q == n \div s
           r == n % s
<1>1. q \in Nat /\ r \in 0..(s - 1) /\ n = s * q + r
  OBVIOUS
<1> HIDE DEF q, r
<1> SUFFICES ASSUME c >= q + 1 PROVE FALSE
  BY <1>1 DEF q
<1>2. (q + 1) * s <= c * s
  BY <1>1, InOrderOf
<1>3. (q + 1) * s = s * q + s /\ s * q \in Nat /\ c * s \in Nat
  BY <1>1
<1> QED BY <1>1, <1>2, <1>3

(* What a closed and settled position says of its life. *)
LEMMA ReviewedIs ==
  ASSUME LifeInv, V!Reviewed
  PROVE  /\ LifeTyped /\ position.status = "closed" /\ Made = Len(path) /\ Len(path) \in Nat
         /\ Len(path) = Ticks /\ result \in {0, V!Dollar} /\ V!OfSide(result) \in Int
         /\ exitAt \in Nat /\ exitAt <= Len(path)
         /\ position.reason # "cancelled" => filledAt \in Nat /\ filledAt <= exitAt
         /\ position.reason \in {"stoploss", "trailing_stop", "signal"} => filledAt < exitAt
         /\ V!AtMarket /\ V!BidsThroughout
              => filledAt = 0 /\ position.reason \notin {"cancelled", "signal"}
<1>1. LifeTyped /\ position.status = "closed" /\ result # V!None
  BY DEF LifeInv, V!Reviewed
<1>2. Made = Len(path) /\ Len(path) \in Nat /\ Len(path) = Ticks /\ result \in {0, V!Dollar}
  BY <1>1, PathIs DEF LifeTyped, Made
<1>3. exitAt \in Nat /\ exitAt <= Len(path)
  BY <1>1 DEF LifeInv, LifeEnded, LifeTyped
<1>4. position.reason # "cancelled" => filledAt \in Nat /\ filledAt <= exitAt
  BY <1>1 DEF LifeInv, LifeEnded, LifeTyped, LifeFilled
<1>5. position.reason \in {"stoploss", "trailing_stop", "signal"} => filledAt < exitAt
  BY <1>1 DEF LifeInv, LifeEnded
<1>6. V!AtMarket /\ V!BidsThroughout => filledAt = 0 /\ position.reason \notin {"cancelled", "signal"}
  BY <1>1 DEF LifeInv, LifeEnded, LifeTyped
<1>7. V!OfSide(result) \in Int
  BY <1>2 DEF V!OfSide, V!Dollar
<1> QED BY <1>1, <1>2, <1>3, <1>4, <1>5, <1>6, <1>7

(* There are at most as many candles as quotes. *)
LEMMA CandlesNumbered ==
  ASSUME LifeTyped
  PROVE  V!Candles \subseteq 1..Len(path)
BY CandleIs

(* A stop shows in the candle of its time, and no earlier candle of one     *)
(* quote was at the stop: a pass would have ended the position.             *)
LEMMA SweepHolds ==
  ASSUME LifeInv PROVE V!SweepSeesStops
<1> SUFFICES ASSUME V!Reviewed, V!BidsThroughout
             PROVE  /\ position.reason = "stoploss" /\ exitAt <= V!EndOf(Len(path) \div span)
                         => /\ V!FirstTouch(Stop) # V!None
                            /\ V!EndOf(V!FirstTouch(Stop) - 1) < exitAt
                    /\ V!AtMarket /\ span = 1 /\ V!FirstTouch(Stop) # V!None
                         => exitAt <= V!FirstTouch(Stop)
  BY DEF V!SweepSeesStops
<1> DEFINE T == {c \in V!Priced : V!SellLow(c) <= position.entry - Stop}
           F == V!FirstTouch(Stop)
<1>1. /\ LifeTyped /\ Len(path) \in Nat /\ exitAt \in Nat /\ exitAt <= Len(path)
      /\ position.status = "closed"
  BY ReviewedIs
<1>2. T \subseteq 1..Len(path) /\ T \subseteq V!Candles
      /\ \A c \in V!Candles : c \in T <=> V!SellLow(c) <= position.entry - Stop
  BY <1>1, AllPriced, CandlesNumbered
<1>3. F = V!First(T)
  BY DEF V!FirstTouch
<1>4. /\ F = V!None <=> T = {}
      /\ T # {} => F \in T /\ \A y \in T : F <= y
  <2> HIDE DEF F, T
  <2> QED BY <1>1, <1>2, <1>3, FirstIs
<1> HIDE DEF F, T
<1>5. position.entry \in Int /\ Stop \in Int /\ span \in Nat \ {0}
  BY <1>1, LifeConstants DEF LifeTyped
<1>6. ASSUME position.reason = "stoploss", exitAt <= V!EndOf(Len(path) \div span)
      PROVE  F # V!None /\ V!EndOf(F - 1) < exitAt
  <2>1. exitAt >= 1 /\ SaleAt(exitAt) <= position.entry - Stop
    BY <1>1, <1>6, ReviewedIs DEF LifeInv, LifeEnded
  <2> DEFINE m == Len(path) \div span
  <2>2. m \in Nat /\ m * span \in Nat /\ exitAt <= m * span
    BY <1>1, <1>5, <1>6 DEF V!EndOf
  <2>3. V!Candles = 1..m
    BY DEF V!Candles
  <2> HIDE DEF m
  <2>4. exitAt \in 1..(m * span)
    BY <1>1, <2>1, <2>2
  <2>5. PICK c \in 1..m : exitAt \in ((c - 1) * span + 1)..(c * span)
    BY <1>5, <2>2, <2>4, CandleOf
  <2>6. c \in V!Candles /\ V!SellLow(c) <= SaleAt(exitAt) /\ V!SellLow(c) \in Int /\ SaleAt(exitAt) \in Int
        /\ c \in 1..Len(path) /\ (c - 1) * span \in Nat
    BY <1>1, <2>1, <2>3, <2>5, CandleIs, PathIs
  <2>7. c \in T
    BY <1>2, <1>5, <2>1, <2>6
  <2>8. F \in 1..Len(path) /\ F <= c
    BY <1>2, <1>4, <2>7
  <2>9. (F - 1) * span <= (c - 1) * span /\ (F - 1) * span \in Int
    <3>1. F - 1 \in Int /\ c - 1 \in Int /\ F - 1 <= c - 1
      BY <2>6, <2>8
    <3> QED BY <1>5, <3>1, InOrderOf
  <2>10. (c - 1) * span < exitAt
    BY <1>1, <2>5, <2>6
  <2>11. V!EndOf(F - 1) = (F - 1) * span
    BY DEF V!EndOf
  <2>12. F # V!None
    BY <1>4, <2>7
  <2> QED BY <1>1, <2>6, <2>9, <2>10, <2>11, <2>12
<1>7. ASSUME V!AtMarket, span = 1, F # V!None
      PROVE  exitAt <= F
  <2>1. F \in T /\ F \in 1..Len(path)
    BY <1>2, <1>4, <1>7
  <2>2. V!SellLow(F) = SaleAt(F) /\ SaleAt(F) <= position.entry - Stop /\ SaleAt(F) \in Int
    BY <1>1, <1>2, <1>7, <2>1, CandleOne, PathIs
  <2>3. filledAt = 0 /\ position.reason # "cancelled"
    BY <1>7, ReviewedIs
  <2> SUFFICES ASSUME F < exitAt PROVE FALSE
    BY <1>1, <2>1
  <2>4. F \in (filledAt + 1)..(exitAt - 1)
    BY <1>1, <2>1, <2>3
  <2>5. Quiet(F)
    BY <1>1, <2>3, <2>4 DEF LifeInv, LifeEnded
  <2> QED BY <1>5, <2>2, <2>5 DEF Quiet
<1> QED BY <1>6, <1>7 DEF F

-----------------------------------------------------------------------------
(* The highest price of a leg up to a candle is the best bid by its end. *)
LEMMA LegTopIs ==
  ASSUME LifeTyped, V!BidsThroughout, NEW c \in V!Candles
  PROVE  V!LegTop(position.entry, 1, c) = Top(c * span)
<1> DEFINE k == c * span
           high[d \in 1..c] == V!SellHigh(d)
           H == {high[d] : d \in 1..c}
           N == {position.entry} \cup {V!SellHigh(d) : d \in V!Priced \cap 1..c}
<1>1. k \in 1..Len(path) /\ Len(path) \in Nat /\ c \in 1..Len(path) /\ span \in Nat \ {0}
  BY CandleIs, PathIs DEF LifeTyped
<1>2. /\ \A d \in 1..c : d \in V!Candles
      /\ V!Priced \cap 1..c = 1..c
  <2>1. \A d \in 1..c : d \in V!Candles
    BY <1>1 DEF V!Candles
  <2> QED BY <2>1, AllPriced
<1>3. N = H \cup {position.entry}
  <2>1. H = {V!SellHigh(d) : d \in 1..c}
    OBVIOUS
  <2> HIDE DEF H
  <2> QED BY <1>2, <2>1
<1>4. IsFiniteSet(1..c)
  <2>1. c \in Int
    BY <1>1
  <2> QED BY <2>1, FS_Interval
<1>5. IsFiniteSet(H)
  <2>1. DOMAIN high = 1..c
    OBVIOUS
  <2> HIDE DEF high
  <2> QED BY <1>4, <2>1, ImageBound
<1>6. \A d \in 1..c : high[d] = V!SellHigh(d)
  OBVIOUS
<1>7. H \subseteq Int /\ position.entry \in Int
  BY <1>2, <1>6, CandleIs DEF LifeTyped
<1> HIDE DEF high
<1>8. \A y \in H : y \in Bid(k)
  <2> SUFFICES ASSUME NEW d \in 1..c PROVE high[d] \in Bid(k)
    OBVIOUS
  <2>1. PICK t \in ((d - 1) * span + 1)..(d * span) : V!SellHigh(d) = SaleAt(t)
    BY <1>2, CandleIs
  <2>2. t \in 1..Len(path) /\ t <= d * span
    BY <1>2, <2>1, CandleIs
  <2>3. d * span <= k
    <3>1. d \in Int /\ c \in Int /\ d <= c
      BY <1>1
    <3> QED BY <1>1, <3>1, InOrderOf
  <2>4. t \in 1..k
    <3>1. d * span \in Int
      BY <1>1
    <3> QED BY <1>1, <2>2, <2>3, <3>1
  <2> QED BY <1>6, <2>1, <2>4 DEF Bid
<1>9. \A t \in 1..k : \E y \in H : SaleAt(t) <= y
  <2> SUFFICES ASSUME NEW t \in 1..k PROVE \E y \in H : SaleAt(t) <= y
    OBVIOUS
  <2>1. PICK d \in 1..c : t \in ((d - 1) * span + 1)..(d * span)
    <3>1. c \in Nat
      BY <1>1
    <3> QED BY <1>1, <3>1, CandleOf
  <2>2. SaleAt(t) <= V!SellHigh(d)
    BY <1>2, <2>1, CandleIs
  <2> QED BY <1>6, <2>1, <2>2
<1> HIDE DEF H, N
<1>10. IsFiniteSet(N) /\ N # {} /\ N \subseteq Int
  <2>1. IsFiniteSet(N)
    BY <1>3, <1>5, FS_AddElement
  <2> QED BY <1>3, <1>7, <2>1
<1>11. V!Max(N) \in N /\ \A y \in N : V!Max(N) >= y
  BY <1>10, ExtremesIn
<1> DEFINE x == V!Max(N)
<1>12. x \in Int /\ \A y \in N : y \in Int
  BY <1>10, <1>11
<1> HIDE DEF k
<1>13. x \in Bid(k)
  BY <1>3, <1>8, <1>11 DEF Bid
<1>14. \A t \in 1..k : SaleAt(t) <= x
  <2> SUFFICES ASSUME NEW t \in 1..k PROVE SaleAt(t) <= x
    OBVIOUS
  <2>1. PICK y \in H : SaleAt(t) <= y
    BY <1>9
  <2>2. y <= x /\ y \in Int /\ SaleAt(t) \in Int
    <3>1. t \in 1..Len(path)
      BY <1>1
    <3>2. SaleAt(t) \in Int
      BY <3>1, PathIs
    <3> QED BY <1>3, <1>11, <1>12, <2>1, <3>2
  <2> QED BY <1>12, <2>1, <2>2
<1>15. \A y \in Bid(k) : y <= x
  BY <1>3, <1>7, <1>11, <1>12, <1>14 DEF Bid
<1>16. Top(k) = x
  <2>1. k \in 0..Len(path)
    BY <1>1
  <2> HIDE DEF x
  <2> QED BY <1>13, <1>15, <2>1, TopUnique
<1>17. V!LegTop(position.entry, 1, c) = V!Max(N)
  BY DEF V!LegTop, N
<1> QED BY <1>16, <1>17 DEF k

(* A quote at the trailing level did not raise it. *)
LEMMA TouchIs ==
  ASSUME LifeTyped, NEW t \in 1..Len(path)
  PROVE  /\ SaleAt(t) <= V!StopLevel(Top(t)) <=> SaleAt(t) <= V!StopLevel(Top(t - 1))
         /\ SaleAt(t) <= V!StopLevel(Top(t - 1)) => Top(t) = Top(t - 1)
         /\ V!StopLevel(Top(t - 1)) <= V!StopLevel(Top(t))
         /\ V!StopLevel(Top(t - 1)) >= position.entry - Stop
         /\ V!StopLevel(Top(t - 1)) \in Int /\ V!StopLevel(Top(t)) \in Int /\ SaleAt(t) \in Int
<1>1. t - 1 \in 0..Len(path) /\ t \in 0..Len(path) /\ SaleAt(t) \in Int /\ position.entry \in Int
  <2>1. Len(path) \in Nat /\ SaleAt(t) \in Int
    BY PathIs
  <2>2. position.entry \in Int
    BY DEF LifeTyped
  <2> QED BY <2>1, <2>2
<1>2. Top(t) = IF SaleAt(t) > Top(t - 1) THEN SaleAt(t) ELSE Top(t - 1)
  BY TopGrows
<1>3. Top(t - 1) \in Int /\ Top(t) \in Int /\ Top(t - 1) >= position.entry
  BY <1>1, TopIs
<1>4. Top(t - 1) <= Top(t)
  BY <1>1, <1>2, <1>3
<1>5. /\ V!StopLevel(Top(t - 1)) \in Int /\ V!StopLevel(Top(t)) \in Int
      /\ V!StopLevel(Top(t - 1)) < Top(t - 1) /\ V!StopLevel(Top(t)) < Top(t)
      /\ V!StopLevel(Top(t - 1)) >= position.entry - Stop
      /\ V!StopLevel(Top(t - 1)) <= V!StopLevel(Top(t))
  BY <1>1, <1>3, <1>4, LevelIs
<1>6. CASE SaleAt(t) > Top(t - 1)
  BY <1>1, <1>2, <1>3, <1>5, <1>6
<1>7. CASE ~(SaleAt(t) > Top(t - 1))
  BY <1>1, <1>2, <1>3, <1>5, <1>7
<1> QED BY <1>6, <1>7

(* The walk stops at the quote at which the monitor did, at the same level. *)
LEMMA TrailHolds ==
  ASSUME LifeInv PROVE V!TrailSweepAgrees
<1> DEFINE entry == position.entry
           end == V!LegEnd(entry, 1, exitAt, ArmAt, Trail)
           stops == position.reason \in {"stoploss", "trailing_stop"}
<1> SUFFICES ASSUME V!Reviewed, V!BidsThroughout, V!AtMarket, Trailing
             PROVE  /\ span = 1 => (end # V!None <=> stops)
                    /\ span = 1 /\ stops => V!EndOf(end) = exitAt
                    /\ span = 1 /\ position.reason = "trailing_stop" /\ LimitExit
                         => V!TrailLevel(entry, V!LegTop(entry, 1, end), ArmAt, Trail) = position.exit
                    /\ stops /\ exitAt % span = 0 => end # V!None
  BY DEF V!TrailSweepAgrees
<1> DEFINE L == {c \in V!Priced : /\ 1 <= c /\ V!EndOf(c) <= exitAt
                                   /\ V!SellLow(c) <= V!TrailLevel(entry, V!LegTop(entry, 1, c), ArmAt, Trail)}
<1>1. /\ LifeTyped /\ Len(path) \in Nat /\ exitAt \in Nat /\ exitAt <= Len(path)
      /\ position.status = "closed" /\ filledAt = 0 /\ entry \in Int /\ span \in Nat \ {0}
      /\ position.reason \notin {"cancelled", "signal"}
      /\ stops => 0 < exitAt
  BY ReviewedIs DEF LifeTyped
<1>2. Top(exitAt) \in Int
  BY <1>1, TopIs
<1>3. ASSUME NEW c \in V!Candles
      PROVE  V!TrailLevel(entry, V!LegTop(entry, 1, c), ArmAt, Trail) = V!StopLevel(Top(c * span))
  <2>1. V!LegTop(entry, 1, c) = Top(c * span)
    BY <1>1, <1>3, LegTopIs
  <2>2. Top(c * span) \in Int
    <3>1. c * span \in 0..Len(path)
      BY <1>1, <1>3, CandleIs
    <3> QED BY <1>1, <3>1, TopIs
  <2> QED BY <1>1, <2>1, <2>2, LevelIs
<1>4. \A c : c \in L <=> /\ c \in V!Candles /\ c * span <= exitAt
                         /\ V!SellLow(c) <= V!StopLevel(Top(c * span))
  BY <1>1, <1>3, AllPriced, CandleIs
<1>5. L \subseteq 1..Len(path) /\ L \subseteq V!Candles
  BY <1>1, <1>4, CandlesNumbered
<1>6. end = V!First(L)
  BY DEF V!LegEnd
<1> HIDE DEF L, end
<1>7. /\ end = V!None <=> L = {}
      /\ L # {} => end \in L /\ \A y \in L : end <= y
  BY <1>1, <1>5, <1>6, FirstIs
<1>8. ASSUME stops
      PROVE  /\ SaleAt(exitAt) <= V!StopLevel(Top(exitAt - 1)) /\ exitAt \in 1..Len(path)
             /\ SaleAt(exitAt) <= V!StopLevel(Top(exitAt))
  <2>1. exitAt \in 1..Len(path)
    BY <1>1, <1>8
  <2>2. /\ position.reason = "stoploss" => SaleAt(exitAt) <= entry - Stop
        /\ position.reason = "trailing_stop" => SaleAt(exitAt) <= V!StopLevel(Top(exitAt - 1))
    BY <1>1 DEF LifeInv, LifeEnded
  <2>3. /\ V!StopLevel(Top(exitAt - 1)) >= entry - Stop
        /\ V!StopLevel(Top(exitAt - 1)) \in Int /\ SaleAt(exitAt) \in Int
    BY <1>1, <2>1, TouchIs
  <2>4. SaleAt(exitAt) <= V!StopLevel(Top(exitAt - 1))
    BY <1>1, <1>8, <2>2, <2>3, LifeConstants
  <2> QED BY <1>1, <2>1, <2>4, TouchIs
<1>9. ASSUME span = 1
      PROVE  \A c : c \in L <=> c \in 1..exitAt /\ SaleAt(c) <= V!StopLevel(Top(c - 1))
  <2>1. \A c \in 1..Len(path) : c * span = c /\ V!SellLow(c) = SaleAt(c)
    BY <1>1, <1>9, CandleOne
  <2>2. \A c : c \in L <=> c \in 1..Len(path) /\ c <= exitAt /\ SaleAt(c) <= V!StopLevel(Top(c))
    <3>1. V!Candles = 1..Len(path)
      BY <1>1, <1>9, CandleOne
    <3> QED BY <1>4, <2>1, <3>1
  <2>3. \A c \in 1..Len(path) : SaleAt(c) <= V!StopLevel(Top(c)) <=> SaleAt(c) <= V!StopLevel(Top(c - 1))
    BY <1>1, TouchIs
  <2>4. \A c : c \in 1..Len(path) /\ c <= exitAt <=> c \in 1..exitAt
    BY <1>1
  <2> QED BY <2>2, <2>3, <2>4
<1>10. ASSUME NEW c \in 1..(exitAt - 1) PROVE ~(SaleAt(c) <= V!StopLevel(Top(c - 1)))
  <2>1. c \in (filledAt + 1)..(exitAt - 1) /\ c \in 1..Len(path)
    BY <1>1
  <2>2. Quiet(c)
    BY <1>1, <2>1 DEF LifeInv, LifeEnded
  <2> QED BY <1>1, <2>1, <2>2, TouchIs DEF Quiet
<1>11. ASSUME span = 1, stops PROVE end = exitAt
  <2>1. exitAt \in L
    BY <1>8, <1>9, <1>11, <1>1
  <2>2. end \in L /\ end <= exitAt
    BY <1>7, <2>1
  <2>3. end \in 1..exitAt /\ SaleAt(end) <= V!StopLevel(Top(end - 1))
    BY <1>9, <1>11, <2>2
  <2>4. ~(end \in 1..(exitAt - 1))
    BY <1>10, <2>3
  <2> QED BY <1>1, <2>3, <2>4
<1>12. ASSUME span = 1, ~stops PROVE end = V!None
  <2>1. position.reason = "market_resolved"
    BY <1>1, <1>12 DEF LifeInv, LifeEnded
  <2>2. 0 < exitAt => Quiet(exitAt)
    BY <1>1, <2>1 DEF LifeInv, LifeEnded
  <2>3. ASSUME NEW c \in L PROVE FALSE
    <3>1. c \in 1..exitAt /\ SaleAt(c) <= V!StopLevel(Top(c - 1))
      BY <1>9, <1>12, <2>3
    <3>2. c = exitAt /\ 0 < exitAt /\ exitAt \in 1..Len(path)
      BY <1>1, <1>10, <3>1
    <3> QED BY <1>1, <2>2, <3>1, <3>2, TouchIs DEF Quiet
  <2> QED BY <1>7, <2>3
<1>13. ASSUME span = 1, position.reason = "trailing_stop", LimitExit
       PROVE  V!TrailLevel(entry, V!LegTop(entry, 1, end), ArmAt, Trail) = position.exit
  <2>1. end = exitAt /\ exitAt \in 1..Len(path) /\ SaleAt(exitAt) <= V!StopLevel(Top(exitAt - 1))
    BY <1>8, <1>11, <1>13
  <2>2. Top(exitAt) = Top(exitAt - 1)
    BY <1>1, <2>1, TouchIs
  <2>3. position.exit = V!StopLevel(Top(exitAt - 1))
    BY <1>1, <1>13 DEF LifeInv, LifeEnded
  <2>4. exitAt \in V!Candles /\ exitAt * span = exitAt
    BY <1>1, <1>13, <2>1, CandleOne
  <2> QED BY <1>3, <2>1, <2>2, <2>3, <2>4
<1>14. ASSUME stops, exitAt % span = 0 PROVE end # V!None
  <2> DEFINE c == exitAt \div span
  <2>1. c \in Nat /\ exitAt = span * c
    BY <1>1, <1>14
  <2> HIDE DEF c
  <2>2. c * span = exitAt /\ c >= 1
    BY <1>1, <1>14, <2>1
  <2>3. c <= Len(path) \div span
    BY <1>1, <2>1, <2>2, FitsIn
  <2>4. Len(path) \div span \in Nat
    BY <1>1
  <2>5. c \in V!Candles
    BY <2>1, <2>2, <2>3, <2>4 DEF V!Candles
  <2>6. exitAt \in ((c - 1) * span + 1)..(c * span)
    BY <1>1, <2>2, <2>5, CandleIs
  <2>7. V!SellLow(c) <= SaleAt(exitAt) /\ V!SellLow(c) \in Int
    BY <1>1, <2>5, <2>6, CandleIs
  <2>8. SaleAt(exitAt) <= V!StopLevel(Top(exitAt)) /\ V!StopLevel(Top(exitAt)) \in Int /\ SaleAt(exitAt) \in Int
    BY <1>1, <1>8, <1>14, TouchIs
  <2>9. V!SellLow(c) <= V!StopLevel(Top(c * span))
    BY <2>2, <2>7, <2>8
  <2>10. c * span <= exitAt
    BY <1>1, <2>2
  <2> QED BY <1>4, <1>7, <2>5, <2>9, <2>10
<1>15. span = 1 /\ stops => V!EndOf(end) = exitAt
  BY <1>1, <1>11 DEF V!EndOf
<1>16. span = 1 => (end # V!None <=> stops)
  BY <1>1, <1>11, <1>12 DEF V!None
<1> QED BY <1>13, <1>14, <1>15, <1>16

(* The simulation fills at the first quote in time whose price is within    *)
(* the limit.                                                               *)
LEMMA SimFillIs ==
  ASSUME LifeTyped, span = 1, limit \in Int
  PROVE  /\ V!SimFill = V!None => \A t \in 1..Len(path) : t <= Timeout => CostAt(t) > limit
         /\ (\A t \in 1..Len(path) : t <= Timeout => CostAt(t) > limit) => V!SimFill = V!None
         /\ \A f \in 1..Len(path) :
              f <= Timeout /\ CostAt(f) <= limit /\ (\A t \in 1..(f - 1) : CostAt(t) > limit)
                => V!SimFill = f
<1> DEFINE N == {c \in V!Candles : V!EndOf(c) <= Timeout /\ V!BuyLow(c) <= limit}
<1>1. Len(path) \in Nat /\ Timeout \in Nat /\ \A t \in 1..Len(path) : CostAt(t) \in Int
  BY PathIs, LifeConstants
<1>2. \A c : c \in N <=> c \in 1..Len(path) /\ c <= Timeout /\ CostAt(c) <= limit
  BY CandleOne
<1>3. V!SimFill = V!First(N)
  BY DEF V!SimFill
<1> HIDE DEF N
<1>4. N \subseteq 1..Len(path)
  BY <1>2
<1>5. /\ V!SimFill = V!None <=> N = {}
      /\ N # {} => V!SimFill \in N /\ \A y \in N : V!SimFill <= y
  BY <1>1, <1>3, <1>4, FirstIs
<1>6. N = {} <=> \A t \in 1..Len(path) : t <= Timeout => CostAt(t) > limit
  BY <1>1, <1>2
<1>7. ASSUME NEW f \in 1..Len(path), f <= Timeout, CostAt(f) <= limit,
             \A t \in 1..(f - 1) : CostAt(t) > limit
      PROVE  V!SimFill = f
  <2>1. f \in N
    BY <1>2, <1>7
  <2>2. V!SimFill \in N /\ V!SimFill <= f
    BY <1>5, <2>1
  <2>3. V!SimFill \in 1..Len(path) /\ CostAt(V!SimFill) <= limit
    BY <1>2, <2>2
  <2>4. ~(V!SimFill \in 1..(f - 1))
    BY <1>1, <1>7, <2>3
  <2> QED BY <1>1, <2>2, <2>3, <2>4
<1> QED BY <1>5, <1>6, <1>7

(* What a later signal that flips says of the pass of its time. *)
LEMMA FlipShows ==
  ASSUME LifeTyped, NEW i \in 1..Len(signals), V!Flips(signals[i])
  PROVE  signals[i].at \in 1..Len(path) /\ Flipped(signals[i].at)
<1>1. signals[i] \in V!Signals /\ Ticks \in Nat
  BY LifeConstants DEF LifeTyped
<1>2. signals[i].at \in 1..Ticks
  BY <1>1 DEF V!Signals
<1>3. signals[i].at <= Len(path)
  BY DEF LifeTyped
<1>4. Len(path) \in Nat
  BY PathIs
<1>5. signals[i].at \in 1..Len(path)
  BY <1>1, <1>2, <1>3, <1>4
<1> QED BY <1>5 DEF Flipped

(* The simulation fills, ends and books as the life did. *)
LEMMA SimulationHolds ==
  ASSUME LifeInv PROVE V!SimulationAgrees
<1> DEFINE Clear == \A i \in 1..Len(signals) : V!Flips(signals[i]) =>
                /\ filledAt # V!None /\ filledAt < signals[i].at
                /\ path[signals[i].at].ask - path[signals[i].at].bid <= MaxSpread
<1> SUFFICES ASSUME V!Reviewed, V!BidsThroughout, ~V!AtMarket, span = 1,
                    filledAt # V!None => position.entry = limit,
                    position.reason # "trailing_stop", Clear
             PROVE  /\ V!SimulateTrade.reason = position.reason
                    /\ V!SimulateTrade.pnl * Size >= position.pnl
  BY DEF V!SimulationAgrees
<1>1. /\ LifeTyped /\ Len(path) \in Nat /\ exitAt \in Nat /\ exitAt <= Len(path)
      /\ position.status = "closed" /\ Len(path) = Ticks /\ V!OfSide(result) \in Int
      /\ Made = Len(path)
  BY ReviewedIs
<1>2. limit \in Int /\ limit > 0 /\ Stop \in Int /\ Size \in Nat \ {0} /\ Timeout \in Nat
  <2>1. limit \in 1..V!Dollar
    BY <1>1 DEF LifeTyped, V!AtMarket
  <2> QED BY <2>1, LifeConstants DEF V!Dollar
<1>3. CASE position.reason = "cancelled"
  <2>1. exitAt >= Timeout /\ position.pnl = 0 /\ \A t \in 1..exitAt : CostAt(t) > limit
    BY <1>1, <1>3 DEF LifeInv, LifeEnded
  <2>2. \A t \in 1..Len(path) : t <= Timeout => CostAt(t) > limit
    BY <1>1, <1>2, <2>1
  <2>3. V!SimFill = V!None
    BY <1>1, <1>2, <2>2, SimFillIs
  <2>4. V!SimulateTrade = [reason |-> "cancelled", pnl |-> 0]
    BY <1>2, <2>3 DEF V!SimulateTrade
  <2> QED BY <1>2, <1>3, <2>1, <2>4
<1>4. CASE position.reason # "cancelled"
  <2>1. /\ filledAt # V!None /\ filledAt \in 1..Len(path) /\ filledAt <= Timeout
        /\ CostAt(filledAt) <= limit /\ \A t \in 1..(filledAt - 1) : CostAt(t) > limit
        /\ filledAt <= exitAt
    <3>1. filledAt # V!None /\ filledAt \in Nat /\ filledAt <= exitAt
      BY <1>1, <1>4, ReviewedIs DEF V!None
    <3>2. /\ filledAt >= 1 /\ filledAt <= Timeout /\ CostAt(filledAt) <= limit
          /\ \A t \in 1..(filledAt - 1) : CostAt(t) > limit
      BY <1>1, <1>4 DEF LifeInv, LifeFilled
    <3> QED BY <1>1, <3>1, <3>2
  <2>2. V!SimFill = filledAt
    BY <1>1, <1>2, <2>1, SimFillIs
  <2>3. position.entry = limit
    BY <2>1
  <2> DEFINE N == {c \in V!Candles : V!SimFill < c /\ (V!SimStops(c) \/ V!SimSignal(c))}
             e == V!SimExit
  <2>4. e = V!First(N)
    BY DEF V!SimExit
  <2>5. \A c : c \in N <=> c \in 1..Len(path) /\ filledAt < c /\ (V!SimStops(c) \/ V!SimSignal(c))
    BY <1>1, <2>2, CandleOne
  <2>6. \A c \in 1..Len(path) :
          /\ V!SellLow(c) = SaleAt(c) /\ SaleAt(c) > 0 /\ SaleAt(c) \in Int
          /\ V!SimStops(c) <=> SaleAt(c) <= limit - Stop
          /\ V!SimSignal(c) <=> \E i \in 1..Len(signals) : signals[i].at <= c /\ V!Flips(signals[i])
    <3> SUFFICES ASSUME NEW c \in 1..Len(path)
                 PROVE  /\ V!SellLow(c) = SaleAt(c) /\ SaleAt(c) > 0 /\ SaleAt(c) \in Int
                        /\ V!SimStops(c) <=> SaleAt(c) <= limit - Stop
                        /\ V!SimSignal(c) <=> \E i \in 1..Len(signals) :
                                                 signals[i].at <= c /\ V!Flips(signals[i])
      OBVIOUS
    <3>1. V!SellLow(c) = SaleAt(c) /\ V!EndOf(c) = c
      BY <1>1, CandleOne
    <3>2. SaleAt(c) > 0 /\ SaleAt(c) \in Int
      BY <1>1, AllPriced, PathIs
    <3>3. V!SimStops(c) <=> SaleAt(c) <= limit - Stop
      BY <3>1, <3>2 DEF V!SimStops
    <3>4. V!SimSignal(c) <=> \E i \in 1..Len(signals) : signals[i].at <= c /\ V!Flips(signals[i])
      BY <3>1, <3>2 DEF V!SimSignal
    <3> QED BY <3>1, <3>2, <3>3, <3>4
  <2> HIDE DEF N, e
  <2>7. N \subseteq 1..Len(path)
    BY <2>5
  <2>8. /\ e = V!None <=> N = {}
        /\ N # {} => e \in N /\ \A y \in N : e <= y
    BY <1>1, <2>4, <2>7, FirstIs
  <2>9. ASSUME NEW n \in 0..Len(path), \A t \in (filledAt + 1)..n : Quiet(t)
        PROVE  \A c \in (filledAt + 1)..n : c \notin N
    <3> SUFFICES ASSUME NEW c \in (filledAt + 1)..n PROVE c \notin N
      OBVIOUS
    <3>1. c \in 1..Len(path) /\ Quiet(c)
      BY <1>1, <2>1, <2>9
    <3>2. ~V!SimStops(c)
      BY <1>2, <2>3, <2>6, <3>1 DEF Quiet
    <3>3. ASSUME NEW i \in 1..Len(signals), signals[i].at <= c, V!Flips(signals[i]) PROVE FALSE
      <4>1. signals[i].at \in 1..Len(path) /\ Flipped(signals[i].at)
        BY <1>1, <3>3, FlipShows
      <4>2. filledAt < signals[i].at /\ path[signals[i].at].ask - path[signals[i].at].bid <= MaxSpread
        BY <3>3
      <4>3. signals[i].at \in (filledAt + 1)..n
        BY <1>1, <2>1, <3>3, <4>1, <4>2
      <4>4. Quiet(signals[i].at)
        BY <2>9, <4>3
      <4> QED BY <4>1, <4>2, <4>4 DEF Quiet
    <3> QED BY <2>5, <2>6, <3>1, <3>2, <3>3
  <2>10. position.pnl = (position.exit - limit) * Size /\ position.exit \in Int
    BY <1>1, <1>4, <2>3 DEF LifeInv, LifeEnded, LifeTyped
  <2>11. V!SimulateTrade = IF e = V!None THEN V!Trade("market_resolved", V!OfSide(result))
                           ELSE IF V!SimStops(e) THEN V!Trade("stoploss", limit - Stop)
                           ELSE V!Trade("signal", V!SellLow(e))
    <3>1. V!SimFill # V!None /\ ~(limit <= 0)
      BY <1>2, <2>1, <2>2
    <3> QED BY <1>2, <3>1 DEF V!SimulateTrade, e
  <2>12. \A t \in (filledAt + 1)..(exitAt - 1) : Quiet(t)
    BY <1>1, <1>4 DEF LifeInv, LifeEnded
  <2>13. ASSUME filledAt < exitAt, exitAt \in N PROVE e = exitAt
    <3>1. exitAt - 1 \in 0..Len(path)
      BY <1>1, <2>1, <2>13
    <3>2. \A c \in (filledAt + 1)..(exitAt - 1) : c \notin N
      BY <2>9, <2>12, <3>1
    <3>3. e \in N /\ e <= exitAt
      BY <2>8, <2>13
    <3>4. e \in 1..Len(path) /\ filledAt < e
      BY <2>5, <3>3
    <3> QED BY <1>1, <2>1, <3>2, <3>3, <3>4
  <2>14. CASE position.reason = "stoploss"
    <3>1. /\ filledAt < exitAt /\ SaleAt(exitAt) <= limit - Stop /\ position.exit <= limit - Stop
      BY <1>1, <2>3, <2>14 DEF LifeInv, LifeEnded
    <3>2. exitAt \in 1..Len(path)
      BY <1>1, <2>1, <3>1
    <3>3. V!SimStops(exitAt)
      BY <2>6, <3>1, <3>2
    <3>4. e = exitAt
      BY <2>5, <2>13, <3>1, <3>2, <3>3
    <3>5. V!SimulateTrade = [reason |-> "stoploss", pnl |-> (limit - Stop) - limit]
      <4>1. e # V!None
        BY <1>1, <3>4 DEF V!None
      <4> QED BY <2>11, <3>3, <3>4, <4>1 DEF V!Trade
    <3>6. ((limit - Stop) - limit) * Size >= (position.exit - limit) * Size
      <4>1. position.exit - limit \in Int /\ (limit - Stop) - limit \in Int
            /\ position.exit - limit <= (limit - Stop) - limit
        BY <1>2, <2>10, <3>1
      <4> QED BY <1>2, <4>1, InOrderOf
    <3> QED BY <2>10, <2>14, <3>5, <3>6
  <2>15. CASE position.reason = "signal"
    <3>1. /\ filledAt < exitAt /\ Flipped(exitAt) /\ SaleAt(exitAt) > limit - Stop
          /\ position.exit = SaleAt(exitAt)
      BY <1>1, <2>3, <2>15 DEF LifeInv, LifeEnded
    <3>2. exitAt \in 1..Len(path)
      BY <1>1, <2>1, <3>1
    <3>3. ~V!SimStops(exitAt)
      BY <1>2, <2>6, <3>1, <3>2
    <3>4. V!SimSignal(exitAt)
      BY <1>1, <2>6, <3>1, <3>2 DEF Flipped
    <3>5. e = exitAt
      BY <2>5, <2>13, <3>1, <3>2, <3>4
    <3>6. V!SimulateTrade = [reason |-> "signal", pnl |-> position.exit - limit]
      <4>1. e # V!None
        BY <1>1, <3>5 DEF V!None
      <4>2. V!SellLow(e) = position.exit
        BY <2>6, <3>1, <3>2, <3>5
      <4> QED BY <2>11, <3>3, <3>5, <4>1, <4>2 DEF V!Trade
    <3>7. (position.exit - limit) * Size \in Int
      BY <1>2, <2>10
    <3> QED BY <2>10, <2>15, <3>6, <3>7
  <2>16. CASE position.reason = "market_resolved"
    <3>1. /\ exitAt = Len(path) /\ position.exit = V!OfSide(result)
          /\ filledAt < exitAt => Quiet(exitAt)
      BY <1>1, <2>16 DEF LifeInv, LifeEnded
    <3>2. \A t \in (filledAt + 1)..Len(path) : Quiet(t)
      BY <1>1, <2>1, <2>12, <3>1
    <3>3. \A c \in (filledAt + 1)..Len(path) : c \notin N
      <4>1. Len(path) \in 0..Len(path)
        BY <1>1
      <4> QED BY <2>9, <3>2, <4>1
    <3>4. N = {}
      BY <1>1, <2>1, <2>5, <3>3
    <3>5. V!SimulateTrade = [reason |-> "market_resolved", pnl |-> position.exit - limit]
      BY <2>8, <2>11, <3>1, <3>4 DEF V!Trade
    <3>6. (position.exit - limit) * Size \in Int
      BY <1>2, <2>10
    <3> QED BY <2>10, <2>16, <3>5, <3>6
  <2>17. position.reason \in {"stoploss", "signal", "market_resolved"}
    BY <1>1, <1>4 DEF LifeInv, LifeEnded
  <2> QED BY <2>14, <2>15, <2>16, <2>17
<1> QED BY <1>3, <1>4

-----------------------------------------------------------------------------
(* A life begins; a quote comes; the market settles. *)

(* A position has just been entered, or its order placed. *)
LEMMA LifeStart ==
  ASSUME V!ReviewInit PROVE LifeInv
<1> USE DEF V!None
<1>1. /\ path = <<>> /\ span \in Spans /\ signals = <<>> /\ exitAt = V!None /\ turn = "market"
      /\ limit = (IF position.status = "pending" THEN position.entry ELSE V!None)
      /\ filledAt = (IF position.status = "pending" THEN V!None ELSE 0)
      /\ side \in {"YES", "NO"} /\ mode \in Modes
      /\ book \in V!Books /\ result = V!None /\ terminal = FALSE /\ peak = V!None
  BY DEF V!ReviewInit, V!Init
<1>2. \/ position = V!Entered(V!CurrentAsk, "open")
      \/ /\ mode = "paper"
         /\ \E q \in Quotes : 0 < q /\ q < V!CurrentAsk /\ position = V!Entered(q, "pending")
  BY DEF V!ReviewInit, V!Init
<1>3. V!CurrentAsk \in Int /\ Size \in Int /\ Ticks \in Nat /\ Spans \subseteq Nat \ {0}
      /\ \A q \in Quotes : q \in Int /\ q <= 100
  <2>1. book.bid \in Int /\ book.ask \in Int
    BY <1>1, BooksAre
  <2> QED BY <2>1, LifeConstants DEF V!CurrentAsk, V!Dollar
<1>4. /\ position.entry \in Int /\ position.exit = V!None /\ position.pnl = 0
      /\ position.contracts = Size /\ position.status \in {"pending", "open"}
      /\ position.status = "pending" => /\ mode = "paper" /\ limit \in Int /\ limit > 0 /\ limit <= 100
                                        /\ limit < V!CurrentAsk
                                        /\ limit = position.entry /\ filledAt = V!None
      /\ position.status = "open" => limit = V!None /\ filledAt = 0
      /\ DOMAIN position = {"status", "entry", "contracts", "acc", "fees", "filled", "mae", "mfe",
                             "exit", "reason", "pnl"}
  <2>1. CASE position = V!Entered(V!CurrentAsk, "open")
    BY <1>1, <1>3, <2>1 DEF V!Entered
  <2>2. ASSUME NEW q \in Quotes, mode = "paper", 0 < q, q < V!CurrentAsk, position = V!Entered(q, "pending")
        PROVE  <1>4
    <3>1. q \in Int /\ q > 0 /\ q <= 100
      BY <1>3, <2>2
    <3> QED BY <1>1, <1>3, <2>2, <3>1 DEF V!Entered
  <2> QED BY <1>2, <2>1, <2>2
<1>5. Len(path) = 0 /\ Len(signals) = 0 /\ path \in Seq(V!Books) /\ signals \in Seq(V!Signals) /\ Made = 0
  BY <1>1 DEF Made
<1>6. LifeTyped
  <2>1. limit \in {V!None} \cup 1..V!Dollar
    BY <1>4 DEF V!Dollar
  <2>6. position.status = "pending" => ~(limit = V!None)
    BY <1>4
  <2>2. Modes \subseteq {"paper", "live"}
    BY LifeConstants
  <2>3. /\ side \in {"YES", "NO"} /\ mode \in {"paper", "live"} /\ terminal = FALSE
        /\ book \in V!Books /\ path \in Seq(V!Books) /\ Len(path) <= Ticks
        /\ ~(Len(path) > 0) /\ span \in Nat \ {0} /\ signals \in Seq(V!Signals)
        /\ turn = "market" /\ result = V!None
    BY <1>1, <1>3, <1>5, <2>2
  <2>4. \A i \in 1..Len(signals) : signals[i].at <= Len(path)
    BY <1>5
  <2>5. /\ position.exit \in Int /\ position.pnl \in Int /\ peak \in Int
        /\ filledAt \in {V!None} \cup Nat /\ exitAt \in {V!None} \cup Nat
        /\ limit = V!None => filledAt = 0 /\ position.status # "pending"
        /\ ~(limit = V!None) => mode = "paper"
    BY <1>1, <1>4, <2>6
  <2> QED BY <1>4, <2>1, <2>3, <2>4, <2>5 DEF LifeTyped, V!AtMarket
<1>7. LifeWaits
  <2> SUFFICES ASSUME position.status = "pending"
               PROVE  /\ ~(limit = V!None) /\ filledAt = V!None /\ position.entry = limit
                      /\ 1..Made = {} /\ V!CurrentAsk > limit
    BY DEF LifeWaits, V!AtMarket
  <2>1. limit \in Int /\ limit > 0 /\ limit < V!CurrentAsk /\ limit = position.entry
        /\ filledAt = V!None
    BY <1>4
  <2>2. 1..Made = {}
    BY <1>5
  <2> QED BY <1>3, <2>1, <2>2
<1>8. LifeFilled
  BY <1>4, <1>5 DEF LifeFilled, V!AtMarket
<1>9. LifeOpen
  <2> SUFFICES ASSUME position.status = "open" PROVE V!PeakPrice = Top(0) /\ (filledAt + 1)..0 = {}
    BY <1>5 DEF LifeOpen
  <2>1. V!PeakPrice = position.entry /\ filledAt = 0
    BY <1>1, <1>4 DEF V!PeakPrice
  <2>2. Bid(0) = {position.entry}
    BY DEF Bid
  <2>3. Top(0) = position.entry
    <3>1. 0 \in 0..Len(path)
      BY <1>5
    <3> QED BY <1>6, <2>2, <3>1, TopIs
  <2> QED BY <2>1, <2>3
<1>10. LifeEnded
  BY <1>4 DEF LifeEnded
<1> QED BY <1>6, <1>7, <1>8, <1>9, <1>10 DEF LifeInv

(* A quote that comes, and a pass, leave what was said of earlier quotes.   *)
LEMMA Framed ==
  ASSUME LifeTyped, side' = side, limit' = limit, position'.entry = position.entry,
         Len(path') \in Nat, Len(path) <= Len(path'),
         \A t \in 1..Len(path) : path'[t] = path[t],
         \A t \in 1..Len(path) : Flipped(t)' <=> Flipped(t)
  PROVE  /\ \A t \in 1..Len(path) : SaleAt(t)' = SaleAt(t) /\ CostAt(t)' = CostAt(t)
                                    /\ (Quiet(t)' <=> Quiet(t))
         /\ \A k \in 0..Len(path) : Top(k)' = Top(k)
         /\ V!BidsThroughout' => V!BidsThroughout
         /\ V!AtMarket' <=> V!AtMarket
<1>1. Len(path) \in Nat
  BY PathIs
<1>2. \A t \in 1..Len(path) : SaleAt(t)' = SaleAt(t) /\ CostAt(t)' = CostAt(t)
  BY DEF SaleAt, CostAt, V!Sale, V!Cost, V!Dollar
<1>3. V!AtMarket' <=> V!AtMarket
  BY DEF V!AtMarket, V!None
<1>4. \A k \in 0..Len(path) : Top(k)' = Top(k)
  <2> SUFFICES ASSUME NEW k \in 0..Len(path) PROVE Top(k)' = Top(k)
    OBVIOUS
  <2>1. \A t \in 1..k : t \in 1..Len(path)
    BY <1>1
  <2>2. Bid(k)' = Bid(k)
    BY <1>2, <2>1 DEF Bid
  <2> QED BY <2>2 DEF Top, V!Max
<1>5. V!BidsThroughout' => V!BidsThroughout
  <2>1. \A t \in 1..Len(path) : t \in 1..Len(path')
    BY <1>1
  <2> QED BY <1>2, <2>1 DEF V!BidsThroughout, SaleAt
<1>6. \A t \in 1..Len(path) : V!StopLevel(Top(t - 1))' = V!StopLevel(Top(t - 1))
  <2> SUFFICES ASSUME NEW t \in 1..Len(path)
               PROVE  V!StopLevel(Top(t - 1))' = V!StopLevel(Top(t - 1))
    OBVIOUS
  <2>1. t - 1 \in 0..Len(path)
    BY <1>1
  <2>2. Top(t - 1)' = Top(t - 1)
    BY <1>4, <2>1
  <2> QED BY <2>2 DEF V!StopLevel, V!TrailDistance
<1>7. \A t \in 1..Len(path) : Quiet(t)' <=> Quiet(t)
  BY <1>2, <1>3, <1>6 DEF Quiet
<1> QED BY <1>2, <1>3, <1>4, <1>5, <1>7

(* What a pass looks at. *)
LEMMA Looks ==
  ASSUME LifeTyped, Len(path) > 0
  PROVE  /\ Len(path) \in 1..Len(path) /\ book = path[Len(path)]
         /\ V!CurrentPrice = SaleAt(Len(path)) /\ V!CurrentAsk = CostAt(Len(path))
         /\ V!BidsThroughout => SaleAt(Len(path)) > 0 /\ V!EffectivePrice = SaleAt(Len(path))
         /\ V!CurrentPrice \in Int /\ V!CurrentAsk \in Int
<1>1. Len(path) \in Nat
  BY PathIs
<1>2. Len(path) \in 1..Len(path) /\ book = path[Len(path)]
  BY <1>1 DEF LifeTyped
<1>3. V!CurrentPrice = SaleAt(Len(path)) /\ V!CurrentAsk = CostAt(Len(path))
  BY <1>2 DEF V!CurrentPrice, V!CurrentAsk, SaleAt, CostAt, V!Sale, V!Cost
<1>4. SaleAt(Len(path)) \in Int /\ CostAt(Len(path)) \in Int
  BY <1>2, PathIs
<1>5. V!BidsThroughout => SaleAt(Len(path)) > 0
  BY <1>2 DEF V!BidsThroughout, SaleAt
<1> QED BY <1>2, <1>3, <1>4, <1>5 DEF V!EffectivePrice

(* The rule a pass applies. *)
LEMMA ExitIs ==
  ASSUME LifeTyped
  PROVE  /\ V!Wish \in {"signal", "none"}
         /\ V!Wish = "signal" <=> limit # V!None /\ Flipped(Len(path))
         /\ result # V!None => V!EvaluateExit(V!Wish) = V!Exit("market_resolved", V!OfSide(result))
         /\ result = V!None /\ V!StoplossHit(V!EffectivePrice) =>
              V!EvaluateExit(V!Wish)
                = V!Exit("stoploss", IF OnExchange THEN V!ExchangeStopPrice ELSE V!EffectivePrice)
         /\ result = V!None /\ ~V!StoplossHit(V!EffectivePrice) /\ V!TrailingHit(V!EffectivePrice) =>
              V!EvaluateExit(V!Wish)
                = V!Exit("trailing_stop", IF LimitExit THEN V!StopLevel(V!PeakPrice) ELSE V!EffectivePrice)
         /\ result = V!None /\ ~V!StoplossHit(V!EffectivePrice) /\ ~V!TrailingHit(V!EffectivePrice) =>
              V!EvaluateExit(V!Wish)
                = IF V!Wish = "signal" THEN V!Exit("signal", V!EffectivePrice) ELSE V!Hold
<1>1. V!Wish \in {"signal", "none"} /\ (V!Wish = "signal" <=> limit # V!None /\ Flipped(Len(path)))
  BY DEF V!Wish, Flipped
<1>2. ~terminal
  BY DEF LifeTyped
<1>3. CASE result # V!None
  BY <1>1, <1>3 DEF V!EvaluateExit
<1>4. CASE result = V!None /\ V!StoplossHit(V!EffectivePrice)
  BY <1>1, <1>4 DEF V!EvaluateExit
<1>5. CASE result = V!None /\ ~V!StoplossHit(V!EffectivePrice) /\ V!TrailingHit(V!EffectivePrice)
  BY <1>1, <1>5 DEF V!EvaluateExit
<1>6. CASE result = V!None /\ ~V!StoplossHit(V!EffectivePrice) /\ ~V!TrailingHit(V!EffectivePrice)
  BY <1>1, <1>2, <1>6 DEF V!EvaluateExit
<1> QED BY <1>1, <1>3, <1>4, <1>5, <1>6

(* What was said of the end of a position stays. *)
LEMMA EndedStays ==
  ASSUME LifeInv, position.status = "closed", position' = position, side' = side, limit' = limit,
         filledAt' = filledAt, exitAt' = exitAt, result # V!None => result' = result,
         Len(path') \in Nat, Len(path) <= Len(path'),
         \A t \in 1..Len(path) : path'[t] = path[t],
         \A t \in 1..Len(path) : Flipped(t)' <=> Flipped(t)
  PROVE  LifeEnded'
<1>1. LifeTyped /\ exitAt \in Nat /\ exitAt <= Len(path) /\ Len(path) \in Nat
  BY PathIs DEF LifeInv, LifeEnded, LifeTyped
<1>2. /\ \A t \in 1..Len(path) : SaleAt(t)' = SaleAt(t) /\ CostAt(t)' = CostAt(t)
                                 /\ (Quiet(t)' <=> Quiet(t))
      /\ \A k \in 0..Len(path) : Top(k)' = Top(k)
      /\ V!BidsThroughout' => V!BidsThroughout
      /\ V!AtMarket' <=> V!AtMarket
  BY <1>1, Framed
<1>3. PICK e \in Nat : e = exitAt
  BY <1>1
<1>4. e = exitAt' /\ \A t \in 1..e : t \in 1..Len(path)
  BY <1>1, <1>3
<1>5. /\ e >= 1 => SaleAt(exitAt)' = SaleAt(exitAt) /\ (Quiet(exitAt)' <=> Quiet(exitAt))
                   /\ (Flipped(exitAt)' <=> Flipped(exitAt))
                   /\ V!StopLevel(Top(exitAt - 1))' = V!StopLevel(Top(exitAt - 1))
  <2> SUFFICES ASSUME e >= 1 PROVE <1>5
    OBVIOUS
  <2>1. e \in 1..Len(path) /\ e - 1 \in 0..Len(path)
    BY <1>1, <1>3
  <2>2. SaleAt(e)' = SaleAt(e) /\ (Quiet(e)' <=> Quiet(e)) /\ (Flipped(e)' <=> Flipped(e))
        /\ Top(e - 1)' = Top(e - 1)
    BY <1>2, <2>1
  <2>3. SaleAt(exitAt)' = SaleAt(e)'
    BY <1>3 DEF SaleAt
  <2>4. Top(exitAt - 1)' = Top(e - 1)'
    BY <1>3 DEF Top, Bid
  <2>5. Flipped(exitAt)' <=> Flipped(e)'
    BY <1>3 DEF Flipped
  <2>6. Quiet(exitAt)' <=> Quiet(e)'
    BY <1>3, <2>3, <2>4, <2>5 DEF Quiet, V!StopLevel, V!TrailDistance
  <2>7. V!StopLevel(Top(exitAt - 1))' = V!StopLevel(Top(exitAt - 1))
    BY <1>3, <2>2, <2>4 DEF V!StopLevel, V!TrailDistance
  <2> QED BY <1>3, <2>2, <2>3, <2>5, <2>6, <2>7
<1>6. /\ position.reason \in {"stoploss", "trailing_stop", "signal", "market_resolved", "cancelled"}
      /\ position.reason = "cancelled" =>
           /\ ~V!AtMarket /\ filledAt = V!None /\ exitAt >= Timeout /\ position.pnl = 0
           /\ \A t \in 1..exitAt : CostAt(t) > limit
      /\ position.reason # "cancelled" =>
           /\ position.pnl = (position.exit - position.entry) * Size
           /\ filledAt <= exitAt /\ filledAt \in Nat
      /\ position.reason = "market_resolved" =>
           result # V!None /\ exitAt = Ticks /\ position.exit = V!OfSide(result)
      /\ position.reason \in {"stoploss", "trailing_stop", "signal"} => filledAt < exitAt
  BY <1>1 DEF LifeInv, LifeEnded, LifeFilled, LifeTyped
<1>7. position.reason = "market_resolved" =>
        result' # V!None /\ position.exit = V!OfSide(result)'
  BY <1>6 DEF V!OfSide, V!Dollar, V!None
<1>8. position.reason = "cancelled" => \A t \in 1..exitAt : CostAt(t)' > limit
  BY <1>2, <1>3, <1>4, <1>6
<1>9. ASSUME V!BidsThroughout'
      PROVE  /\ position.reason # "cancelled" => \A t \in (filledAt + 1)..(exitAt - 1) : Quiet(t)'
             /\ position.reason = "market_resolved" /\ filledAt < exitAt => Quiet(exitAt)'
             /\ position.reason = "stoploss" =>
                  SaleAt(exitAt)' <= position.entry - Stop /\ position.exit <= position.entry - Stop
             /\ position.reason = "trailing_stop" /\ V!AtMarket' =>
                  /\ Trailing /\ SaleAt(exitAt)' <= V!StopLevel(Top(exitAt - 1))'
                  /\ LimitExit => position.exit = V!StopLevel(Top(exitAt - 1))'
             /\ position.reason = "signal" =>
                  /\ ~V!AtMarket' /\ Flipped(exitAt)'
                  /\ SaleAt(exitAt)' > position.entry - Stop /\ position.exit = SaleAt(exitAt)'
  <2>1. V!BidsThroughout
    BY <1>2, <1>9
  <2>2. /\ position.reason # "cancelled" => \A t \in (filledAt + 1)..(exitAt - 1) : Quiet(t)
        /\ position.reason = "market_resolved" /\ filledAt < exitAt => Quiet(exitAt)
        /\ position.reason = "stoploss" =>
             SaleAt(exitAt) <= position.entry - Stop /\ position.exit <= position.entry - Stop
        /\ position.reason = "trailing_stop" /\ V!AtMarket =>
             /\ Trailing /\ SaleAt(exitAt) <= V!StopLevel(Top(exitAt - 1))
             /\ LimitExit => position.exit = V!StopLevel(Top(exitAt - 1))
        /\ position.reason = "signal" =>
             /\ ~V!AtMarket /\ Flipped(exitAt)
             /\ SaleAt(exitAt) > position.entry - Stop /\ position.exit = SaleAt(exitAt)
    BY <2>1 DEF LifeInv, LifeEnded
  <2>3. position.reason # "cancelled" => \A t \in (filledAt + 1)..(exitAt - 1) : Quiet(t)'
    <3> SUFFICES ASSUME position.reason # "cancelled", NEW t \in (filledAt + 1)..(exitAt - 1)
                 PROVE  Quiet(t)'
      OBVIOUS
    <3>1. t \in 1..Len(path) /\ Quiet(t)
      BY <1>1, <1>6, <2>2
    <3> QED BY <1>2, <3>1
  <2>4. position.reason \in {"stoploss", "trailing_stop", "signal"}
          \/ (position.reason = "market_resolved" /\ filledAt < exitAt) => e >= 1
    BY <1>3, <1>6
  <2>5. position.reason = "market_resolved" /\ filledAt < exitAt => Quiet(exitAt)'
    BY <1>5, <2>2, <2>4
  <2>6. position.reason = "stoploss" =>
             SaleAt(exitAt)' <= position.entry - Stop /\ position.exit <= position.entry - Stop
    BY <1>5, <2>2, <2>4
  <2>7. position.reason = "trailing_stop" /\ V!AtMarket' =>
             /\ Trailing /\ SaleAt(exitAt)' <= V!StopLevel(Top(exitAt - 1))'
             /\ LimitExit => position.exit = V!StopLevel(Top(exitAt - 1))'
    BY <1>2, <1>5, <2>2, <2>4
  <2>8. position.reason = "signal" =>
             /\ ~V!AtMarket' /\ Flipped(exitAt)'
             /\ SaleAt(exitAt)' > position.entry - Stop /\ position.exit = SaleAt(exitAt)'
    BY <1>2, <1>5, <2>2, <2>4
  <2> QED BY <2>3, <2>5, <2>6, <2>7, <2>8
<1>10. exitAt # V!None /\ exitAt <= Len(path')
  BY <1>1 DEF V!None
<1> QED BY <1>2, <1>6, <1>7, <1>8, <1>9, <1>10 DEF LifeEnded, V!None

(* A quote comes: it is the first that no pass has gone over. *)
LEMMA LifeTick ==
  ASSUME LifeInv, V!Tick PROVE LifeInv'
<1>1. /\ turn = "market" /\ Len(path) < Ticks /\ result = V!None
      /\ book' \in V!Books /\ path' = Append(path, book')
      /\ turn' = (IF position.status = "closed" THEN "market" ELSE "monitor")
      /\ side' = side /\ mode' = mode /\ result' = result /\ terminal' = terminal
      /\ position' = position /\ peak' = peak /\ span' = span /\ limit' = limit
      /\ filledAt' = filledAt /\ exitAt' = exitAt
  BY DEF V!Tick
<1>2. /\ LifeTyped /\ Len(path) \in Nat /\ path \in Seq(V!Books) /\ signals \in Seq(V!Signals)
      /\ Ticks \in Nat
  BY PathIs, LifeConstants DEF LifeInv, LifeTyped
<1>3. /\ path' \in Seq(V!Books) /\ Len(path') = Len(path) + 1 /\ path'[Len(path')] = book'
      /\ \A t \in 1..Len(path) : path'[t] = path[t]
  BY <1>1, <1>2, AppendProperties
<1>4. \/ signals' = signals
      \/ \E s \in V!Signals : s.at = Len(path') /\ signals' = Append(signals, s)
  BY DEF V!Tick
<1>5. /\ signals' \in Seq(V!Signals)
      /\ \A i \in 1..Len(signals') : signals'[i].at <= Len(path')
      /\ \A i \in 1..Len(signals) : i \in 1..Len(signals') /\ signals'[i] = signals[i]
      /\ \A i \in 1..Len(signals') : signals'[i].at # Len(path')
                                      => i \in 1..Len(signals) /\ signals'[i] = signals[i]
  <2>0. \A i \in 1..Len(signals) : signals[i].at <= Len(path) /\ signals[i].at \in Int
    <3> SUFFICES ASSUME NEW i \in 1..Len(signals)
                 PROVE  signals[i].at <= Len(path) /\ signals[i].at \in Int
      OBVIOUS
    <3>1. signals[i] \in V!Signals /\ signals[i].at <= Len(path)
      BY <1>2 DEF LifeTyped
    <3>2. signals[i].at \in 1..Ticks
      BY <3>1 DEF V!Signals
    <3> QED BY <1>2, <3>1, <3>2
  <2>1. CASE signals' = signals
    BY <1>2, <1>3, <2>0, <2>1
  <2>2. ASSUME NEW s \in V!Signals, s.at = Len(path'), signals' = Append(signals, s)
        PROVE  <1>5
    <3>1. /\ signals' \in Seq(V!Signals) /\ Len(signals') = Len(signals) + 1
          /\ Len(signals) \in Nat
          /\ signals'[Len(signals) + 1] = s /\ \A i \in 1..Len(signals) : signals'[i] = signals[i]
      BY <1>2, <2>2, AppendProperties
    <3>2. \A i \in 1..Len(signals') : i = Len(signals) + 1 \/ i \in 1..Len(signals)
      BY <3>1
    <3>3. \A i \in 1..Len(signals') : signals'[i].at <= Len(path')
      <4> SUFFICES ASSUME NEW i \in 1..Len(signals') PROVE signals'[i].at <= Len(path')
        OBVIOUS
      <4>1. CASE i = Len(signals) + 1
        BY <1>2, <1>3, <2>2, <3>1, <4>1
      <4>2. CASE i \in 1..Len(signals)
        <5>1. signals'[i] = signals[i] /\ signals[i].at <= Len(path) /\ signals[i].at \in Int
          BY <2>0, <3>1, <4>2
        <5> QED BY <1>2, <1>3, <5>1
      <4> QED BY <3>2, <4>1, <4>2
    <3>4. \A i \in 1..Len(signals) : i \in 1..Len(signals') /\ signals'[i] = signals[i]
      BY <3>1
    <3>5. \A i \in 1..Len(signals') : signals'[i].at # Len(path')
                                      => i \in 1..Len(signals) /\ signals'[i] = signals[i]
      BY <2>2, <3>1, <3>2
    <3> QED BY <3>1, <3>3, <3>4, <3>5
  <2> QED BY <1>4, <2>1, <2>2
<1>7. ASSUME NEW t \in 1..Len(path) PROVE Flipped(t)' <=> Flipped(t)
  <2>1. Flipped(t)' <=> \E i \in 1..Len(signals') : signals'[i].at = t /\ V!Flips(signals'[i])
    BY <1>1 DEF Flipped, V!Flips, V!Dollar
  <2>2. t # Len(path')
    BY <1>2, <1>3
  <2>3. (\E i \in 1..Len(signals') : signals'[i].at = t /\ V!Flips(signals'[i]))
        <=> \E i \in 1..Len(signals) : signals[i].at = t /\ V!Flips(signals[i])
    BY <1>5, <2>2
  <2> QED BY <2>1, <2>3 DEF Flipped
<1>8. /\ \A t \in 1..Len(path) : SaleAt(t)' = SaleAt(t) /\ CostAt(t)' = CostAt(t)
                                 /\ (Quiet(t)' <=> Quiet(t))
      /\ \A k \in 0..Len(path) : Top(k)' = Top(k)
      /\ V!BidsThroughout' => V!BidsThroughout
      /\ V!AtMarket' <=> V!AtMarket
  <2>1. Len(path') \in Nat /\ Len(path) <= Len(path')
    BY <1>2, <1>3
  <2> QED BY <1>1, <1>2, <1>3, <1>7, <2>1, Framed
<1>9. Made = Len(path) /\ (position.status # "closed" => Made' = Len(path)) /\ Made' \in Int /\ Made <= Made'
  BY <1>1, <1>2, <1>3 DEF Made, V!None
<1>10. LifeTyped'
  <2>1. turn' \in {"market", "monitor"} /\ Len(path') <= Ticks /\ Len(path') > 0
    BY <1>1, <1>2, <1>3
  <2>2. /\ side \in {"YES", "NO"} /\ mode \in {"paper", "live"} /\ terminal = FALSE
        /\ span \in Nat \ {0} /\ result \in {V!None, 0, V!Dollar}
        /\ position.status \in {"pending", "open", "closed"} /\ position.contracts = Size
        /\ position.entry \in Int /\ position.exit \in Int /\ position.pnl \in Int /\ peak \in Int
        /\ DOMAIN position = {"status", "entry", "contracts", "acc", "fees", "filled", "mae", "mfe",
                             "exit", "reason", "pnl"}
        /\ limit \in {V!None} \cup 1..V!Dollar /\ filledAt \in {V!None} \cup Nat
        /\ exitAt \in {V!None} \cup Nat
        /\ V!AtMarket => filledAt = 0 /\ position.status # "pending"
        /\ ~V!AtMarket => mode = "paper"
        /\ position.status = "closed" => mode = "paper"
    BY <1>2 DEF LifeTyped
  <2> QED BY <1>1, <1>3, <1>5, <1>8, <2>1, <2>2 DEF LifeTyped, V!Books, V!Signals, V!None, V!Dollar
<1>11. LifeWaits'
  <2> SUFFICES ASSUME position.status = "pending" PROVE LifeWaits'
    BY <1>1 DEF LifeWaits
  <2>1. /\ ~V!AtMarket /\ filledAt = V!None /\ position.entry = limit
        /\ \A t \in 1..Len(path) : CostAt(t) > limit /\ t < Timeout
    BY <1>9 DEF LifeInv, LifeWaits
  <2>2. Made' = Len(path)
    BY <1>9
  <2>3. Len(path') # 0
    BY <1>2, <1>3
  <2> QED BY <1>1, <1>8, <2>1, <2>2, <2>3 DEF LifeWaits, V!None
<1>12. LifeFilled'
  <2> SUFFICES ASSUME position.status = "open" \/ (position.status = "closed" /\ position.reason # "cancelled")
               PROVE  LifeFilled'
    BY <1>1 DEF LifeFilled
  <2>1. /\ filledAt # V!None /\ filledAt <= Made /\ filledAt \in Nat
        /\ ~V!AtMarket => /\ filledAt >= 1 /\ filledAt <= Timeout /\ CostAt(filledAt) <= limit
                          /\ \A t \in 1..(filledAt - 1) : CostAt(t) > limit
    BY <1>2 DEF LifeInv, LifeFilled, LifeTyped
  <2>2. filledAt <= Made'
    BY <1>2, <1>9, <2>1
  <2>3. ~V!AtMarket => filledAt \in 1..Len(path) /\ \A t \in 1..(filledAt - 1) : t \in 1..Len(path)
    BY <1>2, <1>9, <2>1
  <2>4. ~V!AtMarket => /\ CostAt(filledAt)' <= limit
                       /\ \A t \in 1..(filledAt - 1) : CostAt(t)' > limit
    <3>1. ~V!AtMarket => CostAt(filledAt)' = CostAt(filledAt)
      <4> SUFFICES ASSUME ~V!AtMarket PROVE CostAt(filledAt)' = CostAt(filledAt)
        OBVIOUS
      <4>1. path'[filledAt] = path[filledAt]
        BY <1>3, <2>3
      <4> QED BY <1>1, <4>1 DEF CostAt, V!Cost, V!Dollar
    <3> QED BY <1>8, <2>1, <2>3, <3>1
  <2> QED BY <1>1, <1>8, <2>1, <2>2, <2>4 DEF LifeFilled, V!None
<1>13. LifeOpen'
  <2> SUFFICES ASSUME position.status = "open", mode = "paper", V!BidsThroughout'
               PROVE  /\ \A t \in ((filledAt + 1)..Made)' : Quiet(t)'
                      /\ V!AtMarket' => V!PeakPrice' = Top(Made)'
    BY <1>1 DEF LifeOpen
  <2>1. /\ \A t \in (filledAt + 1)..Made : Quiet(t)
        /\ V!AtMarket => V!PeakPrice = Top(Made)
    BY <1>8 DEF LifeInv, LifeOpen
  <2>2. filledAt \in Nat /\ Made' = Made /\ Made = Len(path)
    BY <1>2, <1>9 DEF LifeInv, LifeFilled, LifeTyped
  <2>3. \A t \in (filledAt + 1)..Made : t \in 1..Len(path)
    BY <1>2, <2>2
  <2>4. V!PeakPrice' = V!PeakPrice
    BY <1>1 DEF V!PeakPrice, V!None
  <2>5. Top(Made)' = Top(Made)
    <3>1. Made \in 0..Len(path)
      BY <1>2, <2>2
    <3>2. Bid(Made)' = Bid(Made)
      <4>1. \A t \in 1..Made : t \in 1..Len(path)
        BY <1>2, <2>2
      <4> QED BY <1>1, <1>8, <2>2, <4>1 DEF Bid
    <3> QED BY <3>2 DEF Top, V!Max
  <2> QED BY <1>1, <1>8, <2>1, <2>2, <2>3, <2>4, <2>5
<1>14. LifeEnded'
  <2> SUFFICES ASSUME position.status = "closed" PROVE LifeEnded'
    BY <1>1 DEF LifeEnded
  <2>1. Len(path') \in Nat /\ Len(path) <= Len(path')
    BY <1>2, <1>3
  <2> QED BY <1>1, <1>3, <1>7, <2>1, EndedStays
<1> QED BY <1>10, <1>11, <1>12, <1>13, <1>14 DEF LifeInv

(* The market settles: no quote is left to look at. *)
LEMMA LifeClose ==
  ASSUME LifeInv, V!Close PROVE LifeInv'
<1>1. /\ turn = "market" /\ Len(path) = Ticks /\ result = V!None
      /\ result' \in {0, V!Dollar}
      /\ turn' = (IF position.status = "closed" THEN "market" ELSE "monitor")
      /\ side' = side /\ mode' = mode /\ book' = book /\ terminal' = terminal
      /\ position' = position /\ peak' = peak /\ path' = path /\ span' = span
      /\ signals' = signals /\ limit' = limit /\ filledAt' = filledAt /\ exitAt' = exitAt
  BY DEF V!Close
<1>2. LifeTyped /\ Len(path) \in Nat
  BY PathIs DEF LifeInv
<1>3. ASSUME NEW t PROVE Flipped(t)' <=> Flipped(t)
  BY <1>1 DEF Flipped, V!Flips, V!Dollar
<1>4. /\ \A t \in 1..Len(path) : SaleAt(t)' = SaleAt(t) /\ CostAt(t)' = CostAt(t)
                                 /\ (Quiet(t)' <=> Quiet(t))
      /\ \A k \in 0..Len(path) : Top(k)' = Top(k)
      /\ V!BidsThroughout' => V!BidsThroughout
      /\ V!AtMarket' <=> V!AtMarket
  <2>1. Len(path') \in Nat /\ Len(path) <= Len(path')
    BY <1>1, <1>2
  <2> QED BY <1>1, <1>2, <1>3, <2>1, Framed
<1>5. Made = Len(path) /\ Made' = Len(path)
  BY <1>1, <1>2 DEF Made, V!None, V!Dollar
<1>6. LifeTyped'
  <2>1. result' # V!None /\ result' \in {V!None, 0, V!Dollar} /\ turn' \in {"market", "monitor"}
    BY <1>1 DEF V!None, V!Dollar
  <2>2. /\ side \in {"YES", "NO"} /\ mode \in {"paper", "live"} /\ terminal = FALSE
        /\ book \in V!Books /\ path \in Seq(V!Books) /\ Len(path) <= Ticks
        /\ Len(path) > 0 => book = path[Len(path)]
        /\ span \in Nat \ {0} /\ signals \in Seq(V!Signals)
        /\ \A i \in 1..Len(signals) : signals[i].at <= Len(path)
        /\ position.status \in {"pending", "open", "closed"} /\ position.contracts = Size
        /\ position.entry \in Int /\ position.exit \in Int /\ position.pnl \in Int /\ peak \in Int
        /\ DOMAIN position = {"status", "entry", "contracts", "acc", "fees", "filled", "mae", "mfe",
                             "exit", "reason", "pnl"}
        /\ limit \in {V!None} \cup 1..V!Dollar /\ filledAt \in {V!None} \cup Nat
        /\ exitAt \in {V!None} \cup Nat
        /\ V!AtMarket => filledAt = 0 /\ position.status # "pending"
        /\ ~V!AtMarket => mode = "paper"
        /\ position.status = "closed" => mode = "paper"
    BY <1>2 DEF LifeTyped
  <2> QED BY <1>1, <1>4, <2>1, <2>2 DEF LifeTyped, V!Books, V!Signals, V!None, V!Dollar
<1>7. LifeWaits'
  <2> SUFFICES ASSUME position.status = "pending" PROVE LifeWaits'
    BY <1>1 DEF LifeWaits
  <2>1. /\ ~V!AtMarket /\ filledAt = V!None /\ position.entry = limit
        /\ \A t \in 1..Len(path) : CostAt(t) > limit /\ t < Timeout
        /\ Len(path) = 0 => V!CurrentAsk > limit
    BY <1>5 DEF LifeInv, LifeWaits
  <2>2. V!CurrentAsk' = V!CurrentAsk
    BY <1>1 DEF V!CurrentAsk, V!Dollar
  <2> QED BY <1>1, <1>4, <1>5, <2>1, <2>2 DEF LifeWaits, V!None
<1>8. LifeFilled'
  <2>1. \A t : CostAt(t)' = CostAt(t)
    BY <1>1 DEF CostAt, V!Cost, V!Dollar
  <2>2. CostAt(filledAt)' = CostAt(filledAt)
    BY <1>1 DEF CostAt, V!Cost, V!Dollar
  <2> QED BY <1>1, <1>4, <1>5, <2>1, <2>2 DEF LifeInv, LifeFilled, V!None
<1>9. LifeOpen'
  <2> SUFFICES ASSUME position.status = "open", mode = "paper", V!BidsThroughout'
               PROVE  /\ \A t \in ((filledAt + 1)..Made)' : Quiet(t)'
                      /\ V!AtMarket' => V!PeakPrice' = Top(Made)'
    BY <1>1 DEF LifeOpen
  <2>1. /\ \A t \in (filledAt + 1)..Made : Quiet(t)
        /\ V!AtMarket => V!PeakPrice = Top(Made)
    BY <1>4 DEF LifeInv, LifeOpen
  <2>2. filledAt \in Nat
    BY <1>2 DEF LifeInv, LifeFilled, LifeTyped
  <2>3. \A t \in (filledAt + 1)..Made : t \in 1..Len(path)
    BY <1>2, <1>5, <2>2
  <2>4. V!PeakPrice' = V!PeakPrice
    BY <1>1 DEF V!PeakPrice, V!None
  <2>5. Top(Made)' = Top(Made)
    <3>1. Bid(Made)' = Bid(Made)
      <4>1. \A t \in 1..Made : t \in 1..Len(path)
        BY <1>2, <1>5
      <4> QED BY <1>1, <1>4, <1>5, <4>1 DEF Bid
    <3> QED BY <3>1 DEF Top, V!Max
  <2> QED BY <1>1, <1>4, <1>5, <2>1, <2>2, <2>3, <2>4, <2>5
<1>10. LifeEnded'
  <2> SUFFICES ASSUME position.status = "closed" PROVE LifeEnded'
    BY <1>1 DEF LifeEnded
  <2>1. Len(path') \in Nat /\ Len(path) <= Len(path')
    BY <1>1, <1>2
  <2> QED BY <1>1, <1>3, <2>1, EndedStays
<1> QED BY <1>6, <1>7, <1>8, <1>9, <1>10 DEF LifeInv

-----------------------------------------------------------------------------
(* A pass of the monitor. *)

(* A pass of the monitor: what it finds and what it leaves. *)
LEMMA PassIs ==
  ASSUME LifeInv, V!Monitor
  PROVE  /\ LifeTyped /\ Len(path) \in Nat /\ position.status # "closed"
         /\ turn = "monitor" /\ turn' = "market"
         /\ path' = path /\ span' = span /\ signals' = signals /\ limit' = limit
         /\ side' = side /\ mode' = mode /\ book' = book /\ result' = result /\ terminal' = terminal
         /\ filledAt' = (IF position.status = "pending" /\ position'.status = "open"
                         THEN Len(path) ELSE filledAt)
         /\ exitAt' = (IF position'.status = "closed" THEN Len(path) ELSE exitAt)
         /\ Made' = Len(path) /\ Made \in Int
         /\ result = V!None => Len(path) > 0 /\ Made = Len(path) - 1
         /\ result # V!None => Made = Len(path) /\ Len(path) = Ticks
         /\ \A t : SaleAt(t)' = SaleAt(t) /\ CostAt(t)' = CostAt(t) /\ (Flipped(t)' <=> Flipped(t))
         /\ (V!BidsThroughout' <=> V!BidsThroughout) /\ (V!AtMarket' <=> V!AtMarket)
<1>1. LifeTyped /\ Len(path) \in Nat
  BY PathIs DEF LifeInv
<1>2. /\ turn = "monitor" /\ turn' = "market"
      /\ path' = path /\ span' = span /\ signals' = signals /\ limit' = limit
      /\ filledAt' = (IF position.status = "pending" /\ position'.status = "open"
                         THEN Len(path) ELSE filledAt)
      /\ exitAt' = (IF position'.status = "closed" THEN Len(path) ELSE exitAt)
  BY DEF V!Monitor
<1>3. /\ side' = side /\ mode' = mode /\ book' = book /\ result' = result /\ terminal' = terminal
  BY DEF V!Monitor, V!PassHolds, V!PassDefers, V!PaperExit, V!PaperFill, V!Waits, V!PaperCancel, V!vars
<1>4. position.status # "closed"
  BY <1>1, <1>2 DEF LifeTyped
<1>5. /\ Made' = Len(path) /\ Made \in Int
      /\ result = V!None => Len(path) > 0 /\ Made = Len(path) - 1
      /\ result # V!None => Made = Len(path) /\ Len(path) = Ticks
  BY <1>1, <1>2, <1>3 DEF Made, LifeTyped, V!None
<1>6. \A t : SaleAt(t)' = SaleAt(t) /\ CostAt(t)' = CostAt(t) /\ (Flipped(t)' <=> Flipped(t))
  BY <1>2, <1>3 DEF SaleAt, CostAt, Flipped, V!Flips, V!Sale, V!Cost, V!Dollar
<1>7. (V!BidsThroughout' <=> V!BidsThroughout) /\ (V!AtMarket' <=> V!AtMarket)
  BY <1>2, <1>3 DEF V!BidsThroughout, V!AtMarket, V!Sale, V!Dollar, V!None
<1> QED BY <1>1, <1>2, <1>3, <1>4, <1>5, <1>6, <1>7

(* A row that a pass left as it should be is typed. *)
LEMMA PassTyped ==
  ASSUME LifeInv, V!Monitor,
         position'.status \in {"pending", "open", "closed"}, position'.contracts = Size,
         position'.entry \in Int, position'.exit \in Int, position'.pnl \in Int, peak' \in Int,
         DOMAIN position' = DOMAIN position,
         V!AtMarket => filledAt' = 0 /\ position'.status # "pending",
         position'.status = "closed" => mode = "paper"
  PROVE  LifeTyped'
<1>1. /\ LifeTyped /\ Len(path) \in Nat /\ turn' = "market"
      /\ path' = path /\ span' = span /\ signals' = signals /\ limit' = limit
      /\ side' = side /\ mode' = mode /\ book' = book /\ result' = result /\ terminal' = terminal
      /\ filledAt' = (IF position.status = "pending" /\ position'.status = "open"
                      THEN Len(path) ELSE filledAt)
      /\ exitAt' = (IF position'.status = "closed" THEN Len(path) ELSE exitAt)
      /\ (V!AtMarket' <=> V!AtMarket)
  BY PassIs
<1>2. /\ side \in {"YES", "NO"} /\ mode \in {"paper", "live"} /\ terminal = FALSE
      /\ book \in V!Books /\ path \in Seq(V!Books) /\ Len(path) <= Ticks
      /\ Len(path) > 0 => book = path[Len(path)]
      /\ span \in Nat \ {0} /\ signals \in Seq(V!Signals)
      /\ \A i \in 1..Len(signals) : signals[i].at <= Len(path)
      /\ result \in {V!None, 0, V!Dollar}
      /\ result # V!None => Len(path) = Ticks
      /\ DOMAIN position = {"status", "entry", "contracts", "acc", "fees", "filled", "mae", "mfe",
                             "exit", "reason", "pnl"}
      /\ limit \in {V!None} \cup 1..V!Dollar /\ filledAt \in {V!None} \cup Nat
      /\ exitAt \in {V!None} \cup Nat
      /\ ~V!AtMarket => mode = "paper"
  BY <1>1 DEF LifeTyped
<1>3. filledAt' \in {V!None} \cup Nat /\ exitAt' \in {V!None} \cup Nat
  BY <1>1, <1>2
<1> QED BY <1>1, <1>2, <1>3 DEF LifeTyped, V!Books, V!Signals, V!None, V!Dollar

(* A pass that keeps the entry price keeps what was said of earlier quotes. *)
LEMMA PassFramed ==
  ASSUME LifeInv, V!Monitor, position'.entry = position.entry
  PROVE  /\ \A t \in 1..Len(path) : Quiet(t)' <=> Quiet(t)
         /\ \A k \in 0..Len(path) : Top(k)' = Top(k)
<1>1. /\ LifeTyped /\ Len(path) \in Nat /\ Len(path') = Len(path) /\ limit' = limit /\ side' = side
      /\ \A t \in 1..Len(path) : path'[t] = path[t]
      /\ \A t : Flipped(t)' <=> Flipped(t)
  BY PassIs
<1> QED BY <1>1, Framed

(* The row has no order waiting after a fill, and no open position before.  *)
LEMMA LifeHolds ==
  ASSUME LifeInv, V!Monitor, position.status = "open", position'.status = "open",
         position'.entry = position.entry, position'.exit = position.exit,
         position'.pnl = position.pnl, position'.contracts = Size,
         DOMAIN position' = DOMAIN position, peak' \in Int,
         mode = "paper" /\ V!BidsThroughout =>
           /\ result = V!None => Quiet(Len(path))
           /\ V!AtMarket => V!PeakPrice' = Top(Len(path))
  PROVE  LifeInv'
<1>1. /\ LifeTyped /\ Len(path) \in Nat /\ limit' = limit /\ mode' = mode /\ path' = path
      /\ filledAt' = filledAt /\ Made' = Len(path) /\ Made \in Int /\ Made <= Len(path)
      /\ result = V!None => Made = Len(path) - 1
      /\ result # V!None => Made = Len(path)
      /\ \A t : SaleAt(t)' = SaleAt(t) /\ CostAt(t)' = CostAt(t)
      /\ (V!BidsThroughout' <=> V!BidsThroughout) /\ (V!AtMarket' <=> V!AtMarket)
  BY PassIs
<1>2. LifeTyped'
  <2>1. /\ position.entry \in Int /\ position.exit \in Int /\ position.pnl \in Int
        /\ V!AtMarket => filledAt = 0
    BY <1>1 DEF LifeTyped
  <2>2. V!AtMarket => filledAt' = 0 /\ position'.status # "pending"
    BY <1>1, <2>1
  <2>3. position'.entry \in Int /\ position'.exit \in Int /\ position'.pnl \in Int
    BY <2>1
  <2>4. position'.status \in {"pending", "open", "closed"} /\ position'.status # "closed"
    OBVIOUS
  <2> QED BY <2>2, <2>3, <2>4, PassTyped
<1>3. LifeWaits' /\ LifeEnded'
  BY DEF LifeWaits, LifeEnded
<1>4. /\ filledAt # V!None /\ filledAt <= Made /\ filledAt \in Nat
      /\ ~V!AtMarket => /\ filledAt >= 1 /\ filledAt <= Timeout /\ CostAt(filledAt) <= limit
                        /\ \A t \in 1..(filledAt - 1) : CostAt(t) > limit
  BY <1>1 DEF LifeInv, LifeFilled, LifeTyped
<1>5. LifeFilled'
  <2>1. CostAt(filledAt)' = CostAt(filledAt)
    BY <1>1, PassIs DEF CostAt, V!Cost, V!Dollar
  <2>2. filledAt <= Len(path)
    BY <1>1, <1>4
  <2> QED BY <1>1, <1>4, <2>1, <2>2 DEF LifeFilled, V!None
<1>6. LifeOpen'
  <2> SUFFICES ASSUME mode = "paper", V!BidsThroughout
               PROVE  /\ \A t \in (filledAt + 1)..Len(path) : Quiet(t)'
                      /\ V!AtMarket => V!PeakPrice' = Top(Made)'
    BY <1>1 DEF LifeOpen
  <2>1. \A t \in (filledAt + 1)..Made : Quiet(t)
    BY DEF LifeInv, LifeOpen
  <2>2. \A t \in (filledAt + 1)..Len(path) : t \in 1..Len(path) /\ Quiet(t)
    BY <1>1, <1>4, <2>1
  <2>3. Top(Made)' = Top(Len(path))
    <3>1. Bid(Made)' = Bid(Len(path))
      BY <1>1 DEF Bid
    <3> QED BY <3>1 DEF Top, V!Max
  <2> QED BY <2>2, <2>3, PassFramed
<1> QED BY <1>2, <1>3, <1>5, <1>6 DEF LifeInv

(* A quote that no stop was at, and no signal against, is quiet. *)
LEMMA QuietPass ==
  ASSUME LifeInv, V!Monitor, position.status = "open", mode = "paper", V!BidsThroughout,
         result = V!None, ~V!StoplossHit(V!EffectivePrice), ~V!TrailingHit(V!EffectivePrice),
         V!Wish = "signal" => book.ask - book.bid > MaxSpread
  PROVE  Quiet(Len(path))
<1>1. /\ LifeTyped /\ Len(path) \in Nat /\ Len(path) > 0 /\ Made = Len(path) - 1
  BY PassIs
<1>2. /\ Len(path) \in 1..Len(path) /\ book = path[Len(path)]
      /\ V!EffectivePrice = SaleAt(Len(path))
  BY <1>1, Looks
<1>3. SaleAt(Len(path)) \in Int /\ book.bid \in Int /\ book.ask \in Int
  BY <1>1, <1>2, PathIs
<1>4. position.entry \in Int /\ Stop \in Int /\ MaxSpread \in Int
  BY <1>1, LifeConstants DEF LifeTyped
<1>5. SaleAt(Len(path)) > position.entry - Stop
  BY <1>2, <1>3, <1>4 DEF V!StoplossHit
<1>6. ASSUME V!AtMarket, Trailing PROVE SaleAt(Len(path)) > V!StopLevel(Top(Len(path) - 1))
  <2>1. V!PeakPrice = Top(Len(path) - 1)
    BY <1>1, <1>6 DEF LifeInv, LifeOpen
  <2>2. V!StopLevel(Top(Len(path) - 1)) \in Int
    BY <1>1, <1>2, TouchIs
  <2>3. ~(SaleAt(Len(path)) <= V!StopLevel(Top(Len(path) - 1)))
    BY <1>2, <1>6, <2>1 DEF V!TrailingHit
  <2> QED BY <1>3, <2>2, <2>3
<1>7. ASSUME ~V!AtMarket, path[Len(path)].ask - path[Len(path)].bid <= MaxSpread
      PROVE  ~Flipped(Len(path))
  <2>1. V!Wish # "signal"
    BY <1>2, <1>3, <1>4, <1>7
  <2> QED BY <1>1, <1>7, <2>1, ExitIs DEF V!AtMarket
<1> QED BY <1>5, <1>6, <1>7 DEF Quiet

(* A pass that holds raised the peak if it should. *)
LEMMA LifeHeld ==
  ASSUME LifeInv, V!Monitor, V!PassHolds(V!Wish) PROVE LifeInv'
<1>1. /\ LifeTyped /\ Len(path) \in Nat /\ position.status = "open"
      /\ V!EvaluateExit(V!Wish) = V!Hold
      /\ peak' = V!PeakAfter(V!CurrentPrice)
      /\ position' = position \/ position' = [position EXCEPT !.mae = V!NewWorst, !.mfe = V!NewBest]
  BY PassIs DEF V!PassHolds, V!IsOpen, V!Tracked
<1>2. /\ result = V!None /\ ~V!StoplossHit(V!EffectivePrice) /\ ~V!TrailingHit(V!EffectivePrice)
      /\ V!Wish # "signal"
  BY <1>1, ExitIs DEF V!Exit, V!Hold
<1>3. /\ DOMAIN position = {"status", "entry", "contracts", "acc", "fees", "filled", "mae", "mfe",
                             "exit", "reason", "pnl"}
      /\ position.contracts = Size /\ position.entry \in Int /\ peak \in Int
  BY <1>1 DEF LifeTyped
<1>4. /\ position'.status = "open" /\ position'.entry = position.entry
      /\ position'.exit = position.exit /\ position'.pnl = position.pnl
      /\ position'.contracts = Size /\ DOMAIN position' = DOMAIN position
  BY <1>1, <1>3
<1>5. Len(path) > 0 /\ Made = Len(path) - 1
  BY <1>2, PassIs
<1>6. /\ Len(path) \in 1..Len(path) /\ V!CurrentPrice = SaleAt(Len(path)) /\ V!CurrentPrice \in Int
      /\ V!BidsThroughout => SaleAt(Len(path)) > 0
  BY <1>1, <1>5, Looks
<1>7. peak' \in Int
  BY <1>1, <1>3, <1>6 DEF V!PeakAfter
<1>8. ASSUME mode = "paper", V!BidsThroughout, V!AtMarket
      PROVE  V!PeakPrice' = Top(Len(path))
  <2>1. V!PeakPrice = Top(Len(path) - 1)
    BY <1>1, <1>5, <1>8 DEF LifeInv, LifeOpen
  <2>2. Top(Len(path)) = IF SaleAt(Len(path)) > Top(Len(path) - 1)
                         THEN SaleAt(Len(path)) ELSE Top(Len(path) - 1)
    BY <1>1, <1>6, TopGrows
  <2>3. CASE SaleAt(Len(path)) > Top(Len(path) - 1)
    <3>1. peak' = SaleAt(Len(path))
      BY <1>1, <1>6, <2>1, <2>3 DEF V!PeakAfter
    <3>2. peak' # V!None
      BY <1>6, <1>8, <3>1 DEF V!None
    <3> QED BY <2>2, <2>3, <3>1, <3>2 DEF V!PeakPrice, V!None
  <2>4. CASE ~(SaleAt(Len(path)) > Top(Len(path) - 1))
    <3>1. peak' = peak
      BY <1>1, <1>6, <2>1, <2>4 DEF V!PeakAfter
    <3>2. V!PeakPrice' = V!PeakPrice
      BY <1>4, <3>1 DEF V!PeakPrice, V!None
    <3> QED BY <2>1, <2>2, <2>4, <3>2
  <2> QED BY <2>3, <2>4
<1>9. mode = "paper" /\ V!BidsThroughout => Quiet(Len(path))
  BY <1>1, <1>2, QuietPass
<1> QED BY <1>1, <1>4, <1>7, <1>8, <1>9, LifeHolds

(* A pass that defers saw a signal and a wide book. *)
LEMMA LifeDeferred ==
  ASSUME LifeInv, V!Monitor, V!PassDefers(V!Wish) PROVE LifeInv'
<1>1. /\ LifeTyped /\ Len(path) \in Nat /\ position.status = "open"
      /\ V!EvaluateExit(V!Wish) # V!Hold
      /\ V!Deferred(V!EvaluateExit(V!Wish).reason) \/ mode = "live"
      /\ position' = position /\ peak' = peak
  BY PassIs DEF V!PassDefers, V!IsOpen, V!vars
<1>2. position.contracts = Size /\ peak \in Int
  BY <1>1 DEF LifeTyped
<1>3. ASSUME mode = "paper"
      PROVE  /\ result = V!None /\ ~V!StoplossHit(V!EffectivePrice) /\ ~V!TrailingHit(V!EffectivePrice)
             /\ V!Wish = "signal" /\ book.ask - book.bid > MaxSpread
  BY <1>1, <1>3, ExitIs DEF V!Exit, V!Deferred, V!Discretionary
<1>4. mode = "paper" /\ V!BidsThroughout => Quiet(Len(path))
  BY <1>1, <1>3, QuietPass
<1>5. mode = "paper" => ~V!AtMarket
  BY <1>1, <1>3, ExitIs DEF V!AtMarket
<1> QED BY <1>1, <1>2, <1>4, <1>5, LifeHolds

(* The limit price of a stop on the exchange is not above the stop. *)
LEMMA StopPriceBelow ==
  ASSUME position.entry \in Int, position.entry - Stop >= 1
  PROVE  V!ExchangeStopPrice \in Int /\ V!ExchangeStopPrice <= position.entry - Stop
<1> DEFINE a == position.entry - Stop
           p == (a * 99) \div 100
           N == {p, 1}
<1>1. a \in Int /\ a >= 1
  BY LifeConstants
<1> HIDE DEF a
<1>2. p \in Int /\ p <= a
  BY <1>1
<1> HIDE DEF p
<1>3. IsFiniteSet(N) /\ N # {} /\ N \subseteq Int
  <2>1. IsFiniteSet({p}) /\ N = {p} \cup {1}
    BY FS_Singleton
  <2>2. IsFiniteSet({p} \cup {1})
    BY <2>1, FS_AddElement
  <2> QED BY <1>2, <2>1, <2>2
<1>4. V!Max(N) \in N
  <2> HIDE DEF N
  <2> QED BY <1>3, ExtremesIn
<1>5. V!Max(N) \in Int /\ V!Max(N) <= a
  <2>1. V!Max(N) = p \/ V!Max(N) = 1
    BY <1>4
  <2> QED BY <1>1, <1>2, <2>1
<1>6. V!ExchangeStopPrice = V!Max(N)
  BY DEF V!ExchangeStopPrice, N, p, a
<1> QED BY <1>5, <1>6 DEF a

(* The exit of a pass, and why. *)
LEMMA ExitShown ==
  ASSUME LifeInv, V!Monitor, V!PaperExit(V!Wish), NEW e, e = V!EvaluateExit(V!Wish)
  PROVE  /\ e.reason \in {"stoploss", "trailing_stop", "signal", "market_resolved"}
         /\ e.reason = "market_resolved" => result # V!None /\ e.price = V!OfSide(result)
         /\ e.reason # "market_resolved" => result = V!None
         /\ e.reason = "stoploss" =>
              /\ V!EffectivePrice <= position.entry - Stop
              /\ e.price = IF OnExchange THEN V!ExchangeStopPrice ELSE V!EffectivePrice
         /\ e.reason = "trailing_stop" =>
              /\ Trailing /\ V!EffectivePrice <= V!StopLevel(V!PeakPrice)
              /\ e.price = IF LimitExit THEN V!StopLevel(V!PeakPrice) ELSE V!EffectivePrice
         /\ e.reason = "signal" =>
              /\ ~V!StoplossHit(V!EffectivePrice) /\ e.price = V!EffectivePrice
              /\ limit # V!None /\ Flipped(Len(path))
<1>1. LifeTyped /\ e # V!Hold
  BY PassIs DEF V!PaperExit
<1>2. position.entry \in Int /\ Stop \in Int
  BY <1>1, LifeConstants DEF LifeTyped
<1>3. V!StoplossHit(V!EffectivePrice) => V!EffectivePrice <= position.entry - Stop
  <2>1. V!EffectivePrice \in Int
    <3>1. book.bid \in Int /\ book.ask \in Int /\ book.last \in Int
      BY <1>1, BooksAre DEF LifeTyped
    <3> QED BY <3>1 DEF V!EffectivePrice, V!CurrentPrice, V!OfSide, V!Dollar
  <2> QED BY <1>2, <2>1 DEF V!StoplossHit
<1>4. V!TrailingHit(V!EffectivePrice) => Trailing /\ V!EffectivePrice <= V!StopLevel(V!PeakPrice)
  BY DEF V!TrailingHit
<1>5. CASE result # V!None
  BY <1>1, <1>5, ExitIs DEF V!Exit
<1>6. CASE result = V!None /\ V!StoplossHit(V!EffectivePrice)
  BY <1>1, <1>3, <1>6, ExitIs DEF V!Exit
<1>7. CASE result = V!None /\ ~V!StoplossHit(V!EffectivePrice) /\ V!TrailingHit(V!EffectivePrice)
  BY <1>1, <1>4, <1>7, ExitIs DEF V!Exit
<1>8. CASE result = V!None /\ ~V!StoplossHit(V!EffectivePrice) /\ ~V!TrailingHit(V!EffectivePrice)
  BY <1>1, <1>8, ExitIs DEF V!Exit
<1> QED BY <1>5, <1>6, <1>7, <1>8

(* The prices of a pass are numbers. *)
LEMMA PricesInt ==
  ASSUME LifeTyped
  PROVE  /\ V!EffectivePrice \in Int /\ V!PeakPrice \in Int /\ V!StopLevel(V!PeakPrice) \in Int
         /\ V!ExchangeStopPrice \in Int /\ V!CurrentAsk \in Int
<1>1. book.bid \in Int /\ book.ask \in Int /\ book.last \in Int
  BY BooksAre DEF LifeTyped
<1>2. V!EffectivePrice \in Int /\ V!CurrentAsk \in Int
  BY <1>1 DEF V!EffectivePrice, V!CurrentPrice, V!CurrentAsk, V!OfSide, V!Dollar
<1>3. position.entry \in Int /\ peak \in Int
  BY DEF LifeTyped
<1>4. V!PeakPrice \in Int
  BY <1>3 DEF V!PeakPrice
<1>5. V!StopLevel(V!PeakPrice) \in Int
  BY <1>3, <1>4, LevelIs
<1>6. V!ExchangeStopPrice \in Int
  <2> DEFINE p == ((position.entry - Stop) * 99) \div 100
             N == {p, 1}
  <2>1. p \in Int
    <3>1. (position.entry - Stop) * 99 \in Int
      BY <1>3, LifeConstants
    <3> QED BY <3>1
  <2> HIDE DEF p
  <2>2. IsFiniteSet(N) /\ N # {} /\ N \subseteq Int
    <3>1. IsFiniteSet({p}) /\ N = {p} \cup {1}
      BY FS_Singleton
    <3>2. IsFiniteSet({p} \cup {1})
      BY <3>1, FS_AddElement
    <3> QED BY <2>1, <3>1, <3>2
  <2>3. V!ExchangeStopPrice = V!Max(N)
    BY DEF V!ExchangeStopPrice, N, p
  <2> HIDE DEF N
  <2> QED BY <2>2, <2>3, ExtremesIn
<1> QED BY <1>2, <1>4, <1>5, <1>6

(* A pass that ends the position says why. *)
LEMMA LifeExited ==
  ASSUME LifeInv, V!Monitor, V!PaperExit(V!Wish) PROVE LifeInv'
<1> DEFINE e == V!EvaluateExit(V!Wish)
<1>0. PICK n \in Nat : n = Len(path)
  BY PassIs
<1>1. /\ LifeTyped /\ n \in Nat /\ position.status = "open" /\ mode = "paper"
      /\ position' = V!Closed(e.price, e.reason)
      /\ peak' = V!None
  BY <1>0, PassIs DEF V!PaperExit, V!IsOpen, V!Forgotten
<1>2. /\ e.reason \in {"stoploss", "trailing_stop", "signal", "market_resolved"}
      /\ e.reason = "market_resolved" => result # V!None /\ e.price = V!OfSide(result)
      /\ e.reason # "market_resolved" => result = V!None
      /\ e.reason = "stoploss" =>
           /\ V!EffectivePrice <= position.entry - Stop
           /\ e.price = IF OnExchange THEN V!ExchangeStopPrice ELSE V!EffectivePrice
      /\ e.reason = "trailing_stop" =>
           /\ Trailing /\ V!EffectivePrice <= V!StopLevel(V!PeakPrice)
           /\ e.price = IF LimitExit THEN V!StopLevel(V!PeakPrice) ELSE V!EffectivePrice
      /\ e.reason = "signal" =>
           /\ ~V!StoplossHit(V!EffectivePrice) /\ e.price = V!EffectivePrice
           /\ limit # V!None /\ Flipped(n)
  BY <1>0, ExitShown
<1> HIDE DEF e
<1>3. /\ V!EffectivePrice \in Int /\ V!PeakPrice \in Int /\ V!StopLevel(V!PeakPrice) \in Int
      /\ V!ExchangeStopPrice \in Int /\ position.entry \in Int /\ Size \in Int /\ Stop \in Int
      /\ position.contracts = Size
      /\ DOMAIN position = {"status", "entry", "contracts", "acc", "fees", "filled", "mae", "mfe",
                             "exit", "reason", "pnl"}
  <2>1. /\ V!EffectivePrice \in Int /\ V!PeakPrice \in Int /\ V!StopLevel(V!PeakPrice) \in Int
        /\ V!ExchangeStopPrice \in Int
    BY <1>1, PricesInt
  <2>2. Size \in Int /\ Stop \in Int
    BY LifeConstants
  <2>3. /\ position.entry \in Int /\ position.contracts = Size
        /\ DOMAIN position = {"status", "entry", "contracts", "acc", "fees", "filled", "mae", "mfe",
                             "exit", "reason", "pnl"}
    BY <1>1 DEF LifeTyped
  <2> QED BY <2>1, <2>2, <2>3
<1>4. e.price \in Int
  <2>1. result # V!None => V!OfSide(result) \in Int
    BY <1>1 DEF LifeTyped, V!OfSide, V!Dollar
  <2> QED BY <1>2, <1>3, <2>1
<1>5. V!PaidFee = 0
  BY <1>1 DEF V!PaidFee
<1>6. /\ position'.status = "closed" /\ position'.reason = e.reason /\ position'.exit = e.price
      /\ position'.entry = position.entry /\ position'.contracts = Size
      /\ position'.pnl = (e.price - position.entry) * Size
      /\ DOMAIN position' = DOMAIN position
  <2>1. position' = [position EXCEPT !.status = "closed", !.reason = e.reason, !.exit = e.price,
                       !.pnl = (e.price - position.entry) * position.contracts - V!PaidFee]
    BY <1>1 DEF V!Closed
  <2>2. (e.price - position.entry) * Size - 0 = (e.price - position.entry) * Size
        /\ (e.price - position.entry) * Size \in Int
    BY <1>3, <1>4
  <2> QED BY <1>3, <1>5, <2>1, <2>2
<1>7. /\ filledAt' = filledAt /\ exitAt' = n /\ path' = path /\ limit' = limit /\ side' = side
      /\ result' = result /\ mode' = mode
      /\ Made' = n /\ Made \in Int /\ Made <= n
      /\ result = V!None => n > 0 /\ Made = n - 1
      /\ result # V!None => Made = n /\ n = Ticks
      /\ \A t : SaleAt(t)' = SaleAt(t) /\ CostAt(t)' = CostAt(t) /\ (Flipped(t)' <=> Flipped(t))
      /\ (V!BidsThroughout' <=> V!BidsThroughout) /\ (V!AtMarket' <=> V!AtMarket)
  BY <1>0, <1>1, <1>6, PassIs
<1>8. LifeTyped'
  <2>1. V!AtMarket => filledAt' = 0 /\ position'.status # "pending"
    BY <1>1, <1>6, <1>7 DEF LifeTyped
  <2>2. position'.pnl \in Int /\ position'.exit \in Int /\ position'.entry \in Int /\ peak' \in Int
    BY <1>1, <1>3, <1>4, <1>6 DEF V!None
  <2>3. position'.status \in {"pending", "open", "closed"}
        /\ (position'.status = "closed" => mode = "paper")
    BY <1>1, <1>6
  <2> QED BY <1>6, <2>1, <2>2, <2>3, PassTyped
<1>9. LifeWaits' /\ LifeOpen'
  BY <1>6 DEF LifeWaits, LifeOpen
<1>10. /\ filledAt # V!None /\ filledAt <= Made /\ filledAt \in Nat
       /\ ~V!AtMarket => /\ filledAt >= 1 /\ filledAt <= Timeout /\ CostAt(filledAt) <= limit
                         /\ \A t \in 1..(filledAt - 1) : CostAt(t) > limit
  BY <1>1 DEF LifeInv, LifeFilled, LifeTyped
<1>11. LifeFilled'
  <2>1. CostAt(filledAt)' = CostAt(filledAt)
    BY <1>7 DEF CostAt, V!Cost, V!Dollar
  <2>2. filledAt <= n
    BY <1>1, <1>7, <1>10
  <2> QED BY <1>7, <1>10, <2>1, <2>2 DEF LifeFilled, V!None
<1>12. ASSUME V!BidsThroughout
       PROVE  /\ \A t \in (filledAt + 1)..(n - 1) : Quiet(t)'
              /\ e.reason = "market_resolved" /\ filledAt < n => Quiet(n)'
              /\ e.reason = "stoploss" =>
                   SaleAt(n) <= position.entry - Stop /\ e.price <= position.entry - Stop
              /\ e.reason = "trailing_stop" /\ V!AtMarket =>
                   /\ Trailing /\ SaleAt(n) <= V!StopLevel(Top(n - 1))
                   /\ LimitExit => e.price = V!StopLevel(Top(n - 1))
              /\ e.reason = "signal" =>
                   ~V!AtMarket /\ Flipped(n) /\ SaleAt(n) > position.entry - Stop /\ e.price = SaleAt(n)
  <2>1. /\ \A t \in (filledAt + 1)..Made : Quiet(t)
        /\ V!AtMarket => V!PeakPrice = Top(Made)
    BY <1>1, <1>12 DEF LifeInv, LifeOpen
  <2>2. \A t \in 1..n : Quiet(t)' <=> Quiet(t)
    BY <1>0, <1>6, PassFramed
  <2>3. \A t \in (filledAt + 1)..(n - 1) : t \in 1..n /\ Quiet(t)
    BY <1>1, <1>7, <1>10, <2>1
  <2>4. e.reason = "market_resolved" /\ filledAt < n => n \in 1..n /\ Quiet(n)
    BY <1>1, <1>2, <1>7, <1>10, <2>1
  <2>5. n > 0 => V!EffectivePrice = SaleAt(n) /\ SaleAt(n) > 0 /\ SaleAt(n) \in Int
    BY <1>0, <1>1, <1>3, <1>12, Looks
  <2>6. e.reason = "stoploss" => SaleAt(n) <= position.entry - Stop /\ e.price <= position.entry - Stop
    <3> SUFFICES ASSUME e.reason = "stoploss"
                 PROVE  SaleAt(n) <= position.entry - Stop /\ e.price <= position.entry - Stop
      OBVIOUS
    <3>1. n > 0 /\ V!EffectivePrice <= position.entry - Stop
          /\ e.price = IF OnExchange THEN V!ExchangeStopPrice ELSE V!EffectivePrice
      BY <1>2, <1>7
    <3>2. position.entry - Stop >= 1
      BY <1>3, <2>5, <3>1
    <3> QED BY <1>3, <2>5, <3>1, <3>2, StopPriceBelow
  <2>7. e.reason = "trailing_stop" /\ V!AtMarket =>
                   /\ Trailing /\ SaleAt(n) <= V!StopLevel(Top(n - 1))
                   /\ LimitExit => e.price = V!StopLevel(Top(n - 1))
    BY <1>2, <1>7, <2>1, <2>5
  <2>8. e.reason = "signal" =>
                   ~V!AtMarket /\ Flipped(n) /\ SaleAt(n) > position.entry - Stop /\ e.price = SaleAt(n)
    <3> SUFFICES ASSUME e.reason = "signal"
                 PROVE  ~V!AtMarket /\ Flipped(n) /\ SaleAt(n) > position.entry - Stop /\ e.price = SaleAt(n)
      OBVIOUS
    <3>1. n > 0 /\ ~V!StoplossHit(SaleAt(n)) /\ e.price = SaleAt(n) /\ SaleAt(n) \in Int
      BY <1>2, <1>7, <2>5
    <3>2. SaleAt(n) > position.entry - Stop
      BY <1>3, <3>1 DEF V!StoplossHit
    <3> QED BY <1>2, <3>1, <3>2 DEF V!AtMarket
  <2>9. e.reason = "market_resolved" /\ filledAt < n => Quiet(n)'
    BY <2>2, <2>4
  <2>10. \A t \in (filledAt + 1)..(n - 1) : Quiet(t)'
    BY <2>2, <2>3
  <2> QED BY <2>6, <2>7, <2>8, <2>9, <2>10
<1>13. LifeEnded'
  <2>1. /\ SaleAt(exitAt)' = SaleAt(n) /\ (Flipped(exitAt)' <=> Flipped(n))
    BY <1>7, PassIs DEF SaleAt, V!Sale, V!Dollar, Flipped, V!Flips
  <2>2. n > 0 => V!StopLevel(Top(exitAt - 1))' = V!StopLevel(Top(n - 1))
    <3>1. Bid(exitAt - 1)' = Bid(n - 1)
      BY <1>6, <1>7 DEF Bid
    <3>2. Top(exitAt - 1)' = Top(n - 1)
      BY <3>1 DEF Top, V!Max
    <3> QED BY <1>6, <3>2 DEF V!StopLevel, V!TrailDistance
  <2>3. Quiet(exitAt)' <=> Quiet(n)'
    BY <1>7 DEF Quiet, SaleAt, Top, Bid, Flipped
  <2>4. V!OfSide(result)' = V!OfSide(result)
    BY <1>7 DEF V!OfSide, V!Dollar
  <2>5. e.reason \in {"stoploss", "trailing_stop", "signal"} => filledAt < n /\ n > 0
    BY <1>1, <1>2, <1>7, <1>10
  <2>6. n # V!None /\ filledAt <= n
    BY <1>1, <1>7, <1>10 DEF V!None
  <2>7. e.reason = "market_resolved" => n = Ticks /\ result # V!None
    BY <1>2, <1>7
  <2>8. V!BidsThroughout =>
              /\ \A t \in (filledAt + 1)..(n - 1) : Quiet(t)'
              /\ e.reason = "market_resolved" /\ filledAt < n => Quiet(exitAt)'
              /\ e.reason = "stoploss" =>
                   SaleAt(exitAt)' <= position.entry - Stop /\ e.price <= position.entry - Stop
              /\ e.reason = "trailing_stop" /\ V!AtMarket =>
                   /\ Trailing /\ SaleAt(exitAt)' <= V!StopLevel(Top(exitAt - 1))'
                   /\ LimitExit => e.price = V!StopLevel(Top(exitAt - 1))'
              /\ e.reason = "signal" =>
                   ~V!AtMarket /\ Flipped(exitAt)' /\ SaleAt(exitAt)' > position.entry - Stop
                   /\ e.price = SaleAt(exitAt)'
    BY <1>12, <2>1, <2>2, <2>3, <2>5
  <2>9. e.reason # "cancelled"
    BY <1>2
  <2>10. n = Len(path) /\ n <= n
    BY <1>0, <1>1
  <2> QED BY <1>2, <1>6, <1>7, <2>10, <2>4, <2>5, <2>6, <2>7, <2>8, <2>9 DEF LifeEnded, V!None
<1> QED BY <1>8, <1>9, <1>11, <1>13 DEF LifeInv

(* What a pass finds of an order that waits. *)
LEMMA WaitIs ==
  ASSUME LifeInv, V!Monitor, position.status = "pending"
  PROVE  /\ ~V!AtMarket /\ filledAt = V!None /\ position.entry = limit /\ mode = "paper"
         /\ limit \in Int /\ limit > 0 /\ V!CurrentAsk \in Int
         /\ \A t \in 1..(Len(path) - 1) : CostAt(t) > limit /\ t < Timeout
         /\ Len(path) = 0 => V!CurrentAsk > limit
         /\ Len(path) > 0 => V!CurrentAsk = CostAt(Len(path))
         /\ Len(path) > 0 /\ result # V!None => CostAt(Len(path)) > limit /\ Len(path) < Timeout
<1>1. /\ LifeTyped /\ Len(path) \in Nat /\ Made \in Int
      /\ result = V!None => Made = Len(path) - 1
      /\ result # V!None => Made = Len(path)
  BY PassIs
<1>2. /\ ~V!AtMarket /\ filledAt = V!None /\ position.entry = limit
      /\ \A t \in 1..Made : CostAt(t) > limit /\ t < Timeout
      /\ Len(path) = 0 => V!CurrentAsk > limit
  BY DEF LifeInv, LifeWaits
<1>3. mode = "paper" /\ limit \in Int /\ limit > 0
  <2>1. limit \in {V!None} \cup 1..V!Dollar /\ (~V!AtMarket => mode = "paper")
    BY <1>1 DEF LifeTyped
  <2>2. limit \in 1..V!Dollar
    BY <1>2, <2>1 DEF V!AtMarket
  <2> QED BY <1>2, <2>1, <2>2 DEF V!Dollar
<1>4. V!CurrentAsk \in Int
  BY <1>1, PricesInt
<1>5. \A t \in 1..(Len(path) - 1) : t \in 1..Made
  BY <1>1
<1>6. Len(path) > 0 => V!CurrentAsk = CostAt(Len(path))
  BY <1>1, Looks
<1>7. Len(path) > 0 /\ result # V!None => Len(path) \in 1..Made
  BY <1>1
<1> QED BY <1>2, <1>3, <1>4, <1>5, <1>6, <1>7

(* The order waits: the ask is above it and it is not yet late. *)
LEMMA LifeWaited ==
  ASSUME LifeInv, V!Monitor, V!Waits PROVE LifeInv'
<1>0. PICK n \in Nat : n = Len(path)
  BY PassIs
<1>1. /\ LifeTyped /\ position.status = "pending" /\ position' = position /\ peak' = peak
      /\ V!CurrentAsk > position.entry /\ n < Timeout
  BY <1>0, PassIs DEF V!Waits, V!vars
<1>2. /\ filledAt' = filledAt /\ limit' = limit /\ path' = path /\ Made' = n /\ side' = side /\ book' = book
      /\ \A t : CostAt(t)' = CostAt(t)
      /\ (V!AtMarket' <=> V!AtMarket)
  BY <1>0, <1>1, PassIs
<1>3. /\ ~V!AtMarket /\ filledAt = V!None /\ position.entry = limit
      /\ limit \in Int /\ V!CurrentAsk \in Int
      /\ \A t \in 1..(n - 1) : CostAt(t) > limit /\ t < Timeout
      /\ n > 0 => V!CurrentAsk = CostAt(n)
  BY <1>0, <1>1, WaitIs
<1>4. LifeTyped'
  <2>1. /\ position.entry \in Int /\ position.exit \in Int /\ position.pnl \in Int /\ peak \in Int
        /\ position.contracts = Size
    BY <1>1 DEF LifeTyped
  <2>2. position'.status \in {"pending", "open", "closed"} /\ position'.status # "closed"
    BY <1>1
  <2> QED BY <1>1, <1>3, <2>1, <2>2, PassTyped
<1>5. LifeWaits'
  <2>1. \A t \in 1..n : CostAt(t) > limit /\ t < Timeout
    <3> SUFFICES ASSUME NEW t \in 1..n PROVE CostAt(t) > limit /\ t < Timeout
      OBVIOUS
    <3>1. CASE t \in 1..(n - 1)
      BY <1>3, <3>1
    <3>2. CASE t = n
      BY <1>1, <1>3, <3>2
    <3> QED BY <3>1, <3>2
  <2>2. V!CurrentAsk' = V!CurrentAsk
    BY <1>2 DEF V!CurrentAsk, V!Dollar
  <2> QED BY <1>1, <1>2, <1>3, <2>1, <2>2 DEF LifeWaits, V!None
<1>6. LifeFilled' /\ LifeOpen' /\ LifeEnded'
  BY <1>1 DEF LifeFilled, LifeOpen, LifeEnded
<1> QED BY <1>4, <1>5, <1>6 DEF LifeInv

(* The order fills, at the first ask that came down to it and no later than *)
(* its deadline.                                                            *)
LEMMA LifeFills ==
  ASSUME LifeInv, V!Monitor, V!PaperFill PROVE LifeInv'
<1>0. PICK n \in Nat : n = Len(path)
  BY PassIs
<1>1. /\ LifeTyped /\ position.status = "pending" /\ peak' = peak
      /\ V!CurrentAsk <= position.entry
      /\ position' = [position EXCEPT !.status = "open", !.entry = V!Min({V!CurrentAsk, position.entry})]
  BY PassIs DEF V!PaperFill
<1>2. /\ ~V!AtMarket /\ position.entry = limit
      /\ limit \in Int /\ V!CurrentAsk \in Int
      /\ \A t \in 1..(n - 1) : CostAt(t) > limit /\ t < Timeout
      /\ n = 0 => V!CurrentAsk > limit
      /\ n > 0 => V!CurrentAsk = CostAt(n)
  BY <1>0, <1>1, WaitIs
<1>3. n >= 1 /\ CostAt(n) <= limit
  BY <1>1, <1>2
<1>4. n <= Timeout
  <2>1. Timeout \in Nat \ {0}
    BY LifeConstants
  <2>2. CASE n = 1
    BY <2>1, <2>2
  <2>3. CASE n > 1
    <3>1. n - 1 < Timeout
      BY <1>2, <2>3
    <3> QED BY <2>1, <3>1
  <2> QED BY <1>3, <2>2, <2>3
<1>5. V!Min({V!CurrentAsk, position.entry}) \in Int
  <2> DEFINE a == V!CurrentAsk
             b == position.entry
             N == {a, b}
  <2>1. IsFiniteSet({a}) /\ N = {a} \cup {b}
    BY FS_Singleton
  <2>2. IsFiniteSet({a} \cup {b})
    BY <2>1, FS_AddElement
  <2>3. N \subseteq Int /\ N # {} /\ IsFiniteSet(N)
    BY <1>2, <2>1, <2>2
  <2> HIDE DEF N
  <2>4. V!Min(N) \in Int
    BY <2>3, ExtremesIn
  <2> QED BY <2>4 DEF N
<1>6. /\ DOMAIN position = {"status", "entry", "contracts", "acc", "fees", "filled", "mae", "mfe",
                             "exit", "reason", "pnl"}
      /\ position.contracts = Size /\ position.exit \in Int /\ position.pnl \in Int /\ peak \in Int
  BY <1>1 DEF LifeTyped
<1>7. /\ position'.status = "open" /\ position'.entry \in Int /\ position'.exit = position.exit
      /\ position'.pnl = position.pnl /\ position'.contracts = Size
      /\ DOMAIN position' = DOMAIN position
  BY <1>1, <1>5, <1>6
<1>8. /\ filledAt' = n /\ limit' = limit /\ path' = path /\ Made' = n /\ side' = side
      /\ \A t : CostAt(t)' = CostAt(t)
      /\ (V!AtMarket' <=> V!AtMarket)
  BY <1>0, <1>1, <1>7, PassIs
<1>9. LifeTyped'
  <2>1. position'.status \in {"pending", "open", "closed"} /\ position'.status # "closed"
    BY <1>7
  <2> QED BY <1>1, <1>2, <1>6, <1>7, <2>1, PassTyped
<1>10. LifeWaits' /\ LifeEnded'
  BY <1>7 DEF LifeWaits, LifeEnded
<1>11. LifeFilled'
  <2>1. CostAt(filledAt)' = CostAt(n)
    BY <1>8 DEF CostAt, V!Cost, V!Dollar
  <2>2. n # V!None
    BY DEF V!None
  <2> QED BY <1>2, <1>3, <1>4, <1>7, <1>8, <2>1, <2>2 DEF LifeFilled, V!None
<1>12. LifeOpen'
  <2>1. (n + 1)..n = {}
    OBVIOUS
  <2> QED BY <1>2, <1>8, <2>1 DEF LifeOpen
<1> QED BY <1>9, <1>10, <1>11, <1>12 DEF LifeInv

(* The order is cancelled when it is late. *)
LEMMA LifeCancelled ==
  ASSUME LifeInv, V!Monitor, Len(path) >= Timeout, V!PaperCancel PROVE LifeInv'
<1>0. PICK n \in Nat : n = Len(path)
  BY PassIs
<1>1. /\ LifeTyped /\ position.status = "pending" /\ peak' = peak
      /\ V!CurrentAsk > position.entry
      /\ position' = V!Closed(position.entry, "cancelled")
  BY PassIs DEF V!PaperCancel
<1>2. /\ ~V!AtMarket /\ position.entry = limit /\ filledAt = V!None /\ mode = "paper"
      /\ limit \in Int /\ V!CurrentAsk \in Int
      /\ \A t \in 1..(n - 1) : CostAt(t) > limit /\ t < Timeout
      /\ n > 0 => V!CurrentAsk = CostAt(n)
  BY <1>0, <1>1, WaitIs
<1>3. n >= Timeout /\ n > 0 /\ CostAt(n) > limit
  BY <1>0, <1>1, <1>2, LifeConstants
<1>4. \A t \in 1..n : CostAt(t) > limit
  <2> SUFFICES ASSUME NEW t \in 1..n PROVE CostAt(t) > limit
    OBVIOUS
  <2>1. t \in 1..(n - 1) \/ t = n
    OBVIOUS
  <2> QED BY <1>2, <1>3, <2>1
<1>5. /\ DOMAIN position = {"status", "entry", "contracts", "acc", "fees", "filled", "mae", "mfe",
                             "exit", "reason", "pnl"}
      /\ position.contracts = Size /\ position.entry \in Int /\ peak \in Int /\ Size \in Int
  BY <1>1, LifeConstants DEF LifeTyped
<1>6. /\ position'.status = "closed" /\ position'.reason = "cancelled"
      /\ position'.exit = position.entry /\ position'.entry = position.entry
      /\ position'.pnl = 0 /\ position'.contracts = Size /\ DOMAIN position' = DOMAIN position
  <2>1. (position.entry - position.entry) * position.contracts - V!PaidFee = 0
    BY <1>2, <1>5 DEF V!PaidFee
  <2>2. position' = [position EXCEPT !.status = "closed", !.reason = "cancelled",
                       !.exit = position.entry, !.pnl = 0]
    BY <1>1, <2>1 DEF V!Closed
  <2> QED BY <1>5, <2>2
<1>7. /\ filledAt' = filledAt /\ exitAt' = n /\ limit' = limit /\ path' = path /\ side' = side
      /\ \A t : CostAt(t)' = CostAt(t)
      /\ (V!AtMarket' <=> V!AtMarket)
  BY <1>0, <1>1, <1>6, PassIs
<1>8. LifeTyped'
  <2>1. position'.status \in {"pending", "open", "closed"}
    BY <1>6
  <2>2. position'.pnl \in Int /\ position'.exit \in Int /\ position'.entry \in Int
    BY <1>5, <1>6
  <2> QED BY <1>1, <1>2, <1>5, <1>6, <2>1, <2>2, PassTyped
<1>9. LifeWaits' /\ LifeFilled' /\ LifeOpen'
  BY <1>6 DEF LifeWaits, LifeFilled, LifeOpen
<1>10. LifeEnded'
  <2>1. n # V!None /\ n <= Len(path')
    BY <1>0, <1>7 DEF V!None
  <2> QED BY <1>2, <1>3, <1>4, <1>6, <1>7, <2>1 DEF LifeEnded, V!None
<1> QED BY <1>8, <1>9, <1>10 DEF LifeInv

(* Every step keeps the invariant. *)
LEMMA LifeKept ==
  ASSUME LifeInv, V!ReviewNext PROVE LifeInv'
<1>1. CASE V!Tick
  BY <1>1, LifeTick
<1>2. CASE V!Close
  BY <1>2, LifeClose
<1>3. CASE V!Monitor
  <2>1. \/ V!PassHolds(V!Wish) \/ V!PassDefers(V!Wish) \/ V!PaperExit(V!Wish)
        \/ V!PaperFill \/ V!Waits
        \/ Len(path) >= Timeout /\ V!PaperCancel
    BY <1>3 DEF V!Monitor
  <2> QED BY <1>3, <2>1, LifeHeld, LifeDeferred, LifeExited, LifeFills, LifeWaited, LifeCancelled
<1> QED BY <1>1, <1>2, <1>3 DEF V!ReviewNext

-----------------------------------------------------------------------------
(* Entries and reviews together. *)
AgreeInv ==
  /\ Is("entries") => EntriesInv
  /\ Is("review") => LifeInv

LEMMA AgreeStart == ReviewsInit => AgreeInv
BY EntriesStart, LifeStart DEF ReviewsInit, AgreeInv, Is

(* What does not run does not change, and neither does anything in a step  *)
(* of another part.                                                         *)
LEMMA EntriesStay ==
  ASSUME EntriesInv, log' = log, entered' = entered, byLimit' = byLimit PROVE EntriesInv'
<1>1. ClearSet' = ClearSet
  BY DEF ClearSet, E!Clears
<1>2. E!FirstPerMarket(ClearSet)' = E!FirstPerMarket(ClearSet)
  BY <1>1 DEF E!FirstPerMarket
<1> QED BY <1>2 DEF EntriesInv, Quoted, E!Signals, E!Dollar

LEMMA LifeStays ==
  ASSUME LifeInv, UNCHANGED review PROVE LifeInv'
<1>1. /\ UNCHANGED <<side, mode, book, result, terminal, position, peak>>
      /\ UNCHANGED <<path, span, signals, limit, filledAt, exitAt, turn>>
  BY DEF review
<1>2. LifeTyped /\ LifeWaits /\ LifeFilled /\ LifeOpen /\ LifeEnded
  BY DEF LifeInv
<1>3. LifeTyped'
  BY <1>1, <1>2 DEF LifeTyped, V!AtMarket, V!Books, V!Signals, V!None, V!Dollar
<1>4. \A t : SaleAt(t)' = SaleAt(t) /\ CostAt(t)' = CostAt(t) /\ (Flipped(t)' <=> Flipped(t))
  BY <1>1 DEF SaleAt, CostAt, V!Sale, V!Cost, V!Dollar, Flipped, V!Flips
<1>5. \A k : Top(k)' = Top(k) /\ V!StopLevel(Top(k))' = V!StopLevel(Top(k))
  <2>1. \A k : Bid(k)' = Bid(k)
    BY <1>1, <1>4 DEF Bid
  <2>2. \A k : Top(k)' = Top(k)
    BY <2>1 DEF Top, V!Max
  <2> QED BY <1>1, <2>2 DEF V!StopLevel, V!TrailDistance
<1>6. \A t : Quiet(t)' <=> Quiet(t)
  BY <1>1, <1>4, <1>5 DEF Quiet, V!AtMarket, V!None
<1>7. /\ Made' = Made /\ V!PeakPrice' = V!PeakPrice /\ V!OfSide(result)' = V!OfSide(result)
      /\ V!BidsThroughout' <=> V!BidsThroughout
      /\ V!AtMarket' <=> V!AtMarket
  BY <1>1, <1>4 DEF Made, V!None, V!PeakPrice, V!OfSide, V!Dollar, V!BidsThroughout, V!AtMarket, SaleAt
<1>8. LifeWaits'
  BY <1>1, <1>2, <1>4, <1>7 DEF LifeWaits, V!CurrentAsk, V!Dollar, V!None
<1>9. LifeFilled'
  BY <1>1, <1>2, <1>4, <1>7 DEF LifeFilled, V!None
<1>10. LifeOpen'
  BY <1>1, <1>2, <1>5, <1>6, <1>7 DEF LifeOpen
<1>11. LifeEnded'
  BY <1>1, <1>2, <1>4, <1>5, <1>6, <1>7 DEF LifeEnded, V!None
<1> QED BY <1>3, <1>8, <1>9, <1>10, <1>11 DEF LifeInv

LEMMA AgreeKept == AgreeInv /\ [ReviewsNext]_reviews => AgreeInv'
<1> SUFFICES ASSUME AgreeInv, [ReviewsNext]_reviews PROVE AgreeInv'
  OBVIOUS
<1>1. part' = part
  BY DEF ReviewsNext, reviews
<1>2. Is("entries") => E!Next \/ (log' = log /\ entered' = entered /\ byLimit' = byLimit)
  BY DEF ReviewsNext, reviews, entries, Is
<1>3. Is("review") => V!ReviewNext \/ UNCHANGED review
  BY DEF ReviewsNext, reviews, Is
<1> QED BY <1>1, <1>2, <1>3, EntriesKept, EntriesStay, LifeKept, LifeStays DEF AgreeInv, Is

LEMMA AgreeRight == AgreeInv => ReviewsAgree
BY ReplayHolds, GatesAgreeHolds, MirrorHolds, SweepHolds, TrailHolds, SimulationHolds
   DEF AgreeInv, ReviewsAgree

(* For any quotes, settings, signals, candles and timeouts: what replay,    *)
(* benchmark and weekly review say the gates did is what they did, a signal *)
(* and its reflection fare alike, and the sweeps and the simulation of a    *)
(* closed position stop, fill and end where the monitor did.                *)
THEOREM ReviewsDoAgree == ReviewsSpec => []ReviewsAgree
<1> QED BY AgreeStart, AgreeKept, AgreeRight, PTL DEF ReviewsSpec
=============================================================================
