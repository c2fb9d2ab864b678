-------------------------- MODULE OrderSyncProofs --------------------------
(***************************************************************************)
(* Proofs about OrderSync, for every set of orders and every order size.   *)
(*                                                                         *)
(* The argument: a report of the exchange may be old when it is applied,   *)
(* but it was true once (Fresh), and exchange orders only advance           *)
(* (Advance).  A row built from such reports claims nothing the exchange    *)
(* does not still grant (Sound), in the ledger and in every working copy a  *)
(* session holds between a load and a commit.                              *)
(***************************************************************************)
EXTENDS OrderSync, TLAPS, SequenceTheorems

-----------------------------------------------------------------------------
(* The strengthening.                                                      *)

Final(x) == x.status \in Terminal

(* x may become y: fills accumulate, and a final order does not change. *)
Advance(x, y) ==
  /\ x.filled <= y.filled
  /\ x.status # "none" => y.status # "none"
  /\ Final(x) => y = x
  /\ y.status = "resting" => x.status \in {"none", "resting"}

(* Report s was true of order x, now or before. *)
Fresh(x, s) ==
  /\ x.status # "none"
  /\ s.filled <= x.filled
  /\ s.status \in Terminal => s.status = x.status /\ s.filled = x.filled

(* Row r claims no more than order x grants. *)
Sound(x, r) ==
  /\ r.status # "none" => x.status # "none" /\ r.xstatus # "none"
  /\ r.status = "none" => r.xstatus = "none"
  /\ r.xstatus \in Terminal => Final(x)
  /\ r.status = "pending" => r.contracts = Size /\ r.xstatus \in {"resting", "partial"}
  /\ r.status = "open" => r.contracts \in 1..x.filled
  /\ r.status = "cancelled" => x.status = "canceled" /\ x.filled = 0
  /\ r.status = "closed" => x.status # "resting"

ExchSound(o) ==
  /\ exch[o].status = "executed" <=> exch[o].filled = Size
  /\ exch[o].status = "none" => exch[o].filled = 0
  /\ settled => exch[o].status # "resting"

SubSound(o) ==
  /\ sub[o].step \in {"new", "rejected"} => exch[o].status = "none"
  /\ sub[o].step # "done" => row[o].status = "none"
  /\ sub[o].step = "replied" => Fresh(exch[o], sub[o].reply)
  /\ sub[o].step = "done" /\ row[o].status = "none" => exch[o].status # "resting"

RecSound(p, o) ==
  rec[p][o].step # "idle" =>
    /\ Sound(exch[o], rec[p][o].work)
    /\ rec[p][o].work.status \in {"pending", "open", "cancelled"}
    /\ rec[p][o].step \in {"get", "cancel"} => Active(rec[p][o].work)
    /\ Active(row[o])
    /\ Phase(row[o].xstatus) <= Phase(rec[p][o].work.xstatus)
    /\ rec[p][o].work.status = "pending" => row[o].status = "pending"

OneLock(o) == \A p, q \in Passes :
  rec[p][o].step # "idle" /\ rec[q][o].step # "idle" => p = q

FxSound(o) ==
  LET f == fx[o] IN
  f.step # "idle" =>
    /\ row[o].status # "none"
    /\ f.loaded.status = "pending" /\ f.loaded.contracts = Size
    /\ f.loaded.xstatus \in {"resting", "partial"}
    /\ f.step = "cancel" => f.work = f.loaded
    /\ f.step \in {"commit", "close"} =>
         /\ exch[o].status = "canceled" /\ f.work.xstatus = "canceled"
         /\ \/ f.step = "commit" /\ f.work.status = "cancelled" /\ exch[o].filled = 0
            \/ f.work.status = "open" /\ f.work.contracts = exch[o].filled /\ exch[o].filled > 0

ResSound(o) == \A c \in Closers :
  res[c][o].step # "idle" => settled /\ row[o].status # "none"

DriftSound(o) ==
  drift[o].on =>
    /\ row[o].status \notin {"none", "pending"}
    /\ exch[o].filled > 0 /\ drift[o].net <= exch[o].filled
    /\ conn = "netted" /\ drift[o].net = 0 => settled

WsSound == \A i \in 1..Len(ws) : Fresh(exch[ws[i].order], ws[i].report)

OrderInv(o) == /\ ExchSound(o) /\ Sound(exch[o], row[o]) /\ SubSound(o)
               /\ \A p \in Passes : RecSound(p, o)
               /\ OneLock(o) /\ FxSound(o) /\ ResSound(o) /\ DriftSound(o)

IInv == /\ TypeOK
        /\ \A o \in Orders : OrderInv(o)
        /\ WsSound

-----------------------------------------------------------------------------
(* Lemmas about the operators.                                             *)

(* A report of exchange order x is a snapshot, fresh. *)
LEMMA ReportFresh ==
  ASSUME NEW x \in ExchOrder, x.status # "none"
  PROVE  Report(x) \in Snapshot /\ Fresh(x, Report(x))
BY PartialLabelAssumption DEF ExchOrder, Snapshot, Report, Fresh, XStatus, Terminal

LEMMA AdvanceFresh ==
  ASSUME NEW x \in ExchOrder, NEW y \in ExchOrder, NEW s \in Snapshot,
         Advance(x, y), Fresh(x, s)
  PROVE  Fresh(y, s)
BY SizeAssumption DEF ExchOrder, Snapshot, Fresh, Advance, Final, Terminal, XStatus

LEMMA AdvanceSound ==
  ASSUME NEW x \in ExchOrder, NEW y \in ExchOrder, NEW r \in Row,
         Advance(x, y), Sound(x, r), x.status = "executed" <=> x.filled = Size
  PROVE  Sound(y, r)
BY SizeAssumption
   DEF ExchOrder, Row, RowStatus, Sound, Advance, Final, Terminal, XStatus

(* exchange_order_status never goes back, whatever the report. *)
LEMMA AcceptRank ==
  ASSUME NEW c \in XStatus, NEW s \in XStatus \ {"none"}
  PROVE  /\ AcceptStatus(c, s) \in {c, s} \ {"none"}
         /\ Phase(c) <= Phase(AcceptStatus(c, s))
         /\ c \in Terminal \/ s \in Terminal <=> AcceptStatus(c, s) \in Terminal
BY DEF AcceptStatus, StatusRank, Phase, XStatus, Terminal

(* Applying a report that was true once keeps a followed row sound. *)
LEMMA ApplySound ==
  ASSUME NEW x \in ExchOrder, x.status = "executed" <=> x.filled = Size,
         NEW r \in Row, NEW s \in Snapshot,
         Sound(x, r), Fresh(x, s), Active(r)
  PROVE  /\ ApplyExchangeState(r, s) \in Row
         /\ Sound(x, ApplyExchangeState(r, s))
         /\ ApplyExchangeState(r, s).status \in {"pending", "open", "cancelled"}
         /\ Phase(r.xstatus) <= Phase(ApplyExchangeState(r, s).xstatus)
         /\ ApplyExchangeState(r, s).status = "pending" => r.status = "pending"
<1> DEFINE a == ApplyExchangeState(r, s)
           m == MapOrderToStatus(s)
<1>1. /\ AcceptStatus(r.xstatus, s.status) \in {r.xstatus, s.status} \ {"none"}
      /\ Phase(r.xstatus) <= Phase(AcceptStatus(r.xstatus, s.status))
      /\ r.xstatus \in Terminal \/ s.status \in Terminal
           <=> AcceptStatus(r.xstatus, s.status) \in Terminal
  BY AcceptRank DEF Row, Snapshot
<1>2. /\ a.xstatus = AcceptStatus(r.xstatus, s.status)
      /\ a.status = IF m.dbStatus = "pending" THEN r.status ELSE m.dbStatus
      /\ a.contracts = IF m.dbStatus = "open" THEN m.contracts ELSE r.contracts
      /\ a.booked = r.booked
  BY DEF ApplyExchangeState, Row
<1>3. a \in Row
  <2>1. a.status \in RowStatus /\ a.booked \in 0..Size
    BY <1>2 DEF MapOrderToStatus, Row, RowStatus
  <2>2. a.contracts \in 0..Size
    BY <1>2, SizeAssumption DEF MapOrderToStatus, Row, Snapshot
  <2>3. a.xstatus \in XStatus
    BY <1>1, <1>2 DEF Row, Snapshot
  <2>. QED BY <2>1, <2>2, <2>3, <1>2 DEF Row, ApplyExchangeState
<1>4. Sound(x, a)
  <2>1. x.status # "none" /\ a.xstatus # "none" /\ a.status # "none" /\ a.status # "closed"
    BY <1>1, <1>2 DEF Fresh, MapOrderToStatus, Active
  <2>2. a.xstatus \in Terminal => Final(x)
    BY <1>1, <1>2 DEF Sound, Fresh, Final, Active
  <2>3. ASSUME a.status = "pending"
        PROVE  a.contracts = Size /\ a.xstatus \in {"resting", "partial"}
    <3>1. r.status = "pending" /\ m.dbStatus = "pending"
      BY <1>2, <2>3 DEF MapOrderToStatus, Active
    <3>2. s.status \in {"resting", "partial"}
      BY <3>1 DEF MapOrderToStatus, Snapshot, XStatus
    <3>. QED BY <1>1, <1>2, <3>1, <3>2 DEF Sound
  <2>4. ASSUME a.status = "open"
        PROVE  a.contracts \in 1..x.filled
    <3>1. CASE m.dbStatus = "open"
      BY <3>1, <1>2, SizeAssumption
         DEF MapOrderToStatus, Fresh, Snapshot, ExchOrder, Terminal
    <3>2. CASE m.dbStatus # "open"
      BY <3>2, <1>2, <2>4 DEF MapOrderToStatus, Sound
    <3>. QED BY <3>1, <3>2
  <2>5. ASSUME a.status = "cancelled"
        PROVE  x.status = "canceled" /\ x.filled = 0
    BY <1>2, <2>5 DEF MapOrderToStatus, Active, Fresh, Snapshot, Terminal
  <2>. QED BY <2>1, <2>2, <2>3, <2>4, <2>5 DEF Sound
<1>5. /\ a.status \in {"pending", "open", "cancelled"}
      /\ a.status = "pending" => r.status = "pending"
  BY <1>2 DEF MapOrderToStatus, Active
<1>. QED BY <1>1, <1>2, <1>3, <1>4, <1>5

(* A row that was loaded and sound stays in Row when it is closed or flushed. *)
LEMMA FlushType ==
  ASSUME NEW d \in Row, NEW l \in Row, NEW w \in Row
  PROVE  Flush(d, l, w) \in Row /\ ClosePosition(l) \in Row
BY DEF Flush, Column, ClosePosition, Row, RowStatus, XStatus

-----------------------------------------------------------------------------
(* What every step does: the exchange advances, and so does the ledger's view. *)

Forward ==
  \A o \in Orders : /\ Advance(exch[o], exch'[o])
                    /\ Phase(row[o].xstatus) <= Phase(row'[o].xstatus)

LEMMA DriftKept ==
  ASSUME IInv, NEW o \in Orders,
         exch'[o] \in ExchOrder, Advance(exch[o], exch'[o]),
         row[o].status \notin {"none", "pending"} => row'[o].status \notin {"none", "pending"},
         drift'[o] \in {drift[o], IdleD}, conn' = "netted" => conn = "netted",
         settled => settled'
  PROVE  DriftSound(o)'
<1>1. exch[o] \in ExchOrder /\ drift[o] \in DriftRow /\ DriftSound(o)
  BY DEF IInv, TypeOK, OrderInv
<1>. QED BY <1>1 DEF DriftSound, DriftRow, ExchOrder, IdleD, Advance

(* An order the step does not move, except that its exchange order may advance *)
(* and its sessions may end.                                                   *)
LEMMA Untouched ==
  ASSUME IInv, TypeOK', NEW o \in Orders,
         Advance(exch[o], exch'[o]), ExchSound(o)',
         exch[o].status = "none" => exch'[o].status = "none",
         row'[o] = row[o], sub'[o] = sub[o],
         \A p \in Passes : rec'[p][o] \in {rec[p][o], IdleR},
         fx'[o] \in {fx[o], IdleF},
         \A c \in Closers : res'[c][o].step # "idle" => res[c][o].step # "idle",
         drift'[o] \in {drift[o], IdleD}, conn' = "netted" => conn = "netted",
         settled => settled'
  PROVE  OrderInv(o)'
<1>0. /\ exch[o] \in ExchOrder /\ exch'[o] \in ExchOrder
      /\ row[o] \in Row /\ sub[o] \in SubState /\ OrderInv(o)
      /\ \A p \in Passes : rec[p][o] \in RecState
  BY DEF IInv, TypeOK
<1>1. Sound(exch[o], row[o])'
  BY <1>0, AdvanceSound DEF OrderInv, ExchSound
<1>2. SubSound(o)'
  <2>1. sub[o].step = "replied" => Fresh(exch'[o], sub[o].reply)
    BY <1>0, AdvanceFresh DEF OrderInv, SubSound, SubState
  <2>. QED BY <1>0, <2>1 DEF OrderInv, SubSound, Advance
<1>3. ASSUME NEW p \in Passes PROVE RecSound(p, o)'
  <2>1. rec[p][o].step # "idle" => Sound(exch'[o], rec[p][o].work)
    BY <1>0, AdvanceSound DEF OrderInv, ExchSound, RecSound, RecState
  <2>. QED BY <1>0, <2>1 DEF OrderInv, RecSound, IdleR
<1>4. OneLock(o)'
  BY <1>0 DEF OrderInv, OneLock, IdleR
<1>5. FxSound(o)'
  BY <1>0 DEF OrderInv, FxSound, IdleF, Advance, Final, Terminal
<1>6. ResSound(o)'
  BY <1>0 DEF OrderInv, ResSound
<1>7. DriftSound(o)'
  BY <1>0, DriftKept
<1>. QED BY <1>1, <1>2, <1>3, <1>4, <1>5, <1>6, <1>7 DEF OrderInv

(* The exchange cancels the resting order o. *)
LEMMA CancelAdvances ==
  ASSUME IInv, NEW o \in Orders, exch[o].status = "resting", CancelOnExchange(o),
         settled' = settled
  PROVE  /\ exch' \in [Orders -> ExchOrder]
         /\ exch'[o].status = "canceled"
         /\ \A q \in Orders : /\ Advance(exch[q], exch'[q])
                              /\ ExchSound(q)'
                              /\ exch[q].status = "none" => exch'[q].status = "none"
                              /\ q # o => exch'[q] = exch[q]
<1>1. /\ exch \in [Orders -> ExchOrder]
      /\ \A q \in Orders : ExchSound(q)
  BY DEF IInv, TypeOK, OrderInv
<1>2. /\ exch'[o] = [status |-> "canceled", filled |-> exch[o].filled]
      /\ \A q \in Orders : q # o => exch'[q] = exch[q]
  BY <1>1 DEF CancelOnExchange, ExchOrder
<1>3. exch' \in [Orders -> ExchOrder]
  BY <1>1 DEF CancelOnExchange, ExchOrder, XStatus
<1>4. ASSUME NEW q \in Orders
      PROVE  /\ Advance(exch[q], exch'[q]) /\ ExchSound(q)'
             /\ exch[q].status = "none" => exch'[q].status = "none"
  BY <1>1, <1>2, SizeAssumption DEF Advance, ExchSound, Final, Terminal, ExchOrder
<1>5. exch'[o].status = "canceled"
  BY <1>2
<1>. QED BY <1>2, <1>3, <1>4, <1>5

LEMMA WsLater ==
  ASSUME IInv, exch' \in [Orders -> ExchOrder], ws' \in {ws, << >>},
         \A q \in Orders : Advance(exch[q], exch'[q])
  PROVE  ws' \in Seq(WsEvent) /\ WsSound'
<1>1. ws \in Seq(WsEvent) /\ exch \in [Orders -> ExchOrder] /\ WsSound
  BY DEF IInv, TypeOK
<1>2. ASSUME NEW i \in 1..Len(ws) PROVE Fresh(exch'[ws[i].order], ws[i].report)
  <2>1. ws[i] \in WsEvent
    BY <1>1
  <2>. QED BY <1>1, <2>1, AdvanceFresh DEF WsSound, WsEvent
<1>3. CASE ws' = ws
  BY <1>3, <1>1, <1>2 DEF WsSound
<1>4. CASE ws' = << >>
  BY <1>4 DEF WsSound
<1>. QED BY <1>3, <1>4

(* The announcement of a change of order o is fresh when it is sent. *)
LEMMA AnnounceSound ==
  ASSUME IInv, exch' \in [Orders -> ExchOrder], NEW o \in Orders,
         exch'[o].status # "none", Announce(o),
         \A q \in Orders : Advance(exch[q], exch'[q])
  PROVE  ws' \in Seq(WsEvent) /\ WsSound'
<1>1. CASE ws' = ws
  BY <1>1, WsLater
<1>2. CASE ws' = Append(ws, [order |-> o, report |-> Report(exch'[o])])
  <2> DEFINE e == [order |-> o, report |-> Report(exch'[o])]
  <2>1. ws \in Seq(WsEvent) /\ exch \in [Orders -> ExchOrder] /\ WsSound
    BY DEF IInv, TypeOK
  <2>2. e \in WsEvent /\ Fresh(exch'[o], Report(exch'[o]))
    BY ReportFresh DEF WsEvent
  <2>3. ws' \in Seq(WsEvent)
    BY <1>2, <2>1, <2>2
  <2>4. ASSUME NEW i \in 1..Len(ws') PROVE Fresh(exch'[ws'[i].order], ws'[i].report)
    <3>1. CASE i = Len(ws) + 1
      BY <3>1, <1>2, <2>1, <2>2
    <3>2. CASE i \in 1..Len(ws)
      <4>1. ws'[i] = ws[i] /\ ws[i] \in WsEvent
        BY <3>2, <1>2, <2>1
      <4>. QED BY <3>2, <4>1, <2>1, AdvanceFresh DEF WsSound, WsEvent
    <3>. QED BY <3>1, <3>2, <1>2, <2>1
  <2>. QED BY <2>3, <2>4 DEF WsSound
<1>. QED BY <1>1, <1>2 DEF Announce

LEMMA FillStep ==
  ASSUME IInv, NEW o \in Orders, Fill(o)
  PROVE  IInv' /\ Forward
<1>1. /\ exch \in [Orders -> ExchOrder] /\ exch[o].status = "resting"
      /\ \A q \in Orders : ExchSound(q)
  BY DEF IInv, TypeOK, OrderInv, Fill
<1>2. PICK n \in {exch[o].filled + 1, Size} :
        exch' = [exch EXCEPT ![o] =
                   [status |-> IF n = Size THEN "executed" ELSE "resting", filled |-> n]]
  BY DEF Fill
<1>3. n \in 1..Size /\ exch[o].filled < n
  BY <1>1, SizeAssumption DEF ExchSound, ExchOrder
<1>4. exch' \in [Orders -> ExchOrder]
  BY <1>1, <1>2, <1>3 DEF ExchOrder, XStatus
<1>5. ASSUME NEW q \in Orders
      PROVE  /\ Advance(exch[q], exch'[q]) /\ ExchSound(q)'
             /\ exch[q].status = "none" => exch'[q].status = "none"
  <2>1. settled' = settled
    BY DEF Fill
  <2>. QED BY <1>1, <1>2, <1>3, <2>1, SizeAssumption
           DEF Advance, ExchSound, Final, Terminal, ExchOrder
<1>6. ws' \in Seq(WsEvent) /\ WsSound'
  BY <1>1, <1>2, <1>4, <1>5, AnnounceSound DEF Fill
<1>7. TypeOK'
  BY <1>4, <1>6 DEF Fill, IInv, TypeOK, ledgerVars, wsVars, taskVars
<1>8. \A q \in Orders : OrderInv(q)'
  BY <1>5, <1>7, Untouched DEF Fill, ledgerVars, wsVars, taskVars
<1>9. Forward
  BY <1>5 DEF Fill, Forward, ledgerVars, Phase
<1>. QED BY <1>6, <1>7, <1>8, <1>9 DEF IInv

LEMMA MarketResolvesStep ==
  ASSUME IInv, MarketResolves
  PROVE  IInv' /\ Forward
<1>1. /\ exch \in [Orders -> ExchOrder]
      /\ \A q \in Orders : ExchSound(q)
  BY DEF IInv, TypeOK, OrderInv
<1>2. exch' = [o \in Orders |-> IF exch[o].status = "resting"
                                THEN [exch[o] EXCEPT !.status = "canceled"] ELSE exch[o]]
  BY DEF MarketResolves
<1>3. exch' \in [Orders -> ExchOrder]
  BY <1>1, <1>2 DEF ExchOrder, XStatus
<1>4. ASSUME NEW q \in Orders
      PROVE  /\ Advance(exch[q], exch'[q]) /\ ExchSound(q)'
             /\ exch[q].status = "none" => exch'[q].status = "none"
  BY <1>1, <1>2, SizeAssumption DEF Advance, ExchSound, Final, Terminal, ExchOrder
<1>5. ws' \in Seq(WsEvent) /\ WsSound'
  BY <1>3, <1>4, WsLater DEF MarketResolves, wsVars
<1>6. TypeOK'
  BY <1>3, <1>5 DEF MarketResolves, IInv, TypeOK, ledgerVars, wsVars, taskVars
<1>7. \A q \in Orders : OrderInv(q)'
  BY <1>4, <1>6, Untouched DEF MarketResolves, ledgerVars, wsVars, taskVars
<1>8. Forward
  BY <1>4 DEF MarketResolves, Forward, ledgerVars, Phase
<1>. QED BY <1>5, <1>6, <1>7, <1>8 DEF IInv

(* A step that leaves the exchange, the settlement and the events alone. *)
LEMMA ExchangeQuiet ==
  ASSUME IInv, exch' = exch, settled' = settled, ws' \in {ws, << >>}
  PROVE  /\ ws' \in Seq(WsEvent) /\ WsSound'
         /\ exch' \in [Orders -> ExchOrder]
         /\ \A q \in Orders : Advance(exch[q], exch'[q]) /\ ExchSound(q)'
<1>1. exch \in [Orders -> ExchOrder] /\ \A q \in Orders : ExchSound(q)
  BY DEF IInv, TypeOK, OrderInv
<1>2. \A q \in Orders : Advance(exch[q], exch'[q]) /\ ExchSound(q)'
  BY <1>1 DEF Advance, ExchOrder, ExchSound
<1>. QED BY <1>1, <1>2, WsLater

LEMMA RowAgesStep ==
  ASSUME IInv, NEW o \in Orders, RowAges(o)
  PROVE  IInv' /\ Forward
<1>1. TypeOK'
  BY DEF RowAges, IInv, TypeOK, wsVars, taskVars
<1>2. \A q \in Orders : OrderInv(q)'
  BY <1>1, ExchangeQuiet, Untouched DEF RowAges, wsVars, taskVars
<1>3. Forward
  BY ExchangeQuiet DEF RowAges, wsVars, Forward, Phase
<1>. QED BY <1>1, <1>2, <1>3, ExchangeQuiet DEF IInv, RowAges, wsVars

LEMMA PlaceOrderStep ==
  ASSUME IInv, NEW o \in Orders, PlaceOrder(o)
  PROVE  IInv' /\ Forward
<1>1. /\ exch \in [Orders -> ExchOrder] /\ sub \in [Orders -> SubState]
      /\ sub[o].step = "new" /\ ~settled /\ OrderInv(o)
      /\ exch[o] = [status |-> "none", filled |-> 0] /\ row[o].status = "none"
  <2>1. /\ exch \in [Orders -> ExchOrder] /\ sub \in [Orders -> SubState]
        /\ sub[o].step = "new" /\ ~settled /\ OrderInv(o)
    BY DEF IInv, TypeOK, PlaceOrder
  <2>. QED BY <2>1 DEF OrderInv, SubSound, ExchSound, ExchOrder
<1>2. CASE exch' = exch /\ sub' = [sub EXCEPT ![o].step = "rejected"]
  <2>1. TypeOK'
    BY <1>2 DEF PlaceOrder, IInv, TypeOK, SubState, ledgerVars, wsVars
  <2>2. ASSUME NEW q \in Orders PROVE OrderInv(q)'
    <3>1. CASE q = o
      <4>1. SubSound(o)'
        BY <1>1, <1>2 DEF PlaceOrder, SubSound, ledgerVars, SubState
      <4>. QED BY <3>1, <4>1, <1>1, <1>2
               DEF PlaceOrder, OrderInv, ledgerVars, wsVars, ExchSound, RecSound, OneLock,
                   FxSound, ResSound, DriftSound
    <3>2. CASE q # o
      <4>1. sub'[q] = sub[q]
        BY <1>1, <1>2, <3>2
      <4>. QED BY <1>2, <2>1, <4>1, ExchangeQuiet, Untouched DEF PlaceOrder, ledgerVars, wsVars
    <3>. QED BY <3>1, <3>2
  <2>3. Forward
    BY <1>2, ExchangeQuiet DEF PlaceOrder, Forward, ledgerVars, wsVars, Phase
  <2>. QED BY <1>2, <2>1, <2>2, <2>3, ExchangeQuiet DEF IInv, PlaceOrder, wsVars
<1>3. CASE \E n \in 0..Size :
        /\ exch' = [exch EXCEPT ![o] =
                      [status |-> IF n = Size THEN "executed" ELSE "resting", filled |-> n]]
        /\ \/ sub' = [sub EXCEPT ![o] = [step |-> "replied", reply |-> exch'[o]]]
           \/ sub' = [sub EXCEPT ![o].step = "lost"]
  <2>1. PICK n \in 0..Size :
        /\ exch' = [exch EXCEPT ![o] =
                      [status |-> IF n = Size THEN "executed" ELSE "resting", filled |-> n]]
        /\ \/ sub' = [sub EXCEPT ![o] = [step |-> "replied", reply |-> exch'[o]]]
           \/ sub' = [sub EXCEPT ![o].step = "lost"]
    BY <1>3
  <2>2. /\ exch'[o] = [status |-> IF n = Size THEN "executed" ELSE "resting", filled |-> n]
        /\ \A q \in Orders : q # o => exch'[q] = exch[q] /\ sub'[q] = sub[q]
        /\ sub'[o] \in {[step |-> "replied", reply |-> exch'[o]],
                        [step |-> "lost", reply |-> sub[o].reply]}
    BY <1>1, <2>1 DEF SubState
  <2>3. exch'[o] \in ExchOrder /\ exch'[o] \in Snapshot /\ Fresh(exch'[o], exch'[o])
    BY <2>2, SizeAssumption DEF ExchOrder, Snapshot, XStatus, Fresh
  <2>4. exch' \in [Orders -> ExchOrder] /\ sub' \in [Orders -> SubState]
    <3>1. sub'[o] \in SubState
      BY <1>1, <2>2, <2>3 DEF SubState
    <3>2. /\ exch' = [exch EXCEPT ![o] = exch'[o]]
          /\ sub' = [sub EXCEPT ![o] = sub'[o]]
      BY <1>1, <2>1 DEF SubState
    <3>. QED BY <1>1, <2>3, <3>1, <3>2
  <2>5. ASSUME NEW q \in Orders PROVE Advance(exch[q], exch'[q]) /\ ExchSound(q)'
    <3>0. settled' = settled /\ exch[q] \in ExchOrder /\ ExchSound(q)
      BY <1>1 DEF PlaceOrder, IInv, OrderInv
    <3>1. CASE q = o
      BY <1>1, <2>2, <3>0, <3>1, SizeAssumption DEF Advance, ExchSound, Final, Terminal
    <3>2. CASE q # o
      BY <1>1, <2>2, <3>0, <3>2 DEF Advance, ExchSound, ExchOrder
    <3>. QED BY <3>1, <3>2
  <2>6. ws' \in Seq(WsEvent) /\ WsSound'
    BY <2>4, <2>5, WsLater DEF PlaceOrder, wsVars
  <2>7. TypeOK'
    BY <2>4, <2>6 DEF PlaceOrder, IInv, TypeOK, ledgerVars, wsVars
  <2>8. ASSUME NEW q \in Orders PROVE OrderInv(q)'
    <3>1. CASE q = o
      <4>0. /\ row'[o] = row[o] /\ rec' = rec /\ fx'[o] = fx[o]
            /\ row[o] \in Row /\ drift' = drift /\ res' = res
        BY DEF PlaceOrder, ledgerVars, wsVars, IInv, TypeOK
      <4>1. SubSound(o)'
        BY <1>1, <2>2, <2>3, <4>0 DEF SubSound
      <4>2. Sound(exch[o], row[o])'
        BY <1>1, <4>0 DEF Sound, OrderInv, Terminal
      <4>3. \A p \in Passes : rec[p][o].step = "idle"
        BY <1>1 DEF OrderInv, RecSound, Active
      <4>4. /\ fx[o].step = "idle" /\ ~drift[o].on
            /\ \A c \in Closers : res[c][o].step = "idle"
        BY <1>1 DEF OrderInv, FxSound, ResSound, DriftSound
      <4>. QED BY <3>1, <4>0, <4>1, <4>2, <4>3, <4>4, <2>5
               DEF OrderInv, RecSound, OneLock, FxSound, ResSound, DriftSound
    <3>2. CASE q # o
      BY <2>2, <2>5, <2>7, <3>2, Untouched DEF PlaceOrder, ledgerVars, wsVars
    <3>. QED BY <3>1, <3>2
  <2>9. Forward
    BY <2>5 DEF PlaceOrder, Forward, ledgerVars, Phase
  <2>. QED BY <2>6, <2>7, <2>8, <2>9 DEF IInv
<1>. QED BY <1>2, <1>3 DEF PlaceOrder

LEMMA InsertRowStep ==
  ASSUME IInv, NEW o \in Orders, InsertRow(o)
  PROVE  IInv' /\ Forward
<1>1. /\ exch \in [Orders -> ExchOrder] /\ sub \in [Orders -> SubState]
      /\ row \in [Orders -> Row] /\ sub[o].step = "replied" /\ OrderInv(o)
  BY DEF IInv, TypeOK, InsertRow
<1>2. row[o].status = "none" /\ row[o].xstatus = "none" /\ Fresh(exch[o], sub[o].reply)
  BY <1>1 DEF OrderInv, SubSound, Sound
<1>3. /\ \A p \in Passes : rec[p][o].step = "idle"
      /\ \A c \in Closers : res[c][o].step = "idle"
      /\ fx[o].step = "idle" /\ ~drift[o].on
  BY <1>1, <1>2 DEF OrderInv, RecSound, FxSound, ResSound, DriftSound, Active
<1>4. PICK b \in {"done", "orphan"} :
        /\ sub' = [sub EXCEPT ![o] = [step |-> b, reply |-> Blank]]
        /\ b = "orphan" => row' = row
        /\ b = "done" => \E n \in 0..exch[o].filled :
             row' = [row EXCEPT ![o] = InsertedRow(sub[o].reply, n)]
  BY DEF InsertRow
<1>5. CASE b = "orphan"
  <2>1. row' = row /\ sub'[o].step = "orphan" /\ \A q \in Orders : q # o => sub'[q] = sub[q]
    BY <1>1, <1>4, <1>5
  <2>2. TypeOK'
    BY <1>4, <1>5, <2>1, SizeAssumption
       DEF InsertRow, wsVars, IInv, TypeOK, SubState, Blank, Snapshot, XStatus
  <2>3. ASSUME NEW q \in Orders PROVE OrderInv(q)'
    <3>1. CASE q = o
      BY <3>1, <1>1, <1>2, <1>3, <2>1
         DEF InsertRow, wsVars, OrderInv, ExchSound, SubSound, RecSound, OneLock, FxSound,
             ResSound, DriftSound
    <3>2. CASE q # o
      BY <3>2, <2>1, <2>2, ExchangeQuiet, Untouched DEF InsertRow, wsVars
    <3>. QED BY <3>1, <3>2
  <2>4. Forward
    BY <2>1, ExchangeQuiet DEF InsertRow, wsVars, Forward, Phase
  <2>. QED BY <2>2, <2>3, <2>4, ExchangeQuiet DEF InsertRow, wsVars, IInv
<1>6. CASE b = "done"
  <2>1. PICK n \in 0..exch[o].filled :
          row' = [row EXCEPT ![o] = InsertedRow(sub[o].reply, n)]
    BY <1>4, <1>6
  <2> DEFINE s == sub[o].reply
             r == InsertedRow(s, n)
  <2>2. s \in Snapshot /\ exch[o] \in ExchOrder /\ ExchSound(o)
    BY <1>1 DEF SubState, OrderInv
  <2>3. r \in Row /\ r.status # "none" /\ r.status # "closed"
    BY <2>1, <2>2, SizeAssumption
       DEF InsertedRow, MapOrderToStatus, Row, RowStatus, Snapshot, XStatus, ExchOrder
  <2>4. Sound(exch[o], r)
    BY <1>2, <2>1, <2>2, SizeAssumption
       DEF InsertedRow, MapOrderToStatus, Sound, Fresh, Final, Terminal, Snapshot, XStatus,
           ExchOrder, ExchSound
  <2>5. /\ row'[o] = r /\ sub'[o].step = "done"
        /\ \A q \in Orders : q # o => row'[q] = row[q] /\ sub'[q] = sub[q]
    BY <1>1, <1>4, <1>6, <2>1
  <2>6. TypeOK'
    <3>1. sub' \in [Orders -> SubState]
      BY <1>1, <1>4, <1>6, SizeAssumption DEF SubState, Blank, Snapshot, XStatus
    <3>2. row' \in [Orders -> Row]
      BY <1>1, <2>1, <2>3
    <3>. QED BY <3>1, <3>2 DEF InsertRow, wsVars, IInv, TypeOK
  <2>7. ASSUME NEW q \in Orders PROVE OrderInv(q)'
    <3>1. CASE q = o
      BY <3>1, <1>1, <1>3, <2>3, <2>4, <2>5
         DEF InsertRow, wsVars, OrderInv, ExchSound, SubSound, RecSound, OneLock, FxSound,
             ResSound, DriftSound
    <3>2. CASE q # o
      BY <3>2, <2>5, <2>6, ExchangeQuiet, Untouched DEF InsertRow, wsVars
    <3>. QED BY <3>1, <3>2
  <2>8. Forward
    <3>1. Phase(row[o].xstatus) <= Phase(row'[o].xstatus)
      BY <1>2 DEF Phase
    <3>. QED BY <2>5, <3>1, ExchangeQuiet DEF InsertRow, wsVars, Forward, Phase
  <2>. QED BY <2>6, <2>7, <2>8, ExchangeQuiet DEF InsertRow, wsVars, IInv
<1>. QED BY <1>4, <1>5, <1>6

LEMMA CancelOrphanStep ==
  ASSUME IInv, NEW o \in Orders, CancelOrphan(o)
  PROVE  IInv' /\ Forward
<1>1. /\ exch \in [Orders -> ExchOrder] /\ sub \in [Orders -> SubState]
      /\ sub[o].step = "orphan" /\ OrderInv(o) /\ row[o].status = "none"
  BY DEF IInv, TypeOK, CancelOrphan, OrderInv, SubSound
<1>2. PICK b \in {"done", "lost"} :
        /\ sub' = [sub EXCEPT ![o].step = b]
        /\ b = "lost" => exch' = exch
        /\ b = "done" => exch[o].status = "resting" /\ CancelOnExchange(o)
  BY DEF CancelOrphan
<1>3. /\ exch' \in [Orders -> ExchOrder]
      /\ \A q \in Orders : /\ Advance(exch[q], exch'[q]) /\ ExchSound(q)'
                           /\ exch[q].status = "none" => exch'[q].status = "none"
      /\ b = "done" => exch'[o].status = "canceled"
  <2>1. CASE b = "lost"
    BY <1>2, <2>1, ExchangeQuiet DEF CancelOrphan, wsVars
  <2>2. CASE b = "done"
    <3>1. exch[o].status = "resting" /\ CancelOnExchange(o) /\ settled' = settled
      BY <1>2, <2>2 DEF CancelOrphan
    <3>. QED BY <3>1, CancelAdvances
  <2>. QED BY <2>1, <2>2
<1>4. sub'[o].step = b /\ \A q \in Orders : q # o => sub'[q] = sub[q]
  BY <1>1, <1>2 DEF SubState
<1>5. ws' \in Seq(WsEvent) /\ WsSound'
  BY <1>3, WsLater DEF CancelOrphan, wsVars
<1>6. TypeOK'
  <2>1. sub' \in [Orders -> SubState]
    BY <1>1, <1>2 DEF SubState
  <2>. QED BY <1>3, <1>5, <2>1 DEF CancelOrphan, IInv, TypeOK, ledgerVars, wsVars
<1>7. ASSUME NEW q \in Orders PROVE OrderInv(q)'
  <2>1. CASE q = o
    <3>1. Sound(exch[o], row[o])'
      BY <1>1, <1>3, AdvanceSound DEF CancelOrphan, ledgerVars, OrderInv, ExchSound, IInv, TypeOK
    <3>2. SubSound(o)'
      BY <1>1, <1>3, <1>4 DEF CancelOrphan, ledgerVars, SubSound
    <3>. QED BY <2>1, <3>1, <3>2, <1>1, <1>3
             DEF CancelOrphan, ledgerVars, wsVars, OrderInv, RecSound, OneLock, FxSound,
                 ResSound, DriftSound, Active
  <2>2. CASE q # o
    BY <2>2, <1>3, <1>4, <1>6, Untouched DEF CancelOrphan, ledgerVars, wsVars
  <2>. QED BY <2>1, <2>2
<1>8. Forward
  BY <1>3 DEF CancelOrphan, Forward, ledgerVars, Phase
<1>. QED BY <1>5, <1>6, <1>7, <1>8 DEF IInv

-----------------------------------------------------------------------------
(* The reconcile passes.                                                   *)

LEMMA RecSelectStep ==
  ASSUME IInv, NEW p \in Passes, RecSelect(p)
  PROVE  IInv' /\ Forward
<1>1. /\ rec \in [Passes -> [Orders -> RecState]] /\ row \in [Orders -> Row]
      /\ exch \in [Orders -> ExchOrder]
  BY DEF IInv, TypeOK
<1>2. rec' = [rec EXCEPT ![p] = [o \in Orders |->
                IF o \in Selected(p) THEN [step |-> "get", work |-> row[o]] ELSE IdleR]]
  BY DEF RecSelect
<1>3. rec' \in [Passes -> [Orders -> RecState]]
  <2>1. NoRow \in Row
    BY SizeAssumption DEF NoRow, Row, RowStatus, XStatus
  <2>2. \A o \in Orders : (IF o \in Selected(p) THEN [step |-> "get", work |-> row[o]]
                                                ELSE IdleR) \in RecState
    BY <1>1, <2>1 DEF RecState, IdleR
  <2>. QED BY <1>1, <1>2, <2>2
<1>4. TypeOK'
  BY <1>3 DEF RecSelect, IInv, TypeOK, ledgerVars, wsVars
<1>5. ASSUME NEW o \in Orders PROVE OrderInv(o)'
  <2>1. \A q \in Passes : q # p => rec'[q] = rec[q]
    BY <1>1, <1>2
  <2>2. CASE o \in Selected(p)
    <3>1. rec'[p][o] = [step |-> "get", work |-> row[o]]
      BY <1>1, <1>2, <2>2
    <3>2. \A q \in Passes : q # p => rec'[q][o].step = "idle"
      BY <2>1, <2>2 DEF Selected, Locked
    <3>3. Active(row[o]) /\ OrderInv(o) /\ row[o] \in Row
      BY <1>1, <2>2 DEF Selected, Reconcilable, Active, IInv
    <3>4. \A q \in Passes : RecSound(q, o)'
      <4>1. Phase(row[o].xstatus) <= Phase(row[o].xstatus)
        BY DEF Phase
      <4>. QED BY <3>1, <3>2, <3>3, <4>1 DEF RecSelect, ledgerVars, RecSound, OrderInv, Active
    <3>5. OneLock(o)'
      BY <3>2 DEF OneLock
    <3>. QED BY <3>3, <3>4, <3>5
             DEF RecSelect, ledgerVars, wsVars, OrderInv, ExchSound, SubSound, FxSound,
                 ResSound, DriftSound
  <2>3. CASE o \notin Selected(p)
    <3>1. rec'[p][o] = IdleR
      BY <1>1, <1>2, <2>3
    <3>. QED BY <1>4, <2>1, <3>1, ExchangeQuiet, Untouched DEF RecSelect, ledgerVars, wsVars
  <2>. QED BY <2>2, <2>3
<1>6. Forward
  BY ExchangeQuiet DEF RecSelect, Forward, ledgerVars, wsVars, Phase
<1>. QED BY <1>4, <1>5, <1>6, ExchangeQuiet DEF RecSelect, wsVars, IInv

(* A step of a pass on one row, which moves only that row's working copy and, *)
(* perhaps, cancels its order.                                               *)
LEMMA PassRowMoves ==
  ASSUME IInv, NEW p \in Passes, NEW o \in Orders, NEW r \in RecState,
         rec[p][o].step # "idle", r.step \in {"cancel", "done", "skipped"},
         rec' = [rec EXCEPT ![p][o] = r],
         exch' \in [Orders -> ExchOrder],
         \A q \in Orders : /\ Advance(exch[q], exch'[q]) /\ ExchSound(q)'
                           /\ exch[q].status = "none" => exch'[q].status = "none",
         ws' \in Seq(WsEvent), WsSound',
         Sound(exch'[o], r.work), r.work.status \in {"pending", "open", "cancelled"},
         r.step = "cancel" => Active(r.work),
         Phase(rec[p][o].work.xstatus) <= Phase(r.work.xstatus),
         r.work.status = "pending" => rec[p][o].work.status = "pending",
         UNCHANGED <<ledgerVars, settled, sub, conn, drift, fx, res>>
  PROVE  IInv' /\ Forward
<1>1. /\ rec \in [Passes -> [Orders -> RecState]] /\ row \in [Orders -> Row]
      /\ exch \in [Orders -> ExchOrder] /\ OrderInv(o)
  BY DEF IInv, TypeOK
<1>2. /\ rec'[p][o] = r
      /\ \A q \in Passes, k \in Orders : q # p \/ k # o => rec'[q][k] = rec[q][k]
  BY <1>1
<1>3. rec' \in [Passes -> [Orders -> RecState]]
  BY <1>1
<1>4. TypeOK'
  BY <1>3 DEF IInv, TypeOK, ledgerVars
<1>5. \A q \in Passes : q # p => rec[q][o].step = "idle"
  BY <1>1 DEF OrderInv, OneLock
<1>6. ASSUME NEW k \in Orders PROVE OrderInv(k)'
  <2>1. CASE k = o
    <3>1. /\ Sound(exch[o], row[o])' /\ SubSound(o)' /\ FxSound(o)' /\ ResSound(o)'
      <4>1. Sound(exch[o], row[o])'
        BY <1>1, AdvanceSound DEF ledgerVars, OrderInv, ExchSound
      <4>2. Active(row[o])
        BY <1>1 DEF OrderInv, RecSound
      <4>3. SubSound(o)'
        BY <1>1, <4>2 DEF ledgerVars, OrderInv, SubSound, Active, IInv, TypeOK
      <4>4. FxSound(o)'
        BY <1>1 DEF ledgerVars, OrderInv, FxSound, Advance, Final, Terminal
      <4>. QED BY <1>1, <4>1, <4>3, <4>4 DEF ledgerVars, OrderInv, ResSound
    <3>5. DriftSound(o)'
      BY <1>1, DriftKept DEF ledgerVars
    <3>2. RecSound(p, o)'
      <4>1. /\ Active(row[o]) /\ rec[p][o].work \in Row /\ r.work \in Row
            /\ row[o] \in Row /\ Phase(row[o].xstatus) <= Phase(rec[p][o].work.xstatus)
            /\ rec[p][o].work.status = "pending" => row[o].status = "pending"
        BY <1>1 DEF OrderInv, RecSound, RecState
      <4>2. Phase(row[o].xstatus) <= Phase(r.work.xstatus)
        BY <4>1 DEF Phase
      <4>. QED BY <1>2, <4>1, <4>2 DEF ledgerVars, RecSound, Active
    <3>3. \A q \in Passes : RecSound(q, o)'
      BY <1>2, <1>5, <3>2 DEF RecSound
    <3>4. OneLock(o)'
      BY <1>2, <1>5 DEF OneLock
    <3>. QED BY <2>1, <3>1, <3>3, <3>4, <3>5 DEF OrderInv
  <2>2. CASE k # o
    BY <2>2, <1>2, <1>4, Untouched DEF ledgerVars
  <2>. QED BY <2>1, <2>2
<1>7. Forward
  BY DEF Forward, ledgerVars, Phase
<1>. QED BY <1>4, <1>6, <1>7 DEF IInv

(* What a report of order x makes of the working copy of a followed row. *)
LEMMA ReportApplied ==
  ASSUME NEW x \in ExchOrder, x.status = "executed" <=> x.filled = Size,
         NEW r \in Row, Sound(x, r), Active(r)
  PROVE  LET a == ApplyExchangeState(r, Report(x)) IN
         /\ a \in Row /\ Sound(x, a) /\ a.status \in {"pending", "open", "cancelled"}
         /\ Phase(r.xstatus) <= Phase(a.xstatus)
         /\ a.status = "pending" => r.status = "pending"
<1>1. x.status # "none"
  BY DEF Sound, Active
<1>. QED BY <1>1, ReportFresh, ApplySound

LEMMA RecGetStep ==
  ASSUME IInv, NEW p \in Passes, NEW o \in Orders, RecGet(p, o)
  PROVE  IInv' /\ Forward
<1> DEFINE a == ApplyExchangeState(rec[p][o].work, Report(exch[o]))
           r == [step |-> IF TimedOut(o, a) THEN "cancel" ELSE "done", work |-> a]
<1>1. /\ rec[p][o] \in RecState /\ exch[o] \in ExchOrder /\ rec[p][o].step = "get"
      /\ ExchSound(o) /\ Sound(exch[o], rec[p][o].work) /\ Active(rec[p][o].work)
  BY DEF IInv, TypeOK, OrderInv, RecSound, RecGet
<1>2. /\ a \in Row /\ Sound(exch[o], a) /\ a.status \in {"pending", "open", "cancelled"}
      /\ Phase(rec[p][o].work.xstatus) <= Phase(a.xstatus)
      /\ a.status = "pending" => rec[p][o].work.status = "pending"
  BY <1>1, ReportApplied DEF ExchSound, RecState
<1>3. r \in RecState /\ (r.step = "cancel" => Active(r.work))
  BY <1>2 DEF RecState, TimedOut, Reconcilable, Active
<1>4. rec' = [rec EXCEPT ![p][o] = r] /\ exch' = exch /\ ws' = ws /\ settled' = settled
  BY DEF RecGet, wsVars
<1>5. UNCHANGED <<ledgerVars, settled, sub, conn, drift, fx, res>>
  BY DEF RecGet, wsVars
<1>6. \A q \in Orders : exch[q].status = "none" => exch'[q].status = "none"
  BY <1>4
<1>7. r.step \in {"cancel", "done", "skipped"} /\ r.work = a /\ exch'[o] = exch[o]
  BY <1>4
<1> HIDE DEF r, a
<1>. QED BY <1>1, <1>2, <1>3, <1>4, <1>5, <1>6, <1>7, ExchangeQuiet, PassRowMoves

LEMMA RecGetFailsStep ==
  ASSUME IInv, NEW p \in Passes, NEW o \in Orders, RecGetFails(p, o)
  PROVE  IInv' /\ Forward
<1> DEFINE r == [step |-> "skipped", work |-> rec[p][o].work]
<1>1. /\ rec[p][o] \in RecState /\ rec[p][o].step = "get"
      /\ Sound(exch[o], r.work) /\ r.work.status \in {"pending", "open", "cancelled"}
  BY DEF IInv, TypeOK, OrderInv, RecSound, RecGetFails
<1>2. /\ r \in RecState /\ Phase(rec[p][o].work.xstatus) <= Phase(r.work.xstatus)
      /\ r.step = "skipped" /\ r.work = rec[p][o].work
  BY <1>1 DEF RecState, Phase
<1>3. rec' = [rec EXCEPT ![p][o] = r] /\ exch' = exch /\ ws' = ws /\ settled' = settled
  BY DEF RecGetFails, wsVars
<1>4. UNCHANGED <<ledgerVars, settled, sub, conn, drift, fx, res>>
  BY DEF RecGetFails, wsVars
<1> HIDE DEF r
<1>. QED BY <1>1, <1>2, <1>3, <1>4, ExchangeQuiet, PassRowMoves

LEMMA RecCancelStep ==
  ASSUME IInv, NEW p \in Passes, NEW o \in Orders, RecCancel(p, o)
  PROVE  IInv' /\ Forward
<1> DEFINE w == rec[p][o].work
           a == ApplyExchangeState(w, Report(exch'[o]))
           r == [step |-> "done", work |-> a]
<1>1. /\ rec[p][o] \in RecState /\ exch[o] \in ExchOrder /\ rec[p][o].step = "cancel"
      /\ ExchSound(o) /\ Sound(exch[o], w) /\ Active(w)
  BY DEF IInv, TypeOK, OrderInv, RecSound, RecCancel
<1>2. exch[o].status = "resting" /\ CancelOnExchange(o) /\ settled' = settled
  BY DEF RecCancel
<1>3. /\ exch' \in [Orders -> ExchOrder] /\ exch'[o].status = "canceled"
      /\ \A q \in Orders : /\ Advance(exch[q], exch'[q]) /\ ExchSound(q)'
                           /\ exch[q].status = "none" => exch'[q].status = "none"
  BY <1>2, CancelAdvances
<1>4. ws' \in Seq(WsEvent) /\ WsSound'
  BY <1>3, AnnounceSound DEF RecCancel
<1>5. Sound(exch'[o], w)
  BY <1>1, <1>3, AdvanceSound DEF RecState, ExchSound
<1>6. /\ a \in Row /\ Sound(exch'[o], a) /\ a.status \in {"pending", "open", "cancelled"}
      /\ Phase(w.xstatus) <= Phase(a.xstatus)
      /\ a.status = "pending" => w.status = "pending"
  BY <1>1, <1>3, <1>5, ReportApplied DEF ExchSound, RecState
<1>7. /\ r \in RecState /\ r.step = "done" /\ r.work = a
      /\ rec' = [rec EXCEPT ![p][o] = r]
  BY <1>6 DEF RecState, RecCancel
<1>8. UNCHANGED <<ledgerVars, settled, sub, conn, drift, fx, res>>
  BY DEF RecCancel
<1>9. rec[p][o].step # "idle" /\ r.step \in {"cancel", "done", "skipped"} /\ r.step # "cancel"
  BY <1>1, <1>7
<1> HIDE DEF r, a
<1>. QED BY <1>3, <1>4, <1>6, <1>7, <1>8, <1>9, PassRowMoves

LEMMA RecCancelFailsStep ==
  ASSUME IInv, NEW p \in Passes, NEW o \in Orders, RecCancelFails(p, o)
  PROVE  IInv' /\ Forward
<1> DEFINE w == rec[p][o].work
           r == [step |-> "skipped", work |-> w]
<1>1. /\ rec[p][o] \in RecState /\ exch[o] \in ExchOrder /\ rec[p][o].step = "cancel"
      /\ ExchSound(o) /\ Sound(exch[o], w) /\ w.status \in {"pending", "open", "cancelled"}
  BY DEF IInv, TypeOK, OrderInv, RecSound, RecCancelFails
<1>2. /\ exch' \in [Orders -> ExchOrder]
      /\ \A q \in Orders : /\ Advance(exch[q], exch'[q]) /\ ExchSound(q)'
                           /\ exch[q].status = "none" => exch'[q].status = "none"
      /\ ws' \in Seq(WsEvent) /\ WsSound'
  <2>1. CASE exch' = exch /\ ws' = ws
    BY <2>1, ExchangeQuiet DEF RecCancelFails
  <2>2. CASE exch[o].status = "resting" /\ CancelOnExchange(o) /\ Announce(o)
    <3>1. settled' = settled
      BY DEF RecCancelFails
    <3>2. exch'[o].status = "canceled" /\ exch' \in [Orders -> ExchOrder]
      BY <2>2, <3>1, CancelAdvances
    <3>3. \A q \in Orders : /\ Advance(exch[q], exch'[q]) /\ ExchSound(q)'
                            /\ exch[q].status = "none" => exch'[q].status = "none"
      BY <2>2, <3>1, CancelAdvances
    <3>. QED BY <2>2, <3>2, <3>3, AnnounceSound
  <2>. QED BY <2>1, <2>2 DEF RecCancelFails
<1>3. Sound(exch'[o], w)
  BY <1>1, <1>2, AdvanceSound DEF RecState, ExchSound
<1>4. /\ r \in RecState /\ r.step = "skipped" /\ r.work = w
      /\ rec' = [rec EXCEPT ![p][o] = r] /\ Phase(w.xstatus) <= Phase(w.xstatus)
  BY <1>1 DEF RecState, RecCancelFails, Phase
<1>5. UNCHANGED <<ledgerVars, settled, sub, conn, drift, fx, res>>
  BY DEF RecCancelFails
<1>6. rec[p][o].step # "idle" /\ r.step \in {"cancel", "done", "skipped"} /\ r.step # "cancel"
  BY <1>1, <1>4
<1> HIDE DEF r
<1>. QED BY <1>1, <1>2, <1>3, <1>4, <1>5, <1>6, PassRowMoves

LEMMA RecCommitStep ==
  ASSUME IInv, NEW p \in Passes, RecCommit(p)
  PROVE  IInv' /\ Forward
<1>1. /\ rec \in [Passes -> [Orders -> RecState]] /\ row \in [Orders -> Row]
      /\ exch \in [Orders -> ExchOrder] /\ conn \in ConnState
  BY DEF IInv, TypeOK
<1>2. /\ row' = [o \in Orders |-> IF rec[p][o].step = "idle" THEN row[o] ELSE rec[p][o].work]
      /\ rec' = [rec EXCEPT ![p] = [o \in Orders |-> IdleR]]
  BY DEF RecCommit
<1>3. TypeOK'
  <2>1. row' \in [Orders -> Row]
    BY <1>1, <1>2 DEF RecState
  <2>2. IdleR \in RecState
    BY SizeAssumption DEF IdleR, RecState, NoRow, Row, RowStatus, XStatus
  <2>3. rec' \in [Passes -> [Orders -> RecState]]
    BY <1>1, <1>2, <2>2
  <2>4. conn' \in ConnState
    BY <1>1 DEF RecCommit, ConnState
  <2>. QED BY <2>1, <2>3, <2>4 DEF RecCommit, IInv, TypeOK
<1>4. ASSUME NEW o \in Orders
      PROVE  OrderInv(o)' /\ Phase(row[o].xstatus) <= Phase(row'[o].xstatus)
  <2>0. /\ rec'[p][o] = IdleR /\ \A q \in Passes : q # p => rec'[q][o] = rec[q][o]
        /\ OrderInv(o) /\ row[o] \in Row
    BY <1>1, <1>2 DEF IInv
  <2>1. CASE rec[p][o].step = "idle"
    <3>1. row'[o] = row[o]
      BY <1>2, <2>1
    <3>2. Phase(row[o].xstatus) <= Phase(row'[o].xstatus)
      BY <3>1 DEF Phase
    <3>3. OrderInv(o)'
      BY <1>3, <2>0, <3>1, ExchangeQuiet, Untouched DEF RecCommit
    <3>. QED BY <3>2, <3>3
  <2>2. CASE rec[p][o].step # "idle"
    <3>1. row'[o] = rec[p][o].work /\ RecSound(p, o)
      BY <1>2, <2>0, <2>2 DEF OrderInv
    <3>2. /\ Sound(exch[o], row'[o]) /\ Active(row[o])
          /\ row'[o].status \in {"pending", "open", "cancelled"}
          /\ Phase(row[o].xstatus) <= Phase(row'[o].xstatus)
      BY <2>2, <3>1 DEF RecSound
    <3>3. \A q \in Passes : rec'[q][o].step = "idle"
      BY <2>0, <2>2 DEF OrderInv, OneLock, IdleR
    <3>4. SubSound(o)'
      BY <2>0, <3>2 DEF RecCommit, OrderInv, SubSound, Active
    <3>5. FxSound(o)' /\ ResSound(o)'
      BY <2>0, <3>2 DEF RecCommit, OrderInv, FxSound, ResSound
    <3>6. DriftSound(o)'
      <4>1. row[o].status # "pending" => row'[o].status # "pending"
        BY <2>2, <3>1 DEF RecSound
      <4>2. conn' # "netted" \/ conn' = conn
        BY DEF RecCommit
      <4>. QED BY <3>2, <4>1, <4>2, ExchangeQuiet, DriftKept DEF RecCommit
    <3>. QED BY <2>0, <3>2, <3>3, <3>4, <3>5, <3>6
             DEF RecCommit, OrderInv, ExchSound, RecSound, OneLock
  <2>. QED BY <2>1, <2>2
<1>5. Forward
  BY <1>4, ExchangeQuiet DEF RecCommit, Forward
<1>. QED BY <1>3, <1>4, <1>5, ExchangeQuiet DEF RecCommit, IInv

LEMMA RecAbortStep ==
  ASSUME IInv, NEW p \in Passes, RecAbort(p)
  PROVE  IInv' /\ Forward
<1>1. /\ rec \in [Passes -> [Orders -> RecState]]
      /\ rec' = [rec EXCEPT ![p] = [o \in Orders |-> IdleR]]
  BY DEF IInv, TypeOK, RecAbort
<1>2. IdleR \in RecState
  BY SizeAssumption DEF IdleR, RecState, NoRow, Row, RowStatus, XStatus
<1>3. TypeOK'
  <2>1. rec' \in [Passes -> [Orders -> RecState]]
    BY <1>1, <1>2
  <2>. QED BY <2>1 DEF RecAbort, IInv, TypeOK, ledgerVars, ConnState
<1>4. \A q \in Passes, o \in Orders : rec'[q][o] \in {rec[q][o], IdleR}
  BY <1>1
<1>5. \A o \in Orders : OrderInv(o)'
  BY <1>3, <1>4, ExchangeQuiet, Untouched DEF RecAbort, ledgerVars
<1>6. Forward
  BY ExchangeQuiet DEF RecAbort, Forward, ledgerVars, Phase
<1>. QED BY <1>3, <1>5, <1>6, ExchangeQuiet DEF RecAbort, IInv

-----------------------------------------------------------------------------
(* PositionWatcher's connection.                                           *)

LEMMA ConnectionStep ==
  ASSUME IInv, WsConnect \/ WsSubscribe \/ WsDisconnect
  PROVE  IInv' /\ Forward
<1>1. /\ exch' = exch /\ settled' = settled /\ ws' \in {ws, << >>}
      /\ row' = row /\ aged' = aged /\ sub' = sub /\ rec' = rec /\ fx' = fx
      /\ conn' \in {"syncing", "up", "down"}
      /\ \/ drift' = drift /\ res' = res
         \/ /\ drift' = [o \in Orders |-> IdleD]
            /\ res' = [res EXCEPT !["positions"] = [o \in Orders |-> IdleW]]
  BY DEF WsConnect, WsSubscribe, WsDisconnect, ledgerVars, taskVars
<1>2. /\ drift \in [Orders -> DriftRow] /\ res \in [Closers -> [Orders -> ResState]]
      /\ IdleD \in DriftRow /\ IdleW \in ResState
  BY SizeAssumption
     DEF IInv, TypeOK, IdleD, IdleW, DriftRow, ResState, NoRow, Row, RowStatus, XStatus
<1>3. /\ drift' \in [Orders -> DriftRow] /\ res' \in [Closers -> [Orders -> ResState]]
      /\ \A o \in Orders : drift'[o] \in {drift[o], IdleD}
      /\ \A c \in Closers, o \in Orders : res'[c][o] \in {res[c][o], IdleW}
  BY <1>1, <1>2
<1>4. TypeOK'
  BY <1>1, <1>3, ExchangeQuiet DEF IInv, TypeOK, ConnState
<1>5. \A o \in Orders : OrderInv(o)'
  BY <1>1, <1>3, <1>4, ExchangeQuiet, Untouched DEF IdleW
<1>6. Forward
  BY <1>1, ExchangeQuiet DEF Forward, Phase
<1>. QED BY <1>1, <1>4, <1>5, <1>6, ExchangeQuiet DEF IInv

LEMMA DriftReadStep ==
  ASSUME IInv, DriftRead
  PROVE  IInv' /\ Forward
<1>1. /\ row \in [Orders -> Row] /\ exch \in [Orders -> ExchOrder]
      /\ drift' = [o \in Orders |-> IF row[o].status = "open"
                       THEN [on |-> TRUE, loaded |-> row[o], net |-> 0] ELSE IdleD]
      /\ conn' = "reading" /\ ledgerVars' = ledgerVars /\ taskVars' = taskVars
      /\ exch' = exch /\ settled' = settled /\ ws' = ws
  BY DEF IInv, TypeOK, DriftRead
<1>2. TypeOK'
  <2>1. drift' \in [Orders -> DriftRow]
    BY <1>1, SizeAssumption DEF DriftRow, IdleD, NoRow, Row, RowStatus, XStatus
  <2>. QED BY <1>1, <2>1 DEF IInv, TypeOK, ConnState, ledgerVars, taskVars
<1>3. ASSUME NEW o \in Orders PROVE OrderInv(o)'
  <2>1. OrderInv(o) /\ exch[o] \in ExchOrder
    BY <1>1 DEF IInv
  <2>2. DriftSound(o)'
    <3>1. CASE row[o].status = "open"
      <4>1. row[o].contracts \in 1..exch[o].filled
        BY <2>1, <3>1 DEF OrderInv, Sound
      <4>. QED BY <1>1, <2>1, <3>1, <4>1, SizeAssumption DEF DriftSound, ledgerVars, ExchOrder
    <3>2. CASE row[o].status # "open"
      BY <1>1, <3>2 DEF DriftSound, IdleD
    <3>. QED BY <3>1, <3>2
  <2>. QED BY <1>1, <2>1, <2>2 DEF ledgerVars, taskVars, OrderInv, ExchSound, SubSound,
                                   RecSound, OneLock, FxSound, ResSound
<1>4. Forward
  BY <1>1, ExchangeQuiet DEF ledgerVars, Forward, Phase
<1>. QED BY <1>1, <1>2, <1>3, <1>4, ExchangeQuiet DEF IInv

LEMMA DriftNetsStep ==
  ASSUME IInv, DriftNets
  PROVE  IInv' /\ Forward
<1>1. /\ exch \in [Orders -> ExchOrder] /\ drift \in [Orders -> DriftRow]
      /\ conn' = "netted" /\ ledgerVars' = ledgerVars /\ taskVars' = taskVars
      /\ exch' = exch /\ settled' = settled /\ ws' = ws
  BY DEF IInv, TypeOK, DriftNets
<1>2. drift' \in [Orders -> DriftRow] /\ \A o \in Orders : DriftSound(o)'
  <2>0. IdleD \in DriftRow
    BY SizeAssumption DEF IdleD, DriftRow, NoRow, Row, RowStatus, XStatus
  <2>1. CASE \E paid \in SUBSET Orders :
          /\ paid # {} => settled
          /\ drift' = [o \in Orders |->
               IF drift[o].on
               THEN [on |-> TRUE, loaded |-> drift[o].loaded,
                     net |-> IF o \in paid THEN 0 ELSE exch[o].filled]
               ELSE IdleD]
    <3>1. PICK paid \in SUBSET Orders :
            /\ paid # {} => settled
            /\ drift' = [o \in Orders |->
                 IF drift[o].on
                 THEN [on |-> TRUE, loaded |-> drift[o].loaded,
                       net |-> IF o \in paid THEN 0 ELSE exch[o].filled]
                 ELSE IdleD]
      BY <2>1
    <3>2. ASSUME NEW o \in Orders PROVE drift'[o] \in DriftRow /\ DriftSound(o)'
      <4>1. CASE drift[o].on
        <5>1. drift'[o] = [on |-> TRUE, loaded |-> drift[o].loaded,
                           net |-> IF o \in paid THEN 0 ELSE exch[o].filled]
          BY <3>1, <4>1
        <5>2. exch[o].filled \in 0..Size /\ drift[o].loaded \in Row /\ OrderInv(o)
          BY <1>1 DEF ExchOrder, DriftRow, IInv
        <5>3. drift'[o] \in DriftRow
          BY <5>1, <5>2, SizeAssumption DEF DriftRow
        <5>4. o \in paid => settled
          BY <3>1
        <5>. QED BY <1>1, <4>1, <5>1, <5>2, <5>3, <5>4, SizeAssumption
                 DEF OrderInv, DriftSound, ledgerVars
      <4>2. CASE ~drift[o].on
        BY <2>0, <3>1, <4>2 DEF DriftSound, IdleD
      <4>. QED BY <4>1, <4>2
    <3>. QED BY <3>1, <3>2
  <2>2. CASE drift' = [o \in Orders |-> IdleD]
    BY <2>0, <2>2 DEF DriftSound, IdleD
  <2>. QED BY <2>1, <2>2 DEF DriftNets
<1>3. TypeOK'
  BY <1>1, <1>2 DEF IInv, TypeOK, ConnState, ledgerVars, taskVars
<1>4. \A o \in Orders : OrderInv(o)'
  BY <1>1, <1>2 DEF IInv, ledgerVars, taskVars, OrderInv, ExchSound, SubSound,
                    RecSound, OneLock, FxSound, ResSound
<1>5. Forward
  BY <1>1, ExchangeQuiet DEF ledgerVars, Forward, Phase
<1>. QED BY <1>1, <1>3, <1>4, <1>5, ExchangeQuiet DEF IInv

LEMMA DriftCommitStep ==
  ASSUME IInv, DriftCommit
  PROVE  IInv' /\ Forward
<1>1. /\ exch \in [Orders -> ExchOrder] /\ drift \in [Orders -> DriftRow]
      /\ row \in [Orders -> Row] /\ res \in [Closers -> [Orders -> ResState]]
      /\ conn = "netted" /\ conn' = "surveyed"
      /\ row' = [o \in Orders |-> IF Drifted(o) THEN SetContracts(row[o], drift[o].net)
                                                ELSE row[o]]
      /\ res' = [res EXCEPT !["positions"] = [o \in Orders |->
                   IF drift[o].on /\ drift[o].net = 0
                   THEN [step |-> "listed", loaded |-> NoRow] ELSE IdleW]]
      /\ drift' = [o \in Orders |-> IdleD]
      /\ exch' = exch /\ settled' = settled /\ ws' = ws /\ aged' = aged
      /\ sub' = sub /\ rec' = rec /\ fx' = fx
  BY DEF IInv, TypeOK, DriftCommit
<1>2. TypeOK'
  <2>1. \A o \in Orders : row'[o] \in Row
    BY <1>1 DEF SetContracts, Row, DriftRow
  <2>2. row' \in [Orders -> Row]
    BY <1>1, <2>1
  <2>3. NoRow \in Row /\ IdleD \in DriftRow /\ IdleW \in ResState
    BY SizeAssumption DEF NoRow, Row, RowStatus, XStatus, IdleD, DriftRow, IdleW, ResState
  <2>4. res' \in [Closers -> [Orders -> ResState]]
    <3>1. \A o \in Orders : [step |-> "listed", loaded |-> NoRow] \in ResState
      BY <2>3 DEF ResState
    <3>. QED BY <1>1, <2>3, <3>1
  <2>. QED BY <1>1, <2>2, <2>3, <2>4 DEF IInv, TypeOK, ConnState
<1>3. ASSUME NEW o \in Orders
      PROVE  OrderInv(o)' /\ row'[o].xstatus = row[o].xstatus
  <2>1. OrderInv(o) /\ exch[o] \in ExchOrder /\ drift[o] \in DriftRow /\ row[o] \in Row
    BY <1>1 DEF IInv
  <2>2. /\ row'[o].status = row[o].status /\ row'[o].xstatus = row[o].xstatus
        /\ \/ row'[o] = row[o]
           \/ /\ row[o].status # "pending" /\ ~Locked(o)
              /\ row'[o].contracts \in 1..exch[o].filled
    <3>1. CASE Drifted(o)
      <4>1. row'[o] = SetContracts(row[o], drift[o].net) /\ ~Locked(o)
        BY <1>1, <3>1 DEF DriftCommit
      <4>2. drift[o].net \in 1..exch[o].filled /\ row[o].status # "pending"
        BY <2>1, <3>1, SizeAssumption DEF Drifted, OrderInv, DriftSound, DriftRow, ExchOrder
      <4>. QED BY <4>1, <4>2 DEF SetContracts
    <3>2. CASE ~Drifted(o)
      BY <1>1, <3>2
    <3>. QED BY <3>1, <3>2
  <2>3. Sound(exch[o], row[o])'
    BY <1>1, <2>1, <2>2 DEF OrderInv, Sound
  <2>4. ResSound(o)'
    <3>1. ASSUME NEW c \in Closers, res'[c][o].step # "idle"
          PROVE  settled' /\ row'[o].status # "none"
      <4>1. \/ res[c][o].step # "idle"
            \/ drift[o].on /\ drift[o].net = 0
        BY <1>1, <3>1 DEF IdleW
      <4>. QED BY <1>1, <2>1, <2>2, <4>1 DEF OrderInv, ResSound, DriftSound
    <3>. QED BY <3>1 DEF ResSound
  <2>5. DriftSound(o)'
    BY <1>1 DEF DriftSound, IdleD
  <2>6. \A p \in Passes : RecSound(p, o)'
    BY <1>1, <2>1, <2>2 DEF OrderInv, RecSound, Active
  <2>. QED BY <1>1, <2>1, <2>2, <2>3, <2>4, <2>5, <2>6
           DEF OrderInv, ExchSound, SubSound, OneLock, FxSound
<1>4. Forward
  BY <1>1, <1>3, ExchangeQuiet DEF Forward, Phase
<1>. QED BY <1>1, <1>2, <1>3, <1>4, ExchangeQuiet DEF IInv

LEMMA WsDeliverStep ==
  ASSUME IInv, WsDeliver
  PROVE  IInv' /\ Forward
<1> DEFINE e == Head(ws)
<1>1. /\ ws \in Seq(WsEvent) /\ ws # << >> /\ ws' = Tail(ws) /\ WsSound
      /\ exch \in [Orders -> ExchOrder] /\ row \in [Orders -> Row]
      /\ exch' = exch /\ settled' = settled /\ sub' = sub /\ rec' = rec
      /\ fx' = fx /\ res' = res /\ aged' = aged /\ conn' = conn /\ drift' = drift
  BY DEF IInv, TypeOK, WsDeliver, taskVars
<1>2. e \in WsEvent /\ Fresh(exch[e.order], e.report)
  BY <1>1 DEF WsSound
<1>3. ws' \in Seq(WsEvent) /\ WsSound'
  BY <1>1 DEF WsSound
<1>4. \/ row' = row
      \/ /\ Active(row[e.order]) /\ ~Locked(e.order)
         /\ row' = [row EXCEPT ![e.order] = ApplyExchangeState(@, e.report)]
  BY DEF WsDeliver
<1>5. CASE row' = row
  <2>1. TypeOK'
    BY <1>1, <1>3, <1>5 DEF IInv, TypeOK
  <2>2. \A o \in Orders : OrderInv(o)'
    BY <1>1, <1>5, <2>1, Untouched DEF IInv, OrderInv, ExchSound, Advance, ExchOrder
  <2>3. Forward
    BY <1>1, <1>5 DEF Forward, Phase, Advance, ExchOrder
  <2>. QED BY <1>3, <2>1, <2>2, <2>3 DEF IInv
<1>6. CASE /\ Active(row[e.order]) /\ ~Locked(e.order)
           /\ row' = [row EXCEPT ![e.order] = ApplyExchangeState(@, e.report)]
  <2> DEFINE k == e.order
             a == ApplyExchangeState(row[k], e.report)
  <2>1. k \in Orders /\ e.report \in Snapshot /\ OrderInv(k)
    BY <1>2 DEF WsEvent, IInv
  <2>2. /\ a \in Row /\ Sound(exch[k], a) /\ a.status \in {"pending", "open", "cancelled"}
        /\ Phase(row[k].xstatus) <= Phase(a.xstatus)
        /\ a.status = "pending" => row[k].status = "pending"
    BY <1>1, <1>2, <1>6, <2>1, ApplySound DEF OrderInv, ExchSound
  <2>3. row'[k] = a /\ \A o \in Orders : o # k => row'[o] = row[o]
    BY <1>1, <1>6, <2>1
  <2> HIDE DEF a
  <2>4. TypeOK'
    <3>1. row' \in [Orders -> Row]
      BY <1>1, <1>6, <2>1, <2>2 DEF a
    <3>. QED BY <1>1, <1>3, <3>1 DEF IInv, TypeOK
  <2>5. ASSUME NEW o \in Orders PROVE OrderInv(o)'
    <3>1. CASE o = k
      <4>1. \A p \in Passes : rec[p][o].step = "idle"
        BY <1>6, <3>1 DEF Locked
      <4>2. SubSound(o)'
        BY <1>1, <1>6, <2>1, <2>2, <2>3, <3>1 DEF OrderInv, SubSound, Active
      <4>3. FxSound(o)' /\ ResSound(o)' /\ DriftSound(o)'
        BY <1>1, <2>1, <2>2, <2>3, <3>1 DEF OrderInv, FxSound, ResSound, DriftSound
      <4>. QED BY <1>1, <2>1, <2>2, <2>3, <3>1, <4>1, <4>2, <4>3
               DEF OrderInv, ExchSound, RecSound, OneLock
    <3>2. CASE o # k
      BY <1>1, <2>3, <2>4, <3>2, Untouched DEF IInv, OrderInv, ExchSound, Advance, ExchOrder
    <3>. QED BY <3>1, <3>2
  <2>6. Forward
    <3>1. ASSUME NEW o \in Orders PROVE Phase(row[o].xstatus) <= Phase(row'[o].xstatus)
      <4>1. CASE o = k
        BY <2>2, <2>3, <4>1
      <4>2. CASE o # k
        BY <2>3, <4>2 DEF Phase
      <4>. QED BY <4>1, <4>2
    <3>2. ASSUME NEW o \in Orders PROVE Advance(exch[o], exch'[o])
      BY <1>1 DEF Advance, ExchOrder
    <3>. QED BY <3>1, <3>2 DEF Forward
  <2>. QED BY <1>3, <2>4, <2>5, <2>6 DEF IInv
<1>. QED BY <1>4, <1>5, <1>6

-----------------------------------------------------------------------------
(* A force exit of a pending row.                                          *)

LEMMA FxLoadStep ==
  ASSUME IInv, NEW o \in Orders, FxLoad(o)
  PROVE  IInv' /\ Forward
<1>1. /\ fx \in [Orders -> FxState] /\ row[o] \in Row /\ row[o].status = "pending"
      /\ fx' = [fx EXCEPT ![o] = [step |-> "cancel", loaded |-> row[o], work |-> row[o]]]
      /\ OrderInv(o)
  BY DEF IInv, TypeOK, FxLoad
<1>2. /\ fx'[o] = [step |-> "cancel", loaded |-> row[o], work |-> row[o]]
      /\ \A q \in Orders : q # o => fx'[q] = fx[q]
  BY <1>1
<1>3. TypeOK'
  <2>1. fx' \in [Orders -> FxState]
    BY <1>1 DEF FxState
  <2>. QED BY <2>1 DEF FxLoad, IInv, TypeOK, ledgerVars, wsVars
<1>4. ASSUME NEW q \in Orders PROVE OrderInv(q)'
  <2>1. CASE q = o
    <3>1. FxSound(o)'
      BY <1>1, <1>2 DEF FxLoad, ledgerVars, FxSound, OrderInv, Sound
    <3>. QED BY <1>1, <2>1, <3>1
         DEF FxLoad, ledgerVars, wsVars, OrderInv, ExchSound, SubSound, RecSound, OneLock,
             ResSound, DriftSound
  <2>2. CASE q # o
    BY <1>2, <1>3, <2>2, ExchangeQuiet, Untouched DEF FxLoad, ledgerVars, wsVars
  <2>. QED BY <2>1, <2>2
<1>5. Forward
  BY ExchangeQuiet DEF FxLoad, Forward, ledgerVars, wsVars, Phase
<1>. QED BY <1>3, <1>4, <1>5, ExchangeQuiet DEF FxLoad, wsVars, IInv

LEMMA FxCancelStep ==
  ASSUME IInv, NEW o \in Orders, FxCancel(o)
  PROVE  IInv' /\ Forward
<1> DEFINE w == fx[o].work
           a == ApplyExchangeState(w, Report(exch'[o]))
<1>1. /\ fx \in [Orders -> FxState] /\ exch \in [Orders -> ExchOrder] /\ OrderInv(o)
      /\ w = fx[o].loaded /\ w \in Row /\ w.status = "pending" /\ w.contracts = Size
      /\ w.xstatus \in {"resting", "partial"} /\ row[o].status # "none"
  BY DEF IInv, TypeOK, OrderInv, FxSound, FxCancel, FxState
<1>2. /\ ledgerVars' = ledgerVars /\ settled' = settled /\ sub' = sub /\ rec' = rec
      /\ conn' = conn /\ drift' = drift /\ res' = res
  BY DEF FxCancel
<1>3. /\ exch' \in [Orders -> ExchOrder] /\ ws' \in Seq(WsEvent) /\ WsSound'
      /\ \A q \in Orders : /\ Advance(exch[q], exch'[q]) /\ ExchSound(q)'
                           /\ exch[q].status = "none" => exch'[q].status = "none"
  <2>1. CASE exch' = exch /\ ws' = ws
    BY <1>2, <2>1, ExchangeQuiet
  <2>2. CASE exch[o].status = "resting" /\ CancelOnExchange(o) /\ Announce(o)
    <3>1. exch'[o].status = "canceled" /\ exch' \in [Orders -> ExchOrder]
      BY <1>2, <2>2, CancelAdvances
    <3>2. \A q \in Orders : /\ Advance(exch[q], exch'[q]) /\ ExchSound(q)'
                            /\ exch[q].status = "none" => exch'[q].status = "none"
      BY <1>2, <2>2, CancelAdvances
    <3>. QED BY <2>2, <3>1, <3>2, AnnounceSound
  <2>. QED BY <2>1, <2>2 DEF FxCancel
<1>4. \/ fx' = [fx EXCEPT ![o] = IdleF]
      \/ /\ exch[o].status = "resting" /\ CancelOnExchange(o)
         /\ fx' = [fx EXCEPT ![o] = [step |-> "commit", loaded |-> w, work |-> a]]
  BY <1>1 DEF FxCancel, FxState
<1>5. CASE fx' = [fx EXCEPT ![o] = IdleF]
  <2>1. fx' \in [Orders -> FxState]
    BY <1>1, <1>5, SizeAssumption DEF FxState, IdleF, NoRow, Row, RowStatus, XStatus
  <2>2. TypeOK'
    BY <1>2, <1>3, <2>1 DEF IInv, TypeOK, ledgerVars
  <2>3. \A q \in Orders : fx'[q] \in {fx[q], IdleF}
    BY <1>1, <1>5
  <2>4. \A q \in Orders : OrderInv(q)'
    BY <1>2, <1>3, <2>2, <2>3, Untouched DEF ledgerVars
  <2>5. Forward
    BY <1>2, <1>3 DEF Forward, ledgerVars, Phase
  <2>. QED BY <1>3, <2>2, <2>4, <2>5 DEF IInv
<1>6. CASE /\ exch[o].status = "resting" /\ CancelOnExchange(o)
           /\ fx' = [fx EXCEPT ![o] = [step |-> "commit", loaded |-> w, work |-> a]]
  <2>1. exch'[o].status = "canceled" /\ exch'[o] \in ExchOrder /\ ExchSound(o)'
    BY <1>2, <1>3, <1>6, CancelAdvances
  <2>2. Report(exch'[o]) = [status |-> "canceled", filled |-> exch'[o].filled]
    BY <2>1 DEF Report
  <2>3. /\ a.xstatus = "canceled"
        /\ \/ a.status = "cancelled" /\ exch'[o].filled = 0 /\ a.contracts = Size
           \/ a.status = "open" /\ a.contracts = exch'[o].filled /\ exch'[o].filled > 0
    BY <1>1, <2>1, <2>2
       DEF ApplyExchangeState, MapOrderToStatus, AcceptStatus, StatusRank, XStatus, ExchOrder
  <2>4. a \in Row
    BY <1>1, <2>1, <2>3 DEF Row, RowStatus, XStatus, ExchOrder, ApplyExchangeState
  <2>5. /\ fx'[o] = [step |-> "commit", loaded |-> w, work |-> a]
        /\ \A q \in Orders : q # o => fx'[q] = fx[q]
    BY <1>1, <1>6
  <2> HIDE DEF a, w
  <2>6. TypeOK'
    <3>1. fx' \in [Orders -> FxState]
      BY <1>1, <1>6, <2>4 DEF FxState
    <3>. QED BY <1>2, <1>3, <3>1 DEF IInv, TypeOK, ledgerVars
  <2>7. ASSUME NEW q \in Orders PROVE OrderInv(q)'
    <3>1. CASE q = o
      <4>1. FxSound(o)'
        BY <1>1, <1>2, <2>1, <2>3, <2>5 DEF ledgerVars, FxSound
      <4>2. /\ exch[o] \in ExchOrder /\ row[o] \in Row /\ sub[o] \in SubState
            /\ \A p \in Passes : rec[p][o] \in RecState
            /\ Advance(exch[o], exch'[o])
        BY <1>1, <1>3 DEF IInv, TypeOK
      <4>3. Sound(exch[o], row[o])'
        BY <1>1, <1>2, <2>1, <4>2, AdvanceSound DEF ledgerVars, OrderInv, ExchSound
      <4>4. SubSound(o)'
        BY <1>1, <1>2, <2>1 DEF ledgerVars, OrderInv, SubSound
      <4>5. \A p \in Passes : RecSound(p, o)'
        <5>1. ASSUME NEW p \in Passes, rec[p][o].step # "idle"
              PROVE  Sound(exch'[o], rec[p][o].work)
          BY <1>1, <2>1, <4>2, <5>1, AdvanceSound DEF OrderInv, ExchSound, RecSound, RecState
        <5>. QED BY <1>1, <1>2, <5>1 DEF ledgerVars, OrderInv, RecSound
      <4>6. DriftSound(o)'
        BY <1>2, <2>1, <4>2, DriftKept DEF ledgerVars
      <4>. QED BY <1>1, <1>2, <2>1, <3>1, <4>1, <4>3, <4>4, <4>5, <4>6
               DEF ledgerVars, OrderInv, OneLock, ResSound
    <3>2. CASE q # o
      BY <1>2, <1>3, <2>5, <2>6, <3>2, Untouched DEF ledgerVars
    <3>. QED BY <3>1, <3>2
  <2>8. Forward
    BY <1>2, <1>3 DEF Forward, ledgerVars, Phase
  <2>. QED BY <1>3, <2>6, <2>7, <2>8 DEF IInv
<1>. QED BY <1>4, <1>5, <1>6

(* A commit writes one unlocked row and ends, or moves on, its session. *)
LEMMA RowWritten ==
  ASSUME IInv, TypeOK', NEW o \in Orders, ~Locked(o),
         exch' = exch, settled' = settled, sub' = sub, rec' = rec, ws' = ws,
         row[o].status # "none", row'[o].status # "none",
         row[o].status # "pending" => row'[o].status # "pending",
         drift' = drift, conn' = conn,
         Sound(exch[o], row'[o]), FxSound(o)',
         \A c \in Closers, q \in Orders : res'[c][q] \in {res[c][q], IdleW},
         Phase(row[o].xstatus) <= Phase(row'[o].xstatus),
         \A q \in Orders : q # o => row'[q] = row[q] /\ fx'[q] = fx[q]
  PROVE  IInv' /\ Forward
<1>1. ASSUME NEW q \in Orders
      PROVE  OrderInv(q)' /\ Phase(row[q].xstatus) <= Phase(row'[q].xstatus)
  <2>1. CASE q = o
    <3>1. OrderInv(o) /\ \A p \in Passes : rec[p][o].step = "idle"
      BY DEF IInv, Locked
    <3>. QED BY <2>1, <3>1
         DEF OrderInv, ExchSound, SubSound, RecSound, OneLock, ResSound, DriftSound, IdleW
  <2>2. CASE q # o
    BY <2>2, ExchangeQuiet, Untouched DEF Phase, IdleW
  <2>. QED BY <2>1, <2>2
<1>2. Forward
  BY <1>1, ExchangeQuiet DEF Forward
<1>. QED BY <1>1, <1>2, ExchangeQuiet DEF IInv

LEMMA FxCommitStep ==
  ASSUME IInv, NEW o \in Orders, FxCommit(o)
  PROVE  IInv' /\ Forward
<1> DEFINE l == fx[o].loaded
           w == fx[o].work
           r == Flush(row[o], l, w)
           f == IF w.status = "open" THEN [step |-> "close", loaded |-> l, work |-> w]
                                     ELSE IdleF
<1>1. /\ fx \in [Orders -> FxState] /\ exch[o] \in ExchOrder /\ row \in [Orders -> Row]
      /\ l \in Row /\ w \in Row /\ fx[o].step = "commit" /\ ~Locked(o)
      /\ OrderInv(o)
  BY DEF IInv, TypeOK, FxCommit, FxState
<1>2. /\ exch[o].status = "canceled" /\ w.xstatus = "canceled"
      /\ l.status = "pending" /\ l.xstatus \in {"resting", "partial"} /\ l.contracts = Size
      /\ row[o].status # "none"
      /\ \/ w.status = "cancelled" /\ exch[o].filled = 0
         \/ w.status = "open" /\ w.contracts = exch[o].filled /\ exch[o].filled > 0
  BY <1>1 DEF OrderInv, FxSound
<1>3. /\ row' = [row EXCEPT ![o] = r]
      /\ fx' = [fx EXCEPT ![o] = f]
  BY <1>1 DEF FxCommit, FxState
<1>4. /\ r.status = w.status /\ r.xstatus = "canceled"
      /\ w.status = "open" => r.contracts = w.contracts
  <2>1. exch[o].filled # Size
    BY <1>1, <1>2 DEF OrderInv, ExchSound
  <2>. QED BY <1>2, <2>1 DEF Flush, Column
<1>rowOK. r \in Row
  BY <1>1, FlushType
<1> HIDE DEF r
<1>5. Sound(exch[o], r)
  BY <1>1, <1>2, <1>4 DEF Sound, Final, Terminal, ExchOrder
<1>6. r \in Row /\ f \in FxState
  BY <1>1, <1>rowOK, SizeAssumption DEF FxState, IdleF, NoRow, Row, RowStatus, XStatus
<1>7. TypeOK'
  <2>1. row' \in [Orders -> Row] /\ fx' \in [Orders -> FxState]
    BY <1>1, <1>3, <1>6
  <2>. QED BY <2>1 DEF FxCommit, wsVars, IInv, TypeOK
<1>8. row'[o] = r /\ fx'[o] = f
      /\ \A q \in Orders : q # o => row'[q] = row[q] /\ fx'[q] = fx[q]
  BY <1>1, <1>3
<1>9. FxSound(o)'
  BY <1>2, <1>4, <1>8 DEF FxCommit, FxSound, IdleF
<1>10. Phase(row[o].xstatus) <= Phase(row'[o].xstatus)
  BY <1>4, <1>8 DEF Phase
<1>11. /\ exch' = exch /\ settled' = settled /\ sub' = sub /\ rec' = rec /\ ws' = ws
       /\ res' = res /\ drift' = drift /\ conn' = conn
  BY DEF FxCommit, wsVars
<1>12. row'[o].status # "none" /\ row'[o].status # "pending"
  BY <1>2, <1>4, <1>8
<1>. QED BY <1>1, <1>2, <1>5, <1>7, <1>8, <1>9, <1>10, <1>11, <1>12, RowWritten

LEMMA FxCloseStep ==
  ASSUME IInv, NEW o \in Orders, FxClose(o)
  PROVE  IInv' /\ Forward
<1> DEFINE w == fx[o].work
           r == Flush(row[o], w, ClosePosition(w))
<1>1. /\ fx \in [Orders -> FxState] /\ exch[o] \in ExchOrder /\ row \in [Orders -> Row]
      /\ w \in Row /\ fx[o].step = "close" /\ ~Locked(o) /\ OrderInv(o)
  BY DEF IInv, TypeOK, FxClose, FxState
<1>2. exch[o].status = "canceled" /\ w.status = "open" /\ row[o].status # "none"
  BY <1>1 DEF OrderInv, FxSound
<1>3. row' = [row EXCEPT ![o] = r] /\ fx' = [fx EXCEPT ![o] = IdleF]
  BY DEF FxClose
<1>4. r.status = "closed" /\ r.xstatus = row[o].xstatus
  BY <1>1, <1>2 DEF Flush, Column, ClosePosition, Row
<1>rowOK. r \in Row
  BY <1>1, FlushType
<1> HIDE DEF r
<1>5. Sound(exch[o], r)
  BY <1>1, <1>2, <1>4 DEF OrderInv, Sound
<1>6. r \in Row /\ IdleF \in FxState
  BY <1>rowOK, SizeAssumption DEF FxState, IdleF, NoRow, Row, RowStatus, XStatus
<1>7. TypeOK'
  <2>1. row' \in [Orders -> Row] /\ fx' \in [Orders -> FxState]
    BY <1>1, <1>3, <1>6
  <2>. QED BY <2>1 DEF FxClose, wsVars, IInv, TypeOK
<1>8. row'[o] = r /\ fx'[o] = IdleF
      /\ \A q \in Orders : q # o => row'[q] = row[q] /\ fx'[q] = fx[q]
  BY <1>1, <1>3
<1>9. FxSound(o)'
  BY <1>8 DEF FxSound, IdleF
<1>10. Phase(row[o].xstatus) <= Phase(row'[o].xstatus)
  BY <1>4, <1>8 DEF Phase
<1>11. /\ exch' = exch /\ settled' = settled /\ sub' = sub /\ rec' = rec /\ ws' = ws
       /\ res' = res /\ drift' = drift /\ conn' = conn
  BY DEF FxClose, wsVars
<1>12. row'[o].status # "none" /\ row'[o].status # "pending"
  BY <1>4, <1>8
<1>. QED BY <1>1, <1>2, <1>5, <1>7, <1>8, <1>9, <1>10, <1>11, <1>12, RowWritten

-----------------------------------------------------------------------------
(* The watcher of resolved markets, and a restart.                         *)

LEMMA ResListStep ==
  ASSUME IInv, NEW c \in Closers, ResList(c)
  PROVE  IInv' /\ Forward
<1>1. /\ res \in [Closers -> [Orders -> ResState]] /\ settled
      /\ res' = [res EXCEPT ![c] = [o \in Orders |->
                   IF Active(row[o]) THEN [step |-> "listed", loaded |-> NoRow] ELSE IdleW]]
  BY DEF IInv, TypeOK, ResList
<1>2. TypeOK'
  <2>1. \A o \in Orders : (IF Active(row[o]) THEN [step |-> "listed", loaded |-> NoRow]
                                             ELSE IdleW) \in ResState
    BY SizeAssumption DEF ResState, IdleW, NoRow, Row, RowStatus, XStatus
  <2>2. res' \in [Closers -> [Orders -> ResState]]
    BY <1>1, <2>1
  <2>. QED BY <2>2 DEF ResList, IInv, TypeOK, ledgerVars, wsVars
<1>3. ASSUME NEW o \in Orders PROVE OrderInv(o)'
  <2>1. OrderInv(o)
    BY DEF IInv
  <2>2. ResSound(o)'
    <3>1. ASSUME NEW d \in Closers, res'[d][o].step # "idle"
          PROVE  res[d][o].step # "idle" \/ Active(row[o])
      BY <1>1, <3>1 DEF IdleW
    <3>. QED BY <1>1, <2>1, <3>1 DEF ResList, ledgerVars, OrderInv, ResSound, Active
  <2>. QED BY <2>1, <2>2 DEF ResList, ledgerVars, wsVars, OrderInv, ExchSound, SubSound,
                             RecSound, OneLock, FxSound, DriftSound
<1>4. Forward
  BY ExchangeQuiet DEF ResList, Forward, ledgerVars, wsVars, Phase
<1>. QED BY <1>2, <1>3, <1>4, ExchangeQuiet DEF ResList, wsVars, IInv

LEMMA ResReadStep ==
  ASSUME IInv, NEW c \in Closers, NEW o \in Orders, ResRead(c, o)
  PROVE  IInv' /\ Forward
<1>1. /\ res \in [Closers -> [Orders -> ResState]] /\ row \in [Orders -> Row]
      /\ res[c][o].step = "listed"
      /\ res' = [res EXCEPT ![c][o] = [step |-> "read", loaded |-> row[o]]]
  BY DEF IInv, TypeOK, ResRead
<1>2. TypeOK'
  <2>1. [step |-> "read", loaded |-> row[o]] \in ResState
    BY <1>1 DEF ResState
  <2>2. res' \in [Closers -> [Orders -> ResState]]
    BY <1>1, <2>1
  <2>. QED BY <2>2 DEF ResRead, IInv, TypeOK, ledgerVars, wsVars
<1>3. \A d \in Closers, q \in Orders : res'[d][q].step # "idle" => res[d][q].step # "idle"
  BY <1>1
<1>4. \A q \in Orders : OrderInv(q)'
  BY <1>2, <1>3, ExchangeQuiet, Untouched DEF ResRead, ledgerVars, wsVars
<1>5. Forward
  BY ExchangeQuiet DEF ResRead, Forward, ledgerVars, wsVars, Phase
<1>. QED BY <1>2, <1>4, <1>5, ExchangeQuiet DEF ResRead, wsVars, IInv

LEMMA ResCloseStep ==
  ASSUME IInv, NEW c \in Closers, NEW o \in Orders, ResClose(c, o)
  PROVE  IInv' /\ Forward
<1> DEFINE l == res[c][o].loaded
           r == Flush(row[o], l, ClosePosition(l))
<1>1. /\ res \in [Closers -> [Orders -> ResState]] /\ row \in [Orders -> Row]
      /\ exch[o] \in ExchOrder /\ l \in Row /\ res[c][o].step = "read" /\ ~Locked(o)
      /\ OrderInv(o)
  BY DEF IInv, TypeOK, ResClose, ResState
<1>2. row[o].status # "none" /\ exch[o].status # "resting"
  BY <1>1 DEF OrderInv, ResSound, ExchSound
<1>3. row' = [row EXCEPT ![o] = r] /\ res' = [res EXCEPT ![c][o] = IdleW]
  BY DEF ResClose
<1>4. /\ r.status \in {"closed", row[o].status} /\ r.xstatus = row[o].xstatus
      /\ r.contracts = row[o].contracts
  BY <1>1 DEF Flush, Column, ClosePosition, Row
<1>rowOK. r \in Row
  <2>1. row[o] \in Row /\ ClosePosition(l) \in Row
    BY <1>1, FlushType
  <2>. QED BY <1>1, <2>1, FlushType
<1> HIDE DEF r
<1>5. Sound(exch[o], r)
  BY <1>1, <1>2, <1>4 DEF OrderInv, Sound
<1>6. IdleW \in ResState
  BY SizeAssumption DEF ResState, IdleW, NoRow, Row, RowStatus, XStatus
<1>7. TypeOK'
  <2>1. row' \in [Orders -> Row] /\ res' \in [Closers -> [Orders -> ResState]]
    BY <1>1, <1>3, <1>rowOK, <1>6
  <2>. QED BY <2>1 DEF ResClose, IInv, TypeOK, wsVars
<1>8. /\ row'[o] = r /\ \A q \in Orders : q # o => row'[q] = row[q]
      /\ \A d \in Closers, q \in Orders : res'[d][q] \in {res[d][q], IdleW}
  BY <1>1, <1>3
<1>9. /\ row'[o].status # "none"
      /\ row[o].status # "pending" => row'[o].status # "pending"
  BY <1>2, <1>4, <1>8
<1>10. FxSound(o)'
  BY <1>1, <1>9 DEF ResClose, OrderInv, FxSound
<1>11. Phase(row[o].xstatus) <= Phase(row'[o].xstatus)
  BY <1>4, <1>8 DEF Phase
<1>12. /\ exch' = exch /\ settled' = settled /\ sub' = sub /\ rec' = rec /\ ws' = ws
       /\ fx' = fx /\ drift' = drift /\ conn' = conn
  BY DEF ResClose, wsVars
<1>. QED BY <1>1, <1>2, <1>5, <1>7, <1>8, <1>9, <1>10, <1>11, <1>12, RowWritten

LEMMA RestartStep ==
  ASSUME IInv, Restart
  PROVE  IInv' /\ Forward
<1>1. /\ sub \in [Orders -> SubState]
      /\ rec' = [p \in Passes |-> [o \in Orders |-> IdleR]]
      /\ fx' = [o \in Orders |-> IdleF] /\ drift' = [o \in Orders |-> IdleD]
      /\ res' = [c \in Closers |-> [o \in Orders |-> IdleW]]
      /\ sub' = [o \in Orders |-> IF sub[o].step \in {"replied", "orphan"}
                                  THEN [step |-> "lost", reply |-> Blank] ELSE sub[o]]
  BY DEF IInv, TypeOK, Restart
<1>2. TypeOK'
  <2>1. NoRow \in Row /\ Blank \in Snapshot
    BY SizeAssumption DEF NoRow, Row, RowStatus, XStatus, Blank, Snapshot
  <2>2. /\ IdleR \in RecState /\ IdleF \in FxState /\ IdleW \in ResState
        /\ IdleD \in DriftRow
    BY <2>1, SizeAssumption
       DEF IdleR, IdleF, IdleW, IdleD, RecState, FxState, ResState, DriftRow
  <2>3. sub' \in [Orders -> SubState]
    BY <1>1, <2>1 DEF SubState
  <2>. QED BY <1>1, <2>2, <2>3, ExchangeQuiet
           DEF Restart, IInv, TypeOK, ledgerVars, ConnState
<1>3. ASSUME NEW o \in Orders PROVE OrderInv(o)'
  <2>1. SubSound(o)'
    BY <1>1 DEF Restart, ledgerVars, IInv, OrderInv, SubSound, Sound
  <2>2. /\ FxSound(o)' /\ ResSound(o)' /\ DriftSound(o)' /\ OneLock(o)'
        /\ \A p \in Passes : RecSound(p, o)'
    BY <1>1 DEF FxSound, ResSound, DriftSound, OneLock, RecSound, IdleR, IdleF, IdleW, IdleD
  <2>. QED BY <2>1, <2>2 DEF Restart, ledgerVars, IInv, OrderInv, ExchSound
<1>4. Forward
  BY ExchangeQuiet DEF Restart, Forward, ledgerVars, Phase
<1>. QED BY <1>2, <1>3, <1>4, ExchangeQuiet DEF Restart, IInv

-----------------------------------------------------------------------------
(* The theorems.                                                           *)

LEMMA InitIInv == Init => IInv
<1> SUFFICES ASSUME Init PROVE IInv
  OBVIOUS
<1>1. TypeOK
  <2>1. NoRow \in Row /\ Blank \in Snapshot
    BY SizeAssumption DEF NoRow, Row, RowStatus, XStatus, Blank, Snapshot
  <2>2. /\ IdleR \in RecState /\ IdleF \in FxState /\ IdleW \in ResState
        /\ IdleD \in DriftRow
    BY <2>1, SizeAssumption
       DEF IdleR, IdleF, IdleW, IdleD, RecState, FxState, ResState, DriftRow
  <2>3. exch \in [Orders -> ExchOrder] /\ sub \in [Orders -> SubState]
    BY <2>1, SizeAssumption DEF Init, ExchOrder, XStatus, SubState
  <2>4. ws \in Seq(WsEvent)
    BY DEF Init
  <2>. QED BY <2>1, <2>2, <2>3, <2>4 DEF Init, TypeOK, ConnState
<1>2. ASSUME NEW o \in Orders PROVE OrderInv(o)
  BY SizeAssumption
     DEF Init, OrderInv, ExchSound, Sound, SubSound, RecSound, OneLock, FxSound, ResSound,
         DriftSound, NoRow, IdleR, IdleF, IdleW, IdleD, Terminal
<1>3. WsSound
  BY DEF Init, WsSound
<1>. QED BY <1>1, <1>2, <1>3 DEF IInv

(* Every step keeps the invariant and moves the exchange and the view forward. *)
LEMMA NextIInv ==
  ASSUME IInv, [Next]_vars
  PROVE  IInv' /\ Forward
<1>1. CASE MarketResolves
  BY <1>1, MarketResolvesStep
<1>2. CASE Survey
  BY <1>2, DriftReadStep, DriftNetsStep, DriftCommitStep DEF Survey
<1>3. CASE Restart
  BY <1>3, RestartStep
<1>4. CASE Socket
  BY <1>4, ConnectionStep, WsDeliverStep DEF Socket
<1>5. ASSUME NEW o \in Orders, Fill(o) \/ Submit(o) \/ RowAges(o)
      PROVE  IInv' /\ Forward
  BY <1>5, FillStep, PlaceOrderStep, InsertRowStep, CancelOrphanStep, RowAgesStep DEF Submit
<1>6. ASSUME NEW o \in Orders, ForceExit(o)
      PROVE  IInv' /\ Forward
  BY <1>6, FxLoadStep, FxCancelStep, FxCommitStep, FxCloseStep DEF ForceExit
<1>7. ASSUME NEW p \in Passes, Pass(p)
      PROVE  IInv' /\ Forward
  BY <1>7, RecSelectStep, RecCommitStep, RecAbortStep DEF Pass
<1>8. ASSUME NEW p \in Passes, NEW o \in Orders, PassRow(p, o)
      PROVE  IInv' /\ Forward
  BY <1>8, RecGetStep, RecGetFailsStep, RecCancelStep, RecCancelFailsStep DEF PassRow
<1>9. ASSUME NEW c \in Closers, ResList(c)
      PROVE  IInv' /\ Forward
  BY <1>9, ResListStep
<1>10. ASSUME NEW c \in Closers, NEW o \in Orders, Resolve(c, o)
      PROVE  IInv' /\ Forward
  BY <1>10, ResReadStep, ResCloseStep DEF Resolve
<1>11. CASE UNCHANGED vars
  <2>1. IInv'
    BY <1>11 DEF vars, ledgerVars, wsVars, taskVars, IInv, TypeOK, OrderInv, ExchSound,
       SubSound, RecSound, OneLock, FxSound,
                ResSound, DriftSound, WsSound
  <2>2. Forward
    BY <1>11, ExchangeQuiet DEF vars, ledgerVars, wsVars, Forward, Phase
  <2>. QED BY <2>1, <2>2
<1>. QED BY <1>1, <1>2, <1>3, <1>4, <1>5, <1>6, <1>7, <1>8, <1>9, <1>10, <1>11 DEF Next

(* The strengthening holds in every reachable state. *)
THEOREM Invariance == Spec => []IInv
<1>1. IInv /\ [Next]_vars => IInv'
  BY NextIInv
<1>. QED BY <1>1, InitIInv, PTL DEF Spec

(* Every variable keeps its type, whatever the interleaving of the tasks. *)
THEOREM TypeCorrect == Spec => []TypeOK
<1>1. IInv => TypeOK
  BY DEF IInv
<1>. QED BY <1>1, Invariance, PTL

(* No race of a cancel with a fill, in any of the four callers, leaves bought *)
(* contracts behind a cancelled row.                                         *)
THEOREM CancelIsHonest == Spec => []CancelledHidesNoFill
<1>1. IInv => CancelledHidesNoFill
  <2> SUFFICES ASSUME IInv, NEW o \in Orders, row[o].status = "cancelled"
               PROVE  exch[o] = [status |-> "canceled", filled |-> 0]
    BY DEF CancelledHidesNoFill
  <2>1. exch[o] \in ExchOrder /\ exch[o].status = "canceled" /\ exch[o].filled = 0
    BY DEF IInv, TypeOK, OrderInv, Sound
  <2>. QED BY <2>1 DEF ExchOrder
<1>. QED BY <1>1, Invariance, PTL

(* An open row never holds contracts the exchange has not filled. *)
THEOREM NeverOverstated == Spec => []OpenNeverOverstated
<1>1. IInv => OpenNeverOverstated
  BY DEF IInv, OrderInv, Sound, OpenNeverOverstated
<1>. QED BY <1>1, Invariance, PTL

(* An order that can still fill is followed by the sweep, or its submitter has *)
(* not inserted its row.                                                      *)
THEOREM RestingIsTracked == Spec => []NoUntrackedResting
<1>1. IInv => NoUntrackedResting
  <2> SUFFICES ASSUME IInv, NEW o \in Orders, exch[o].status = "resting",
                      sub[o].step \notin {"replied", "orphan", "lost"}
               PROVE  Reconcilable(row[o])
    BY DEF NoUntrackedResting
  <2>1. row[o] \in Row /\ sub[o] \in SubState /\ OrderInv(o)
    BY DEF IInv, TypeOK
  <2>2. row[o].status # "none"
    BY <2>1 DEF SubState, OrderInv, SubSound
  <2>3. row[o].xstatus \in {"resting", "partial"}
    BY <2>1, <2>2 DEF OrderInv, Sound, Final, Terminal, Row, XStatus
  <2>. QED BY <2>1, <2>2, <2>3 DEF OrderInv, Sound, Row, RowStatus, Reconcilable
<1>. QED BY <1>1, Invariance, PTL

(* The ledger's view of every order goes through the phases of the exchange,  *)
(* late but never ahead and never back: OrderSync implements OrderTracking.   *)
THEOREM Refinement == Spec => TracksExchange
<1>1. Init => Tracking!Init
  BY DEF Init, Tracking!Init, NoRow, Phase
<1>2. IInv /\ IInv' /\ [Next]_vars
        => [Tracking!Next]_<<[o \in Orders |-> Phase(exch[o].status)],
                             [o \in Orders |-> Phase(row[o].xstatus)]>>
  <2> SUFFICES ASSUME IInv, IInv', [Next]_vars
               PROVE  Tracking!Next
    OBVIOUS
  <2>1. ASSUME NEW o \in Orders
        PROVE  /\ Phase(exch[o].status) <= Phase(exch'[o].status)
               /\ Phase(row[o].xstatus) <= Phase(row'[o].xstatus)
               /\ Phase(row'[o].xstatus) <= Phase(exch'[o].status)
    <3>1. Forward
      BY NextIInv
    <3>2. Phase(row'[o].xstatus) <= Phase(exch'[o].status)
      <4>1. exch'[o] \in ExchOrder /\ row'[o] \in Row /\ Sound(exch'[o], row'[o])
        BY DEF IInv, TypeOK, OrderInv
      <4>. QED BY <4>1 DEF Sound, Phase, Final, Terminal, ExchOrder, Row, XStatus, RowStatus
    <3>3. Phase(exch[o].status) <= Phase(exch'[o].status)
      <4>1. exch[o] \in ExchOrder /\ exch'[o] \in ExchOrder /\ Advance(exch[o], exch'[o])
        BY <3>1 DEF IInv, TypeOK, Forward
      <4>. QED BY <4>1 DEF Advance, Phase, Final, Terminal, ExchOrder, XStatus
    <3>. QED BY <3>1, <3>2, <3>3 DEF Forward
  <2>. QED BY <2>1 DEF Tracking!Next
<1>. QED BY <1>1, <1>2, Invariance, PTL DEF Spec, TracksExchange, Tracking!Spec
=============================================================================
