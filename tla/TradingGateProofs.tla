------------------------- MODULE TradingGateProofs -------------------------
(***************************************************************************)
(* Proofs about TradingGate, for every set of rows, of markets, of modes   *)
(* and every limit.                                                        *)
(*                                                                         *)
(* The checks of an entry come an LLM call or an exchange call before its   *)
(* row.  They hold all the same because the signal loop alone adds rows:    *)
(* whatever the other tasks do in between takes rows away or opens resting *)
(* ones (NoNewRows), and takes room from no entry (RoomLeft).               *)
(***************************************************************************)
EXTENDS TradingGate, FiniteSums

(* A row that counts was entered, and a loop past the gates has a market. *)
RowsBooked == \A r \in Rows :
  row[r].status # "free" =>
    row[r].mode \in Modes /\ row[r].market \in Markets /\ row[r].side \in Sides

LoopAimed ==
  /\ loop.at \in {"analyze", "submit", "assess", "place"} => loop.market \in Markets
  /\ loop.at \in {"submit", "assess", "place"} => loop.side \in Sides

Typed == TypeOK /\ RowsBooked /\ LoopAimed

(* What SubmitChecks found for the entry about to be placed is still so. *)
RoomLeft ==
  loop.at = "place" =>
    /\ Cardinality(Active(mode)) < MaxOpen
    /\ 100 * (loop.order + Exposure(Active(mode))) <= MaxTotalPct * loop.bank
    /\ 100 * (loop.order + Exposure(InMarket(loop.market))) <= MaxMarketPct * loop.bank

Roomy == Typed /\ PositionCap /\ RoomLeft

(* Market orders on paper do not rest, and the guard of SubmitOpens is still *)
(* met when the order is placed.                                             *)
PaperOpen == \A r \in Rows : row[r].mode = "paper" => row[r].status # "pending"

SideHeld ==
  mode = "paper" /\ loop.at \in {"assess", "place"} =>
    \A r \in Active("paper") : row[r].market = loop.market => row[r].side = loop.side

OneSided == \A r, s \in Active("paper") :
  row[r].market = row[s].market => row[r].side = row[s].side

PaperGuarded == Typed /\ (LimitEntries \/ (PaperOpen /\ SideHeld /\ OneSided))

GateInv == Roomy /\ PaperGuarded

-----------------------------------------------------------------------------
(* Books of rows and what they add up to.  The book is a parameter, so that *)
(* a lemma compares the one before a step with the one after it.            *)

ActiveIn(b, m)    == {r \in Rows : b[r].mode = m /\ b[r].status \in {"open", "pending"}}
MarketIn(b, m, k) == {r \in ActiveIn(b, m) : b[r].market = k}
Worth(b, rows)    == SumFunctionOnSet([r \in Rows |-> b[r].size], rows)

LEMMA BookOfNow ==
  /\ Active(mode) = ActiveIn(row, mode)
  /\ Exposure(Active(mode)) = Worth(row, ActiveIn(row, mode))
  /\ \A m : Active(m) = ActiveIn(row, m)
  /\ \A k : Exposure(InMarket(k)) = Worth(row, MarketIn(row, mode, k))
BY DEF Active, ActiveIn, Exposure, Worth, InMarket, MarketIn

LEMMA BookOfNext ==
  /\ Active(mode)' = ActiveIn(row', mode')
  /\ Exposure(Active(mode))' = Worth(row', ActiveIn(row', mode'))
  /\ \A m : Active(m)' = ActiveIn(row', m)
  /\ \A k : Exposure(InMarket(k))' = Worth(row', MarketIn(row', mode', k))
BY DEF Active, ActiveIn, Exposure, Worth, InMarket, MarketIn

LEMMA BookSets ==
  ASSUME NEW b \in [Rows -> RowType], NEW m, NEW k
  PROVE  /\ ActiveIn(b, m) \subseteq Rows /\ IsFiniteSet(ActiveIn(b, m))
         /\ MarketIn(b, m, k) \subseteq Rows /\ IsFiniteSet(MarketIn(b, m, k))
         /\ Cardinality(ActiveIn(b, m)) \in Nat
         /\ Worth(b, ActiveIn(b, m)) \in Nat /\ Worth(b, MarketIn(b, m, k)) \in Nat
<1>1. ActiveIn(b, m) \subseteq Rows /\ MarketIn(b, m, k) \subseteq Rows
  BY DEF ActiveIn, MarketIn
<1>2. IsFiniteSet(ActiveIn(b, m)) /\ IsFiniteSet(MarketIn(b, m, k))
  BY <1>1, GateAssumption, FS_Subset DEF GateAssumption
<1>3. Cardinality(ActiveIn(b, m)) \in Nat
  BY <1>2, FS_CardinalityType
<1>4. \A r \in Rows : [x \in Rows |-> b[x].size][r] \in Nat
  BY DEF RowType
<1>5. Worth(b, ActiveIn(b, m)) \in Nat /\ Worth(b, MarketIn(b, m, k)) \in Nat
  BY <1>1, <1>2, <1>4, SumNat DEF Worth
<1> QED BY <1>1, <1>2, <1>3, <1>5

(* No step but the placing of an order adds a row or moves one. *)
Shrinks(b, c) == \A r \in Rows :
  c[r].status # "free" =>
    /\ b[r].status # "free" /\ c[r].mode = b[r].mode
    /\ c[r].market = b[r].market /\ c[r].side = b[r].side
    /\ c[r].size = b[r].size
    /\ c[r].status \in {b[r].status, "open"}

NoNewRows == Shrinks(row, row')

LEMMA RoomStays ==
  ASSUME NEW b \in [Rows -> RowType], NEW c \in [Rows -> RowType], Shrinks(b, c), NEW m, NEW k
  PROVE  /\ ActiveIn(c, m) \subseteq ActiveIn(b, m)
         /\ Cardinality(ActiveIn(c, m)) <= Cardinality(ActiveIn(b, m))
         /\ Worth(c, ActiveIn(c, m)) <= Worth(b, ActiveIn(b, m))
         /\ Worth(c, MarketIn(c, m, k)) <= Worth(b, MarketIn(b, m, k))
<1> DEFINE f == [r \in Rows |-> b[r].size]
           h == [r \in Rows |-> c[r].size]
<1>1. ActiveIn(c, m) \subseteq ActiveIn(b, m) /\ MarketIn(c, m, k) \subseteq MarketIn(b, m, k)
  BY DEF ActiveIn, MarketIn, Shrinks, RowType
<1>2. /\ ActiveIn(b, m) \subseteq Rows /\ MarketIn(b, m, k) \subseteq Rows
      /\ IsFiniteSet(ActiveIn(b, m)) /\ IsFiniteSet(MarketIn(b, m, k))
  BY BookSets
<1>3. \A r \in Rows : f[r] \in Nat
  BY DEF RowType
<1>4. /\ \A r \in ActiveIn(c, m) : h[r] = f[r]
      /\ \A r \in MarketIn(c, m, k) : h[r] = f[r]
  BY DEF ActiveIn, MarketIn, Shrinks
<1> HIDE DEF f, h
<1>5. Cardinality(ActiveIn(c, m)) <= Cardinality(ActiveIn(b, m))
  BY <1>1, <1>2, FS_Subset
<1>6. SumFunctionOnSet(h, ActiveIn(c, m)) <= SumFunctionOnSet(f, ActiveIn(b, m))
  BY <1>1, <1>2, <1>3, <1>4, SumOfPart
<1>7. SumFunctionOnSet(h, MarketIn(c, m, k)) <= SumFunctionOnSet(f, MarketIn(b, m, k))
  BY <1>1, <1>2, <1>3, <1>4, SumOfPart
<1> QED BY <1>1, <1>5, <1>6, <1>7 DEF Worth, f, h

(* What a new row adds to the rows it joins. *)
LEMMA RowAdded ==
  ASSUME NEW b \in [Rows -> RowType], NEW T, T \subseteq Rows,
         NEW r \in Rows, r \notin T, NEW w \in RowType
  PROVE  Worth([b EXCEPT ![r] = w], T \cup {r}) = w.size + Worth(b, T)
<1> DEFINE f == [x \in Rows |-> b[x].size]
           h == [x \in Rows |-> [b EXCEPT ![r] = w][x].size]
<1>1. \A x \in Rows : f[x] \in Int /\ h[x] \in Int
  BY DEF RowType
<1>2. h[r] = w.size /\ \A x \in T : f[x] = h[x]
  OBVIOUS
<1> HIDE DEF f, h
<1>3. IsFiniteSet(T)
  BY FS_Subset, GateAssumption DEF GateAssumption
<1>4. SumFunctionOnSet(f, T) = SumFunctionOnSet(h, T)
  BY <1>2, <1>3, SumSame
<1>5. \A x \in T \cup {r} : h[x] \in Int
  BY <1>1
<1>6. SumFunctionOnSet(h, T \cup {r}) = h[r] + SumFunctionOnSet(h, T)
  BY <1>3, <1>5, SumWith
<1> QED BY <1>2, <1>4, <1>6 DEF Worth, f, h

-----------------------------------------------------------------------------
(* The types.                                                              *)

LEMMA InitTyped == Init => Typed
<1> SUFFICES ASSUME Init PROVE Typed
  OBVIOUS
<1>1. Free \in RowType /\ Sleep \in LoopType
  BY DEF Free, RowType, Sleep, LoopType, Steps
<1>2. row \in [Rows -> RowType] /\ RowsBooked
  BY <1>1 DEF Init, RowsBooked, Free
<1>3. loop \in LoopType /\ LoopAimed
  BY <1>1 DEF Init, LoopAimed, Sleep
<1>4. Init => closes \in 0..MaxCloses /\ commands \in 0..MaxCommands
  BY GateAssumption DEF GateAssumption, Init
<1>5. /\ pnl \in [Modes -> Int] /\ recent \in [Modes -> Int] /\ baseline \in [Modes -> Nat]
      /\ lossy \subseteq Modes \X Markets
  BY DEF Init
<1>6. /\ flagged \in BOOLEAN /\ clearing \in BOOLEAN /\ tripped \in BOOLEAN /\ mode \in Modes
      /\ state \in {"running", "paused", "stopped"}
  BY DEF Init
<1> QED BY <1>2, <1>3, <1>4, <1>5, <1>6 DEF Typed, TypeOK

LEMMA BankrollType == ASSUME Typed, NEW m \in Modes PROVE Bankroll(m) \in Nat
BY GateAssumption DEF GateAssumption, Typed, TypeOK, Bankroll

(* A step of the loop that changes nothing but where it is. *)
LEMMA LoopMoves ==
  ASSUME Typed, loop' \in LoopType, LoopAimed', tripped' \in BOOLEAN, flagged' \in BOOLEAN,
         UNCHANGED <<book, state, baseline, clearing, mode, bounds>>
  PROVE  Typed' /\ NoNewRows
<1> USE DEF book, bounds
<1>1. TypeOK'
  BY DEF Typed, TypeOK, RowType
<1>2. RowsBooked' /\ NoNewRows
  BY DEF Typed, TypeOK, RowType, RowsBooked, NoNewRows, Shrinks
<1> QED BY <1>1, <1>2 DEF Typed

LEMMA BackToMarkets ==
  ASSUME Typed, loop' = NextOrDone
  PROVE  loop' \in LoopType /\ LoopAimed'
BY DEF Typed, TypeOK, LoopType, LoopAimed, NextOrDone, Steps

LEMMA LoopTyped ==
  ASSUME Typed, LoopStep, ~PlaceOrder
  PROVE  Typed' /\ NoNewRows
<1> USE DEF panel
<1> USE DEF LoopType, Steps, Sides, Sleep, NextOrDone, LoopAimed, At, Typed, TypeOK
<1>1. CASE BeginCycle
  <2>1. PICK picked \in SUBSET Markets :
          loop' = [Sleep EXCEPT !.at = "breakers", !.state = state,
                                !.held = {k \in Markets : Open(mode, k) # {}},
                                !.todo = {k \in Markets : Open(mode, k) # {}} \cup picked]
    BY <1>1 DEF BeginCycle
  <2>2. loop' \in LoopType /\ LoopAimed'
    BY <2>1
  <2> QED BY <1>1, <2>2, LoopMoves DEF BeginCycle
<1>2. CASE CheckBreakers
  <2>1. tripped' \in BOOLEAN
    BY <1>2 DEF CheckBreakers, BreakerTripped
  <2> QED BY <1>2, <2>1, LoopMoves DEF CheckBreakers
<1>3. CASE PersistBreaker
  BY <1>3, LoopMoves DEF PersistBreaker
<1>4. CASE CheckCapacity
  BY <1>4, LoopMoves DEF CheckCapacity, GateOn, CapacityFull
<1>5. CASE NextMarket
  BY <1>5, LoopMoves DEF NextMarket
<1>6. CASE Analyze
  <2>1. loop' = NextOrDone \/ \E s \in Sides : loop' = [loop EXCEPT !.at = "submit", !.side = s]
    BY <1>6 DEF Analyze
  <2>2. loop.market \in Markets
    BY <1>6 DEF Analyze
  <2>3. ASSUME NEW s \in Sides, loop' = [loop EXCEPT !.at = "submit", !.side = s]
        PROVE  loop' \in LoopType /\ LoopAimed'
    BY <2>2, <2>3
  <2>4. loop' \in LoopType /\ LoopAimed'
    BY <2>1, <2>3, BackToMarkets
  <2> QED BY <1>6, <2>4, LoopMoves DEF Analyze
<1>7. CASE SubmitOpens
  <2>1. Bankroll(mode) \in Nat
    BY BankrollType
  <2>2. loop' \in LoopType /\ LoopAimed'
    <3>1. loop.market \in Markets /\ loop.side \in Sides
      BY <1>7 DEF SubmitOpens
    <3>2. CASE loop' = NextOrDone
      BY <3>2, BackToMarkets
    <3>3. CASE loop' = [loop EXCEPT !.at = "assess", !.bank = Bankroll(mode),
                                    !.adds = Open(mode, loop.market) # {}]
      BY <2>1, <3>1, <3>3
    <3> QED BY <1>7, <3>2, <3>3 DEF SubmitOpens
  <2> QED BY <1>7, <2>2, LoopMoves DEF SubmitOpens
<1>8. CASE SubmitChecks
  <2>1. loop' \in LoopType /\ LoopAimed'
    <3>1. loop.market \in Markets /\ loop.side \in Sides /\ loop.at = "assess"
      BY <1>8 DEF SubmitChecks
    <3>2. \/ loop' = NextOrDone \/ loop' = Sleep
          \/ \E asked \in 0..Deposit : \E n \in 0..asked :
               loop' = [loop EXCEPT !.at = "place", !.order = n]
      BY <1>8 DEF SubmitChecks
    <3>3. CASE loop' = Sleep
      BY <3>3
    <3>4. ASSUME NEW asked \in 0..Deposit, NEW n \in 0..asked,
                 loop' = [loop EXCEPT !.at = "place", !.order = n]
          PROVE  loop' \in LoopType /\ LoopAimed'
      <4>1. n \in Nat
        BY GateAssumption DEF GateAssumption
      <4> QED BY <3>1, <3>4, <4>1
    <3> QED BY <3>2, <3>3, <3>4, BackToMarkets
  <2> QED BY <1>8, <2>1, LoopMoves DEF SubmitChecks
<1>9. CASE EndCycle
  BY <1>9, LoopMoves DEF EndCycle
<1>10. CASE CycleFails
  BY <1>10, LoopMoves DEF CycleFails
<1> QED BY <1>1, <1>2, <1>3, <1>4, <1>5, <1>6, <1>7, <1>8, <1>9, <1>10 DEF LoopStep

(* The row an order is booked in, where one is. *)
LEMMA PlacedRow ==
  ASSUME Typed, PlaceOrder, row' # row
  PROVE  \E r \in Rows, s \in EntryStatus :
           /\ row[r] = Free
           /\ row' = [row EXCEPT ![r] = [status |-> s, mode |-> mode, market |-> loop.market,
                                         side |-> loop.side, size |-> loop.order]]
<1>1. PICK s \in EntryStatus :
        /\ row[NewRow] = Free
        /\ row' = [row EXCEPT ![NewRow] = [status |-> s, mode |-> mode, market |-> loop.market,
                                           side |-> loop.side, size |-> loop.order]]
  BY DEF PlaceOrder
<1>2. NewRow \in Rows
  BY <1>1 DEF Typed, TypeOK
<1> QED BY <1>1, <1>2

LEMMA PlaceTyped ==
  ASSUME Typed, PlaceOrder
  PROVE  Typed'
<1>1. /\ loop.at = "place" /\ loop' = NextOrDone
      /\ UNCHANGED <<pnl, recent, lossy, panel, mode, tripped, bounds>>
  BY DEF PlaceOrder, At
<1>2. row' \in [Rows -> RowType] /\ RowsBooked'
  <2>1. CASE row' = row
    BY <1>1, <2>1 DEF Typed, TypeOK, RowType, RowsBooked
  <2>2. CASE row' # row
    <3>1. PICK r \in Rows, s \in EntryStatus :
            row' = [row EXCEPT ![r] = [status |-> s, mode |-> mode, market |-> loop.market,
                                       side |-> loop.side, size |-> loop.order]]
      BY <2>2, PlacedRow
    <3>2. /\ s \in {"open", "pending"} /\ mode \in Modes /\ loop.market \in Markets
          /\ loop.side \in Sides /\ loop.order \in Nat
      BY <1>1 DEF EntryStatus, Typed, TypeOK, LoopType, LoopAimed
    <3> QED BY <1>1, <3>1, <3>2 DEF Typed, TypeOK, RowType, RowsBooked
  <2> QED BY <2>1, <2>2
<1>3. loop' \in LoopType /\ LoopAimed'
  BY <1>1 DEF Typed, TypeOK, LoopType, LoopAimed, NextOrDone, Steps
<1> QED BY <1>1, <1>2, <1>3 DEF Typed, TypeOK, panel, bounds

(* The other tasks take rows away or open them; the loop does not move. *)
LEMMA OthersTyped ==
  ASSUME Typed,
         CooldownElapses \/ Midnight \/ \E r \in Rows : Fill(r) \/ CancelPending(r) \/ Close(r)
  PROVE  Typed' /\ NoNewRows /\ UNCHANGED <<mode, loop>>
<1> USE DEF panel, bounds
<1>1. CASE CooldownElapses \/ Midnight
  BY <1>1 DEF CooldownElapses, Midnight, Typed, TypeOK, RowType, RowsBooked, LoopAimed,
              LoopType, NoNewRows, Shrinks
<1>2. ASSUME NEW r \in Rows, Fill(r) \/ CancelPending(r) \/ Close(r)
      PROVE  Typed' /\ NoNewRows /\ UNCHANGED <<mode, loop>>
  <2>1. UNCHANGED <<mode, loop, panel, tripped, commands>>
    BY <1>2 DEF Fill, CancelPending, Close
  <2>2. CASE Fill(r)
    BY <2>1, <2>2 DEF Fill, Typed, TypeOK, RowType, RowsBooked, LoopAimed, NoNewRows, Shrinks
  <2>3. CASE CancelPending(r)
    BY <2>1, <2>3 DEF CancelPending, Typed, TypeOK, RowType, RowsBooked, LoopAimed, NoNewRows, Shrinks,
                      Free
  <2>4. CASE Close(r)
    <3>1. row' = [row EXCEPT ![r] = Free] /\ closes' = closes + 1 /\ closes < MaxCloses
      BY <2>4 DEF Close
    <3>2. row' \in [Rows -> RowType] /\ RowsBooked' /\ NoNewRows
      BY <3>1 DEF Typed, TypeOK, RowType, RowsBooked, NoNewRows, Shrinks, Free
    <3>3. PICK gain \in {-row[r].size, row[r].size} :
            /\ pnl' = [pnl EXCEPT ![mode] = @ + gain]
            /\ recent' = [recent EXCEPT ![mode] = @ + gain]
            /\ lossy' = IF gain < 0 THEN lossy \cup {<<mode, row[r].market>>} ELSE lossy
      BY <2>4 DEF Close
    <3>4. gain \in Int /\ row[r].market \in Markets
      BY <2>4, <3>3 DEF Close, Typed, TypeOK, RowType, RowsBooked
    <3>5. pnl' \in [Modes -> Int] /\ recent' \in [Modes -> Int] /\ lossy' \subseteq Modes \X Markets
      BY <3>3, <3>4 DEF Typed, TypeOK
    <3>6. closes' \in 0..MaxCloses
      BY <3>1, GateAssumption DEF Typed, TypeOK, GateAssumption
    <3> QED BY <2>1, <3>2, <3>5, <3>6 DEF Typed, TypeOK, LoopAimed
  <2> QED BY <1>2, <2>1, <2>2, <2>3, <2>4
<1> QED BY <1>1, <1>2

(* A command moves no row; a restart may change the mode, with the loop asleep. *)
LEMMA CommandTyped ==
  ASSUME Typed,
         ResetDrawdown \/ ClearFlag \/ Restart
           \/ \E s \in {"running", "paused", "stopped"} : SetRunState(s)
  PROVE  /\ Typed' /\ UNCHANGED row
         /\ UNCHANGED <<mode, loop>> \/ loop' = Sleep
<1> USE DEF book, bounds
<1>1. Command => commands' \in 0..MaxCommands
  BY GateAssumption DEF Command, Typed, TypeOK, GateAssumption
<1>2. CASE ResetDrawdown
  <2>1. Bankroll(mode) \in Nat
    BY BankrollType DEF Typed, TypeOK
  <2> QED BY <1>1, <1>2, <2>1 DEF ResetDrawdown, Typed, TypeOK, RowsBooked, LoopAimed
<1>3. CASE ClearFlag
  BY <1>3 DEF ClearFlag, Typed, TypeOK, RowsBooked, LoopAimed
<1>4. CASE Restart
  <2>1. Sleep \in LoopType
    BY DEF Sleep, LoopType, Steps
  <2> QED BY <1>1, <1>4, <2>1 DEF Restart, Typed, TypeOK, RowsBooked, LoopAimed, Sleep
<1>5. ASSUME NEW s \in {"running", "paused", "stopped"}, SetRunState(s)
      PROVE  Typed' /\ UNCHANGED <<row, mode, loop>>
  BY <1>1, <1>5 DEF SetRunState, Typed, TypeOK, RowsBooked, LoopAimed
<1> QED BY <1>2, <1>3, <1>4, <1>5

LEMMA StutterTyped ==
  ASSUME Typed, UNCHANGED vars
  PROVE  Typed' /\ UNCHANGED <<row, mode, loop>>
BY DEF vars, book, panel, bounds, Typed, TypeOK, RowsBooked, LoopAimed

(* Every step, from here on, is one of three kinds. *)
LEMMA StepKinds ==
  ASSUME Typed, [Next]_vars
  PROVE  /\ Typed'
         /\ \/ PlaceOrder
            \/ NoNewRows /\ mode' = mode /\ (loop' = loop \/ LoopStep)
            \/ UNCHANGED row /\ loop' = Sleep
<1>1. ASSUME UNCHANGED row PROVE NoNewRows
  BY <1>1 DEF NoNewRows, Shrinks, Typed, TypeOK, RowType
<1>2. LoopStep => UNCHANGED mode
  BY DEF LoopStep, BeginCycle, CheckBreakers, PersistBreaker, CheckCapacity, NextMarket,
         Analyze, SubmitOpens, SubmitChecks, PlaceOrder, EndCycle, CycleFails
<1>3. CASE UNCHANGED vars
  BY <1>1, <1>3, StutterTyped
<1>4. CASE LoopStep
  BY <1>2, <1>4, LoopTyped, PlaceTyped
<1>5. CASE CooldownElapses \/ Midnight
             \/ \E r \in Rows : Fill(r) \/ CancelPending(r) \/ Close(r)
  BY <1>5, OthersTyped
<1>6. CASE ResetDrawdown \/ ClearFlag \/ Restart
             \/ \E s \in {"running", "paused", "stopped"} : SetRunState(s)
  BY <1>1, <1>6, CommandTyped
<1> QED BY <1>3, <1>4, <1>5, <1>6 DEF Next

-----------------------------------------------------------------------------
(* The caps.                                                               *)

(* Only the checks of submit let an order through, within the caps. *)
LEMMA Destinations ==
  ASSUME Typed
  PROVE  NextOrDone.at = "markets" /\ Sleep.at = "sleep"
BY DEF Typed, TypeOK, LoopType, NextOrDone, Sleep

LEMMA OnlyChecksPlace ==
  ASSUME Typed, LoopStep, loop'.at \in {"assess", "place"}
  PROVE  IF loop'.at = "place" THEN SubmitChecks ELSE SubmitOpens
<1> USE DEF Typed, TypeOK, LoopType
<1>1. CASE BeginCycle \/ CheckBreakers \/ PersistBreaker \/ CheckCapacity
  BY <1>1 DEF BeginCycle, CheckBreakers, PersistBreaker, CheckCapacity, Sleep
<1>2. CASE PlaceOrder
  BY <1>2, Destinations DEF PlaceOrder
<1>3. CASE EndCycle \/ CycleFails
  BY <1>3, Destinations DEF EndCycle, CycleFails
<1>4. CASE NextMarket
  BY <1>4 DEF NextMarket, At
<1>5. CASE Analyze
  BY <1>5, Destinations DEF Analyze
<1>6. CASE SubmitOpens
  BY <1>6, Destinations DEF SubmitOpens
<1>7. CASE SubmitChecks
  <2>1. \/ loop' = NextOrDone \/ loop' = Sleep
        \/ \E n \in Int : loop' = [loop EXCEPT !.at = "place", !.order = n]
    <3>1. PICK asked \in 0..Deposit :
            \/ loop' = NextOrDone \/ loop' = Sleep
            \/ \E n \in 0..asked :
                 loop' = IF n = 0 THEN NextOrDone ELSE [loop EXCEPT !.at = "place", !.order = n]
      BY <1>7 DEF SubmitChecks
    <3>2. ASSUME NEW n \in 0..asked,
                 loop' = IF n = 0 THEN NextOrDone ELSE [loop EXCEPT !.at = "place", !.order = n]
          PROVE  \/ loop' = NextOrDone
                 \/ \E x \in Int : loop' = [loop EXCEPT !.at = "place", !.order = x]
      <4>1. n \in Int
        OBVIOUS
      <4> QED BY <3>2, <4>1
    <3> QED BY <3>1, <3>2
  <2>2. loop'.at = "place"
    BY <2>1, Destinations
  <2> QED BY <1>7, <2>2
<1> QED BY <1>1, <1>2, <1>3, <1>4, <1>5, <1>6, <1>7 DEF LoopStep

LEMMA EntersPlace ==
  ASSUME Typed, LoopStep, loop'.at = "place"
  PROVE  /\ row' = row
         /\ Cardinality(Active(mode)) < MaxOpen
         /\ Fits(loop'.order, loop'.bank, loop'.market)
         /\ loop.at = "assess" /\ loop'.market = loop.market /\ loop'.side = loop.side
<1> USE DEF Typed, TypeOK, LoopType
<1>1. SubmitChecks
  BY OnlyChecksPlace
<1>2. loop.at = "assess" /\ row' = row
  BY <1>1 DEF SubmitChecks, At, book
<1>3. PICK asked \in 0..Deposit : \E n \in 0..asked :
        /\ CappedTo(n, asked, loop.bank, loop.market)
        /\ loop' = IF n = 0 THEN NextOrDone ELSE [loop EXCEPT !.at = "place", !.order = n]
  BY <1>1, Destinations DEF SubmitChecks
<1>4. PICK n \in 0..asked :
        /\ CappedTo(n, asked, loop.bank, loop.market)
        /\ loop' = IF n = 0 THEN NextOrDone ELSE [loop EXCEPT !.at = "place", !.order = n]
  BY <1>3
<1>5. n # 0 /\ loop' = [loop EXCEPT !.at = "place", !.order = n]
  BY <1>4, Destinations
<1>6. ~CapacityFull(loop.bank) /\ Fits(n, loop.bank, loop.market)
  BY <1>4, <1>5 DEF CappedTo
<1>7. Cardinality(Active(mode)) < MaxOpen
  <2>1. Cardinality(Active(mode)) \in Nat
    BY BookOfNow, BookSets
  <2> QED BY <1>6, <2>1, GateAssumption DEF CapacityFull, GateAssumption
<1>8. loop'.order = n /\ loop'.bank = loop.bank /\ loop'.market = loop.market
        /\ loop'.side = loop.side
  BY <1>5
<1> QED BY <1>2, <1>6, <1>7, <1>8

LEMMA PlacedWithinCaps ==
  ASSUME Roomy, PlaceOrder, row' # row
  PROVE  /\ PositionCap'
         /\ 100 * Exposure(Active(mode))' <= MaxTotalPct * loop.bank
         /\ \A k \in {loop.market} :
              100 * Exposure(InMarket(k))' <= MaxMarketPct * loop.bank
<1>1. Typed /\ Typed' /\ loop.at = "place" /\ UNCHANGED mode
  BY PlaceTyped DEF Roomy, PlaceOrder, At
<1>2. PICK r \in Rows, s \in EntryStatus :
        /\ row[r] = Free
        /\ row' = [row EXCEPT ![r] = [status |-> s, mode |-> mode, market |-> loop.market,
                                      side |-> loop.side, size |-> loop.order]]
  BY <1>1, PlacedRow
<1> DEFINE w == [status |-> s, mode |-> mode, market |-> loop.market,
                 side |-> loop.side, size |-> loop.order]
           old == ActiveIn(row, mode)
           here == MarketIn(row, mode, loop.market)
<1>3. s \in {"open", "pending"}
  BY DEF EntryStatus
<1>4. /\ w \in RowType /\ w.size = loop.order /\ w.mode = mode /\ w.market = loop.market
      /\ w.status \in {"open", "pending"}
  BY <1>1, <1>3 DEF Typed, TypeOK, RowType, LoopType, LoopAimed
<1>5. row[r].status = "free" /\ row' = [row EXCEPT ![r] = w] /\ row \in [Rows -> RowType]
  BY <1>1, <1>2 DEF Free, Typed, TypeOK
<1> HIDE DEF w
<1>6. \A x \in Rows : row'[x] = IF x = r THEN w ELSE row[x]
  BY <1>5
<1>7. /\ ActiveIn(row', mode) = old \cup {r}
      /\ \A m \in Modes \ {mode} : ActiveIn(row', m) = ActiveIn(row, m)
  BY <1>4, <1>5, <1>6 DEF ActiveIn
<1>8. MarketIn(row', mode, loop.market) = here \cup {r}
  BY <1>4, <1>5, <1>6, <1>7 DEF MarketIn, ActiveIn
<1>9. r \notin old /\ r \notin here
  BY <1>5 DEF ActiveIn, MarketIn
<1>10. /\ old \subseteq Rows /\ here \subseteq Rows /\ IsFiniteSet(old)
       /\ Cardinality(old) \in Nat
  BY <1>5, BookSets
<1>11. /\ Cardinality(old) < MaxOpen
       /\ 100 * (loop.order + Worth(row, old)) <= MaxTotalPct * loop.bank
       /\ 100 * (loop.order + Worth(row, here)) <= MaxMarketPct * loop.bank
  BY <1>1, BookOfNow DEF Roomy, RoomLeft
<1> HIDE DEF old, here
<1>12. /\ Worth(row', old \cup {r}) = loop.order + Worth(row, old)
       /\ Worth(row', here \cup {r}) = loop.order + Worth(row, here)
  <2>1. /\ Worth([row EXCEPT ![r] = w], old \cup {r}) = w.size + Worth(row, old)
        /\ Worth([row EXCEPT ![r] = w], here \cup {r}) = w.size + Worth(row, here)
    BY <1>4, <1>5, <1>9, <1>10, RowAdded
  <2> QED BY <1>4, <1>5, <2>1
<1>13. Cardinality(old \cup {r}) <= MaxOpen
  <2>1. Cardinality(old \cup {r}) = Cardinality(old) + 1
    BY <1>9, <1>10, FS_AddElement
  <2> QED BY <1>10, <1>11, <2>1, GateAssumption DEF GateAssumption
<1>14. PositionCap'
  <2> SUFFICES ASSUME NEW m \in Modes PROVE Cardinality(Active(m)') <= MaxOpen
    BY DEF PositionCap
  <2>1. CASE m = mode
    BY <1>7, <1>13, <2>1, BookOfNext
  <2>2. CASE m # mode
    BY <1>7, <2>2, BookOfNow, BookOfNext DEF Roomy, PositionCap
  <2> QED BY <2>1, <2>2
<1>15. Exposure(Active(mode))' = loop.order + Worth(row, old)
  BY <1>1, <1>7, <1>12, BookOfNext
<1>16. \A k \in {loop.market} : Exposure(InMarket(k))' = loop.order + Worth(row, here)
  BY <1>1, <1>8, <1>12, BookOfNext
<1> QED BY <1>11, <1>14, <1>15, <1>16

LEMMA RoomyStep ==
  ASSUME Roomy, [Next]_vars
  PROVE  Roomy'
<1>1. Typed /\ Typed' /\ row \in [Rows -> RowType] /\ row' \in [Rows -> RowType]
  BY StepKinds DEF Roomy, Typed, TypeOK
<1>2. CASE PlaceOrder
  <2>1. loop'.at = "markets"
    BY <1>1, <1>2 DEF PlaceOrder, NextOrDone, Typed, TypeOK, LoopType
  <2>2. CASE row' = row
    BY <1>1, <2>1, <2>2 DEF Roomy, PositionCap, RoomLeft, Active
  <2>3. CASE row' # row
    BY <1>1, <1>2, <2>1, <2>3, PlacedWithinCaps DEF Roomy, RoomLeft
  <2> QED BY <2>2, <2>3
<1>3. CASE NoNewRows /\ mode' = mode /\ (loop' = loop \/ LoopStep)
  <2>1. PositionCap'
    <3> SUFFICES ASSUME NEW m \in Modes PROVE Cardinality(Active(m)') <= MaxOpen
      BY DEF PositionCap
    <3>1. /\ Cardinality(ActiveIn(row', m)) <= Cardinality(ActiveIn(row, m))
          /\ Cardinality(ActiveIn(row, m)) \in Nat /\ Cardinality(ActiveIn(row', m)) \in Nat
      BY <1>1, <1>3, RoomStays, BookSets DEF NoNewRows
    <3>2. Cardinality(ActiveIn(row, m)) <= MaxOpen
      BY BookOfNow DEF Roomy, PositionCap
    <3>3. Cardinality(ActiveIn(row', m)) <= MaxOpen
      BY <3>1, <3>2, GateAssumption DEF GateAssumption
    <3> QED BY <3>3, BookOfNext
  <2>2. RoomLeft'
    <3> SUFFICES ASSUME loop'.at = "place" PROVE RoomLeft'
      BY DEF RoomLeft
    <3> DEFINE k == loop'.market
    <3>1. /\ Cardinality(ActiveIn(row, mode)) < MaxOpen
          /\ 100 * (loop'.order + Worth(row, ActiveIn(row, mode))) <= MaxTotalPct * loop'.bank
          /\ 100 * (loop'.order + Worth(row, MarketIn(row, mode, k)))
               <= MaxMarketPct * loop'.bank
      <4>1. CASE loop' = loop
        BY <4>1, BookOfNow DEF Roomy, RoomLeft
      <4>2. CASE LoopStep
        BY <1>1, <4>2, EntersPlace, BookOfNow DEF Fits
      <4> QED BY <1>3, <4>1, <4>2
    <3>2. /\ Cardinality(ActiveIn(row', mode)) <= Cardinality(ActiveIn(row, mode))
          /\ Worth(row', ActiveIn(row', mode)) <= Worth(row, ActiveIn(row, mode))
          /\ Worth(row', MarketIn(row', mode, k)) <= Worth(row, MarketIn(row, mode, k))
      BY <1>1, <1>3, RoomStays DEF NoNewRows
    <3>3. /\ Cardinality(ActiveIn(row, mode)) \in Nat
          /\ Cardinality(ActiveIn(row', mode)) \in Nat
          /\ Worth(row, ActiveIn(row, mode)) \in Nat
          /\ Worth(row', ActiveIn(row', mode)) \in Nat
          /\ Worth(row, MarketIn(row, mode, k)) \in Nat
          /\ Worth(row', MarketIn(row', mode, k)) \in Nat
      BY <1>1, BookSets
    <3>4. loop'.order \in Nat /\ loop'.bank \in Nat
      BY <1>1 DEF Typed, TypeOK, LoopType
    <3>5. /\ Cardinality(ActiveIn(row', mode)) < MaxOpen
          /\ 100 * (loop'.order + Worth(row', ActiveIn(row', mode))) <= MaxTotalPct * loop'.bank
          /\ 100 * (loop'.order + Worth(row', MarketIn(row', mode, k)))
               <= MaxMarketPct * loop'.bank
      <4>1. MaxTotalPct * loop'.bank \in Nat /\ MaxMarketPct * loop'.bank \in Nat
        BY <3>4, GateAssumption DEF GateAssumption
      <4> DEFINE t == MaxTotalPct * loop'.bank
                 u == MaxMarketPct * loop'.bank
      <4> HIDE DEF t, u
      <4> QED BY <3>1, <3>2, <3>3, <3>4, <4>1, GateAssumption DEF GateAssumption
    <3> QED BY <1>3, <3>5, BookOfNext DEF RoomLeft
  <2> QED BY <1>1, <2>1, <2>2 DEF Roomy
<1>4. CASE UNCHANGED row /\ loop' = Sleep
  BY <1>1, <1>4 DEF Roomy, PositionCap, RoomLeft, Active, Sleep
<1> QED BY <1>1, <1>2, <1>3, <1>4, StepKinds DEF Roomy

-----------------------------------------------------------------------------
(* The sides on paper.                                                     *)

LEMMA EntersAssess ==
  ASSUME Typed, LoopStep, loop'.at = "assess"
  PROVE  /\ row' = row /\ mode' = mode
         /\ \A r \in Open(mode, loop'.market) : row[r].side = loop'.side
<1>1. SubmitOpens
  BY OnlyChecksPlace
<1>2. /\ \A r \in Open(mode, loop.market) : row[r].side = loop.side
      /\ loop' = [loop EXCEPT !.at = "assess", !.bank = Bankroll(mode),
                              !.adds = Open(mode, loop.market) # {}]
  BY <1>1 DEF SubmitOpens, NextOrDone, Typed, TypeOK, LoopType
<1>3. loop'.market = loop.market /\ loop'.side = loop.side
  BY <1>2 DEF Typed, TypeOK, LoopType
<1> QED BY <1>1, <1>2, <1>3 DEF SubmitOpens, book

LEMMA PaperStep ==
  ASSUME Typed, PaperOpen, SideHeld, OneSided, ~LimitEntries, [Next]_vars
  PROVE  PaperOpen' /\ SideHeld' /\ OneSided'
<1>1. Typed /\ Typed'
  BY StepKinds
<1>2. CASE PlaceOrder
  <2>1. loop'.at = "markets" /\ loop.at = "place" /\ mode' = mode
    BY <1>1, <1>2 DEF PlaceOrder, NextOrDone, Typed, TypeOK, LoopType, At
  <2>2. CASE row' = row
    BY <2>1, <2>2 DEF PaperOpen, SideHeld, OneSided, Active
  <2>3. CASE row' # row
    <3>1. PICK q \in Rows, s \in EntryStatus :
            row' = [row EXCEPT ![q] = [status |-> s, mode |-> mode, market |-> loop.market,
                                       side |-> loop.side, size |-> loop.order]]
      BY <1>1, <1>2, <2>3, PlacedRow
    <3>2. \A x \in Rows \ {q} : row'[x] = row[x]
      BY <1>1, <3>1 DEF Typed, TypeOK
    <3>3. /\ row'[q].mode = mode /\ row'[q].market = loop.market /\ row'[q].side = loop.side
          /\ row'[q].status = s
      BY <1>1, <3>1 DEF Typed, TypeOK
    <3>4. mode = "paper" => s = "open"
      BY DEF EntryStatus
    <3>5. PaperOpen' /\ SideHeld'
      BY <2>1, <3>2, <3>3, <3>4 DEF PaperOpen, SideHeld
    <3>6. \A r \in Active("paper")' : r # q => r \in Active("paper") /\ row'[r] = row[r]
      BY <3>2 DEF Active
    <3>7. ASSUME NEW r \in Active("paper")', r # q, q \in Active("paper")',
                 row'[r].market = row'[q].market
          PROVE  row'[r].side = row'[q].side
      <4>1. mode = "paper"
        BY <3>3, <3>7 DEF Active
      <4> QED BY <2>1, <3>3, <3>6, <3>7, <4>1 DEF SideHeld
    <3> QED BY <3>5, <3>6, <3>7 DEF OneSided
  <2> QED BY <2>2, <2>3
<1>3. CASE NoNewRows /\ mode' = mode /\ (loop' = loop \/ LoopStep)
  <2>1. Active("paper")' \subseteq Active("paper")
    BY <1>1, <1>3 DEF Active, NoNewRows, Shrinks, Typed, TypeOK, RowType
  <2>2. \A r \in Active("paper")' : row'[r].market = row[r].market /\ row'[r].side = row[r].side
    BY <1>3 DEF Active, NoNewRows, Shrinks
  <2>3. PaperOpen' /\ OneSided'
    <3>1. PaperOpen'
      BY <1>3 DEF PaperOpen, NoNewRows, Shrinks
    <3> QED BY <2>1, <2>2, <3>1 DEF OneSided
  <2>4. SideHeld'
    <3>1. CASE loop' = loop
      BY <1>3, <2>1, <2>2, <3>1 DEF SideHeld
    <3>2. CASE LoopStep /\ loop'.at = "assess"
      <4>1. \A r \in Active("paper") : row[r].status = "open"
        BY DEF Active, PaperOpen
      <4> QED BY <1>1, <1>3, <2>1, <2>2, <3>2, <4>1, EntersAssess DEF SideHeld, Active, Open
    <3>3. CASE LoopStep /\ loop'.at = "place"
      BY <1>1, <1>3, <2>1, <2>2, <3>3, EntersPlace DEF SideHeld
    <3> QED BY <1>3, <3>1, <3>2, <3>3 DEF SideHeld
  <2> QED BY <2>3, <2>4
<1>4. CASE UNCHANGED row /\ loop' = Sleep
  BY <1>4 DEF PaperOpen, SideHeld, OneSided, Active, Sleep
<1> QED BY <1>1, <1>2, <1>3, <1>4, StepKinds

-----------------------------------------------------------------------------
(* The theorems.                                                           *)

LEMMA InitGateInv == Init => GateInv
<1> SUFFICES ASSUME Init PROVE GateInv
  OBVIOUS
<1>1. Typed /\ loop.at = "sleep" /\ \A m : Active(m) = {}
  BY InitTyped DEF Init, Sleep, Active, Free
<1>2. PositionCap
  BY <1>1, FS_EmptySet, GateAssumption DEF PositionCap, GateAssumption
<1>3. PaperOpen
  BY DEF Init, PaperOpen, Free
<1> QED BY <1>1, <1>2, <1>3 DEF GateInv, Roomy, PaperGuarded, RoomLeft, SideHeld, OneSided

LEMMA NextGateInv == GateInv /\ [Next]_vars => GateInv'
<1> SUFFICES ASSUME GateInv, [Next]_vars PROVE GateInv'
  OBVIOUS
<1>1. Roomy' /\ Typed'
  BY RoomyStep DEF GateInv, Roomy
<1>2. LimitEntries => PaperGuarded'
  BY <1>1 DEF PaperGuarded
<1>3. ~LimitEntries => PaperGuarded'
  <2>1. ~LimitEntries => Typed /\ PaperOpen /\ SideHeld /\ OneSided
    BY DEF GateInv, PaperGuarded
  <2> QED BY <1>1, <2>1, PaperStep DEF PaperGuarded
<1> QED BY <1>1, <1>2, <1>3, GateAssumption DEF GateInv, GateAssumption

(* Every variable keeps its type. *)
THEOREM GateTypes == Spec => []TypeOK
<1>1. GateInv => TypeOK
  BY DEF GateInv, Roomy, Typed
<1> QED BY InitGateInv, NextGateInv, <1>1, PTL DEF Spec

(* risk.max_open_positions holds in every mode at every moment: no fill,      *)
(* restart, change of mode or late exchange call lets one more position in.   *)
THEOREM PositionsCapped == Spec => []PositionCap
<1>1. GateInv => PositionCap
  BY DEF GateInv, Roomy
<1> QED BY InitGateInv, NextGateInv, <1>1, PTL DEF Spec

(* An entry keeps its mode and its market within their shares of the bankroll *)
(* that submit read, counting all that rested, filled or closed since.        *)
THEOREM EntriesWithinCaps == Spec => EntryWithinCaps
<1>1. GateInv /\ [Next]_vars =>
        [\A r \in Rows :
           row[r].status = "free" /\ row'[r].status # "free" =>
             /\ 100 * Exposure(Active(mode))' <= MaxTotalPct * loop.bank
             /\ \A k \in {loop.market} :
                  100 * Exposure(InMarket(k))' <= MaxMarketPct * loop.bank]_vars
  <2> SUFFICES ASSUME GateInv, [Next]_vars, NEW r \in Rows,
                      row[r].status = "free", row'[r].status # "free"
               PROVE  /\ 100 * Exposure(Active(mode))' <= MaxTotalPct * loop.bank
                      /\ \A k \in {loop.market} :
                           100 * Exposure(InMarket(k))' <= MaxMarketPct * loop.bank
    OBVIOUS
  <2>1. row' # row /\ ~NoNewRows
    BY DEF NoNewRows, Shrinks
  <2> QED BY <2>1, StepKinds, PlacedWithinCaps DEF GateInv, Roomy
<1> QED BY InitGateInv, NextGateInv, <1>1, PTL DEF Spec, EntryWithinCaps

(* With market orders a paper account never holds both sides of a market:     *)
(* the guard of submit reads the rows an LLM call before the order is booked. *)
THEOREM OneSidedOnPaper == Spec => []PaperOneSided
<1>1. GateInv => PaperOneSided
  BY DEF GateInv, PaperGuarded, OneSided, PaperOneSided
<1> QED BY InitGateInv, NextGateInv, <1>1, PTL DEF Spec

(* A command leaves the drawdown baseline and the loss window of every other  *)
(* mode as they were; only midnight empties a window that is not the mode's.  *)
THEOREM ModesApart == Spec => OtherModeUntouched
<1>1. GateInv /\ [Next]_vars =>
        [\A m \in Modes \ {mode} :
           /\ baseline'[m] = baseline[m]
           /\ recent'[m] # recent[m] => UNCHANGED commands]_vars
  <2> SUFFICES ASSUME GateInv, Next, NEW m \in Modes \ {mode}
               PROVE  /\ baseline'[m] = baseline[m]
                      /\ recent'[m] # recent[m] => UNCHANGED commands
    BY DEF vars
  <2> USE DEF book, panel, bounds
  <2>1. baseline \in [Modes -> Nat] /\ recent \in [Modes -> Int]
    BY DEF GateInv, Roomy, Typed, TypeOK
  <2>2. CASE LoopStep
    BY <2>2 DEF LoopStep, BeginCycle, CheckBreakers, PersistBreaker, CheckCapacity, NextMarket,
                Analyze, SubmitOpens, SubmitChecks, PlaceOrder, EndCycle, CycleFails
  <2>3. ASSUME NEW r \in Rows, Fill(r) \/ CancelPending(r) \/ Close(r)
        PROVE  UNCHANGED <<baseline, commands>>
    BY <2>3 DEF Fill, CancelPending, Close
  <2>4. CASE CooldownElapses \/ Midnight
    BY <2>4 DEF CooldownElapses, Midnight
  <2>5. ASSUME NEW s \in {"running", "paused", "stopped"}, SetRunState(s)
        PROVE  UNCHANGED baseline /\ recent'[m] = recent[m]
    BY <2>1, <2>5 DEF SetRunState
  <2>6. CASE ResetDrawdown \/ ClearFlag \/ Restart
    BY <2>1, <2>6 DEF ResetDrawdown, ClearFlag, Restart
  <2> QED BY <2>2, <2>3, <2>4, <2>5, <2>6 DEF Next
<1> QED BY InitGateInv, NextGateInv, <1>1, PTL DEF Spec, OtherModeUntouched
=============================================================================
