-------------------------- MODULE BackgroundProofs --------------------------
(***************************************************************************)
(* Proofs about the loops behind trading: the main ingestion loop (module  *)
(* Ingestion), and the seven that MCBackground puts side by side.          *)
(*                                                                         *)
(* Ingestion, for any markets, fetchers, cap and length of the backoff: a  *)
(* day's counter never passes the cap and the cycle's own count agrees with*)
(* it, and whatever the main loop does to the backoff table is what Backoff*)
(* promises of it.  Both rest on what a cycle knows of the rows it read    *)
(* when it began (WaitingNotAsked), and on what its open session has       *)
(* counted but not committed: it is either added to the counter or         *)
(* forgotten together with the cycle (WithinCap, OwnCount).                *)
(*                                                                         *)
(* MCBackground, for any markets, posts, pages, services and lengths of    *)
(* waits: each loop has an inductive invariant of its own (CountsInv,      *)
(* CandlesInv, FeedInv, DocsInv, PagesInv, ChoresInv), kept by the steps of*)
(* its module; a step of BackNext is a step or a stutter of every module.  *)
(***************************************************************************)
EXTENDS Ingestion, MCBackground, Sequences, FiniteSetTheorems, FiniteSums, TLAPS

CycleType ==
  [pc : {"idle", "catalysts", "loop", "market"}, day : Days,
   todo : SUBSET Markets, off : SUBSET Markets, left : SUBSET Markets,
   limited : SUBSET Mine, succeeded : SUBSET Mine, due : BOOLEAN,
   query : 0 .. Queries, daily : Nat, counted : Nat]

(* A market that this cycle deactivates has a run, and is not one for which *)
(* it generates another.                                                   *)
OffHasRun == \A m \in main.off : active[m] > 0 /\ m \notin main.todo

Fetching == main.pc \in {"loop", "market"}

(* What the session has not committed still fits under the day's cap.      *)
WithinCap ==
  /\ \A d \in Days : count[d] <= DailyCap
  /\ count[main.day] + main.counted <= DailyCap
  /\ main.pc # "market" => main.counted = 0

(* While the metered fetcher is asked, the cycle's own count is the day's, *)
(* and below the cap.                                                      *)
OwnCount ==
  Fetching /\ Metered \notin main.limited =>
    main.daily = count[main.day] + main.counted /\ main.daily < DailyCap

(* A service of this loop that waits is not asked.                         *)
WaitingNotAsked ==
  Fetching => \A s \in Mine : B!Waiting(rows[s]) => s \in main.limited

IngestionInv == TypeOK /\ OffHasRun /\ WithinCap /\ OwnCount /\ WaitingNotAsked

-----------------------------------------------------------------------------
(* The backoff rows.                                                       *)
LEMMA MinOfTwo ==
  ASSUME NEW a \in Int, NEW b \in Int
  PROVE  B!Min({a, b}) = IF a <= b THEN a ELSE b
<1>1. PICK m \in {a, b} : \A y \in {a, b} : m <= y
  OBVIOUS
<1> QED
  BY <1>1 DEF B!Min

(* A service that trips gets a row: its wait is at most the cap.           *)
LEMMA TripTyped == ASSUME NEW r \in B!Row PROVE B!Trip(r) \in B!Row
<1>1. r.remaining \in 0 .. MaxSkip /\ r.next \in 1 .. MaxSkip /\ MaxSkip \in Int
  BY IngestionAssumption DEF B!Row
<1>2. B!Min({r.next, MaxSkip}) \in 1 .. MaxSkip
  BY <1>1, MinOfTwo
<1>3. B!Min({2 * r.next, MaxSkip}) \in 1 .. MaxSkip
  BY <1>1, MinOfTwo
<1> QED
  BY <1>1, <1>2, <1>3 DEF B!Trip, B!Row

LEMMA DefaultTyped == B!Default \in B!Row /\ ~B!Waiting(B!Default)
  BY IngestionAssumption DEF B!Default, B!Row, B!Waiting

(* A tick shortens the waits of the services it is for, and no other's.    *)
LEMMA TickTyped ==
  ASSUME NEW old \in [B!Services -> B!Row], NEW scope
  PROVE  /\ B!Tick(old, scope) \in [B!Services -> B!Row]
         /\ \A s \in B!Services \ scope : B!Tick(old, scope)[s] = old[s]
<1>1. ASSUME NEW r \in B!Row, B!Waiting(r)
      PROVE  [r EXCEPT !.remaining = @ - 1] \in B!Row
  BY <1>1, IngestionAssumption DEF B!Row, B!Waiting
<1> QED
  BY <1>1 DEF B!Tick

LEMMA ServicesAre == B!Services = Mine \cup {Feed} /\ Mine \in Loops /\ {Feed} \in Loops
  BY DEF B!Services, Loops

(* What a commit of a loop may do to the rows.                             *)
LEMMA OutcomeTyped ==
  ASSUME rows \in [B!Services -> B!Row], NEW loop, B!Outcome(loop)
  PROVE  /\ rows' \in [B!Services -> B!Row]
         /\ \A s \in B!Services \ loop : rows'[s] = rows[s]
<1>1. PICK tripped \in SUBSET {s \in loop : ~B!Waiting(rows[s])},
           cleared \in SUBSET {s \in loop : ~B!Waiting(rows[s])} :
        rows' = [s \in B!Services |-> IF s \in tripped THEN B!Trip(rows[s])
                                      ELSE IF s \in cleared THEN B!Default ELSE rows[s]]
  BY DEF B!Outcome
<1> QED
  BY <1>1, TripTyped, DefaultTyped

-----------------------------------------------------------------------------
(* The cycle's record.                                                     *)
LEMMA IdleTyped == Idle \in CycleType
  BY IngestionAssumption DEF Idle, CycleType, Days

(* What one query does, in terms of what was answered and what met a limit.*)
QueryDoes(answered, limited, spent, commits) ==
  /\ answered \in SUBSET Called /\ limited \in SUBSET Called /\ answered \cap limited = {}
  /\ spent = (IF Metered \in answered THEN 1 ELSE 0)
  /\ commits \in BOOLEAN
  /\ rows' = [s \in B!Services |-> IF s \in limited THEN B!Trip(rows[s])
                                  ELSE IF s \in answered \ main.succeeded THEN B!Default
                                  ELSE rows[s]]
  /\ count' = IF commits THEN [count EXCEPT ![main.day] = @ + main.counted + spent] ELSE count
  /\ main' = [main EXCEPT
        !.query = @ + 1, !.daily = @ + spent,
        !.counted = IF commits THEN 0 ELSE @ + spent,
        !.succeeded = @ \cup answered,
        !.limited = @ \cup limited
                      \cup IF spent = 1 /\ AtCap(main.daily + 1) THEN {Metered} ELSE {}]

LEMMA QueryDecides ==
  ASSUME Query
  PROVE  \E answered, limited, spent, commits : QueryDoes(answered, limited, spent, commits)
<1>1. PICK result \in [Called -> {"answered", "limited", "failed"}] :
       LET With(r) == {s \in Called : result[s] = r}
           first == With("answered") \ main.succeeded
           spent == IF Metered \in With("answered") THEN 1 ELSE 0
           full == spent = 1 /\ AtCap(main.daily + 1)
           commits == \/ With("limited") # {}
                      \/ \E s \in first : rows[s] # B!Default
       IN /\ rows' = [s \in B!Services |->
                        IF s \in With("limited") THEN B!Trip(rows[s])
                        ELSE IF s \in first THEN B!Default
                        ELSE rows[s]]
          /\ count' = IF commits
                        THEN [count EXCEPT ![main.day] = @ + main.counted + spent]
                        ELSE count
          /\ main' = [main EXCEPT
                !.query = @ + 1, !.daily = @ + spent,
                !.counted = IF commits THEN 0 ELSE @ + spent,
                !.succeeded = @ \cup With("answered"),
                !.limited = @ \cup With("limited")
                              \cup IF full THEN {Metered} ELSE {}]
  BY DEF Query
<1> DEFINE Replied == {s \in Called : result[s] = "answered"}
           Limited == {s \in Called : result[s] = "limited"}
           Spent == IF Metered \in Replied THEN 1 ELSE 0
           Commits == \/ Limited # {}
                      \/ \E s \in Replied \ main.succeeded : rows[s] # B!Default
<1>2. QueryDoes(Replied, Limited, Spent, Commits)
  BY <1>1, Zenon DEF QueryDoes
<1> QED
  BY <1>2

(* The services a query asks do not wait: the table lets them trip or clear.*)
LEMMA CalledNotWaiting ==
  ASSUME IngestionInv, main.pc = "market"
  PROVE  Called \subseteq {s \in Mine : ~B!Waiting(rows[s])}
  BY DEF IngestionInv, WaitingNotAsked, Fetching, Called

LEMMA QueryOutcome ==
  ASSUME IngestionInv, main.pc = "market",
         NEW answered, NEW limited, NEW spent, NEW commits,
         QueryDoes(answered, limited, spent, commits)
  PROVE  B!Outcome(Mine)
<1> DEFINE cleared == answered \ main.succeeded
<1>1. /\ limited \in SUBSET {s \in Mine : ~B!Waiting(rows[s])}
      /\ cleared \in SUBSET {s \in Mine : ~B!Waiting(rows[s])}
      /\ limited \cap cleared = {}
  BY CalledNotWaiting DEF QueryDoes
<1>2. rows' = [s \in B!Services |-> IF s \in limited THEN B!Trip(rows[s])
                                   ELSE IF s \in cleared THEN B!Default ELSE rows[s]]
  BY DEF QueryDoes
<1> HIDE DEF cleared
<1> QED
  BY <1>1, <1>2 DEF B!Outcome

-----------------------------------------------------------------------------
LEMMA Starts == Init => IngestionInv
<1> SUFFICES ASSUME Init PROVE IngestionInv
  OBVIOUS
<1>1. main \in CycleType /\ main.pc = "idle" /\ main.counted = 0 /\ main.off = {} /\ main.day = 0
  BY IdleTyped DEF Init, Idle
<1>2. rows \in [B!Services -> B!Row]
  BY DefaultTyped DEF Init, B!Init
<1>3. /\ day \in Days /\ failures \in 0 .. Failures /\ active \in [Markets -> 0 .. Generations]
      /\ count \in [Days -> Nat] /\ \A d \in Days : count[d] = 0
  BY IngestionAssumption DEF Init, Days
<1>4. TypeOK
  BY <1>1, <1>2, <1>3 DEF Init, TypeOK, CycleType
<1> QED
  BY <1>1, <1>3, <1>4, IngestionAssumption
     DEF IngestionInv, OffHasRun, WithinCap, OwnCount, WaitingNotAsked, Fetching, Days

(* What a step that leaves the cycle alone, or drops it, has to show.      *)
LEMMA Dropped ==
  ASSUME IngestionInv, main' = Idle, TypeOK', UNCHANGED count
  PROVE  IngestionInv'
<1>1. main'.pc = "idle" /\ main'.counted = 0 /\ main'.off = {} /\ main'.day \in Days
  BY IngestionAssumption DEF Idle, Days
<1>2. \A d \in Days : count'[d] <= DailyCap /\ count'[d] \in Nat
  BY DEF IngestionInv, WithinCap, TypeOK
<1> QED
  BY <1>1, <1>2, IngestionAssumption
     DEF IngestionInv, OffHasRun, WithinCap, OwnCount, WaitingNotAsked, Fetching

-----------------------------------------------------------------------------
(* Phase 1.                                                                *)
LEMMA BeginKept == ASSUME IngestionInv, BeginCycle PROVE IngestionInv'
<1> DEFINE off == {m \in Markets : HasRun(m) /\ m \notin wanted /\ position[m] # "open"}
<1>1. main' = [Idle EXCEPT !.pc = "catalysts", !.day = day, !.off = off, !.todo = wanted \ fresh]
  BY DEF BeginCycle
<1>2. off \in SUBSET Markets /\ wanted \ fresh \in SUBSET Markets /\ day \in Days
  BY DEF IngestionInv, TypeOK
<1> HIDE DEF off
<1>3. main' \in CycleType
  BY <1>1, <1>2, IdleTyped DEF CycleType
<1>4. main'.pc = "catalysts" /\ main'.day = day /\ main'.off = off /\ main'.todo = wanted \ fresh
      /\ main'.counted = 0
  BY <1>1 DEF Idle
<1>5. \A m \in off : active[m] > 0 /\ m \notin wanted
  BY DEF off, HasRun
<1>6. TypeOK'
  BY <1>3 DEF IngestionInv, BeginCycle, catalysts, markets, TypeOK, CycleType, HasRun
<1>7. OffHasRun'
  BY <1>4, <1>5 DEF BeginCycle, catalysts, OffHasRun
<1>8. WithinCap'
  <2>1. \A d \in Days : count[d] <= DailyCap /\ count[d] \in Nat
    BY DEF IngestionInv, WithinCap, TypeOK
  <2> QED
    BY <1>2, <1>4, <2>1, IngestionAssumption DEF BeginCycle, WithinCap
<1>9. OwnCount' /\ WaitingNotAsked'
  BY <1>4 DEF OwnCount, WaitingNotAsked, Fetching
<1> QED
  BY <1>6, <1>7, <1>8, <1>9 DEF IngestionInv

LEMMA GenerateKept ==
  ASSUME IngestionInv, NEW m \in Markets, Generate(m)
  PROVE  IngestionInv'
<1>1. main \in CycleType /\ main.pc = "catalysts"
  BY DEF IngestionInv, TypeOK, CycleType, Generate
<1>2. \/ main' = [main EXCEPT !.todo = main.todo \ {m}, !.off = {}]
      \/ main' = [main EXCEPT !.todo = main.todo \ {m}] /\ UNCHANGED catalysts
  BY DEF Generate, Generated, NoQueries, GenerationRaises
<1>3. main.todo \ {m} \in SUBSET Markets /\ {} \in SUBSET Markets
  BY <1>1 DEF CycleType
<1>4. main' \in CycleType
  BY <1>1, <1>2, <1>3 DEF CycleType
<1>5. /\ main'.pc = "catalysts" /\ main'.day = main.day /\ main'.counted = main.counted
      /\ main'.todo = main.todo \ {m}
      /\ \/ main'.off = {}
         \/ main'.off = main.off /\ UNCHANGED catalysts
  BY <1>1, <1>2 DEF CycleType
<1>6. active' \in [Markets -> 0 .. Generations] /\ fresh' \subseteq {x \in Markets : HasRun(x)'}
  <2>1. CASE Generated(m)
    <3>1. \A x \in Markets : active[x] \in 0 .. Generations /\ (x \in main.off => active[x] > 0)
      BY DEF IngestionInv, TypeOK, OffHasRun
    <3>2. m \notin main.off /\ active[m] < Generations
      BY <2>1 DEF IngestionInv, OffHasRun, Generate, Generated
    <3>3. active' \in [Markets -> 0 .. Generations]
      BY <2>1, <3>1, <3>2, IngestionAssumption DEF Generated
    <3>4. \A x \in (fresh \ main.off) \cup {m} : x \in Markets /\ active'[x] > 0
      BY <2>1, <3>1, <3>2 DEF Generated, IngestionInv, TypeOK, HasRun
    <3> QED
      BY <2>1, <3>3, <3>4 DEF Generated, HasRun
  <2>2. CASE UNCHANGED catalysts
    BY <2>2 DEF catalysts, IngestionInv, TypeOK, HasRun
  <2> QED
    BY <2>1, <2>2 DEF Generate, NoQueries, GenerationRaises
<1>7. failures' \in 0 .. Failures
  BY IngestionAssumption DEF Generate, Generated, NoQueries, GenerationRaises, IngestionInv, TypeOK
<1>8. TypeOK'
  BY <1>4, <1>6, <1>7 DEF IngestionInv, Generate, markets, TypeOK, CycleType
<1> QED
  BY <1>1, <1>5, <1>8 DEF IngestionInv, Generate, catalysts, OffHasRun, WithinCap, OwnCount,
     WaitingNotAsked, Fetching

(* The deactivations are of markets that have a run.                       *)
LEMMA DeactivateTyped ==
  ASSUME IngestionInv, Deactivate
  PROVE  active' \in [Markets -> 0 .. Generations] /\ fresh' \subseteq {m \in Markets : HasRun(m)'}
<1>1. \A x \in Markets : active[x] \in 0 .. Generations /\ (x \in main.off => active[x] > 0)
  BY DEF IngestionInv, TypeOK, OffHasRun
<1>2. active' \in [Markets -> 0 .. Generations]
  BY <1>1, IngestionAssumption DEF Deactivate
<1>3. \A x \in fresh \ main.off : x \in Markets /\ active'[x] > 0
  BY <1>1 DEF Deactivate, IngestionInv, TypeOK, HasRun
<1> QED
  BY <1>2, <1>3 DEF Deactivate, HasRun

LEMMA LoadKept == ASSUME IngestionInv, LoadCycle PROVE IngestionInv'
<1> DEFINE waiting == {s \in Mine : B!Waiting(Ticked[s])}
           used == IF Metered \in waiting THEN 0 ELSE count[main.day]
           limited == IF used >= DailyCap THEN waiting \cup {Metered} ELSE waiting
<1>1. main \in CycleType /\ main.pc = "catalysts"
  BY DEF IngestionInv, TypeOK, CycleType, LoadCycle
<1>2. Ticked \in [B!Services -> B!Row]
  BY TickTyped DEF Ticked, IngestionInv, TypeOK
<1>3. main.day \in Days /\ main.counted = 0 /\ count[main.day] \in Nat /\ count[main.day] <= DailyCap
  BY <1>1 DEF IngestionInv, WithinCap, TypeOK, CycleType
<1>4. used \in Nat /\ limited \in SUBSET Mine /\ ActiveRuns \in SUBSET Markets
  BY <1>3 DEF Mine, ActiveRuns
<1>5. CASE main' = Idle /\ UNCHANGED rows
  <2>1. TypeOK'
    BY <1>5, IdleTyped, DeactivateTyped
       DEF IngestionInv, LoadCycle, markets, TypeOK, CycleType
  <2> QED
    BY <1>5, <2>1, Dropped DEF LoadCycle
<1>6. CASE /\ rows' = Ticked
           /\ main' = [main EXCEPT !.pc = "loop", !.left = ActiveRuns, !.off = {}, !.daily = used,
                                  !.limited = limited]
  <2> HIDE DEF waiting, used, limited
  <2>1. main' \in CycleType
    BY <1>1, <1>4, <1>6 DEF CycleType
  <2>2. /\ main'.pc = "loop" /\ main'.day = main.day /\ main'.counted = 0 /\ main'.off = {}
        /\ main'.daily = used /\ main'.limited = limited
    BY <1>1, <1>3, <1>6 DEF CycleType
  <2>3. TypeOK'
    BY <1>2, <1>6, <2>1, DeactivateTyped DEF IngestionInv, LoadCycle, markets, TypeOK, CycleType
  <2>4. OffHasRun' /\ WithinCap'
    BY <1>3, <2>2 DEF IngestionInv, LoadCycle, OffHasRun, WithinCap
  <2>5. OwnCount'
    BY <1>3, <2>2, IngestionAssumption DEF LoadCycle, OwnCount, limited, used, Mine
  <2>6. WaitingNotAsked'
    BY <1>6, <2>2 DEF WaitingNotAsked, limited, waiting
  <2> QED
    BY <2>3, <2>4, <2>5, <2>6 DEF IngestionInv
<1> QED
  BY <1>5, <1>6 DEF LoadCycle

-----------------------------------------------------------------------------
(* Phase 2.                                                                *)
LEMMA OpenKept == ASSUME IngestionInv, NEW m \in Markets, OpenMarket(m) PROVE IngestionInv'
<1>1. PICK due \in BOOLEAN :
        main' = [main EXCEPT !.pc = "market", !.left = main.left \ {m}, !.query = 0, !.due = due]
  BY DEF OpenMarket
<1>2. main \in CycleType /\ main.pc = "loop" /\ main.left \ {m} \in SUBSET Markets
      /\ 0 \in 0 .. Queries
  BY IngestionAssumption DEF IngestionInv, TypeOK, CycleType, OpenMarket
<1>3. main' \in CycleType
  BY <1>1, <1>2 DEF CycleType
<1>4. /\ main'.pc = "market" /\ main'.day = main.day /\ main'.counted = main.counted
      /\ main'.daily = main.daily /\ main'.limited = main.limited /\ main'.off = main.off
      /\ main'.todo = main.todo
  BY <1>1, <1>2 DEF CycleType
<1>5. TypeOK'
  BY <1>3 DEF IngestionInv, OpenMarket, catalysts, markets, TypeOK, CycleType, HasRun
<1> QED
  BY <1>2, <1>4, <1>5 DEF IngestionInv, OpenMarket, catalysts, OffHasRun, WithinCap, OwnCount,
     WaitingNotAsked, Fetching

LEMMA QueryKept == ASSUME IngestionInv, Query PROVE IngestionInv'
<1>1. PICK answered, limited, spent, commits : QueryDoes(answered, limited, spent, commits)
  BY QueryDecides
<1>2. main \in CycleType /\ main.pc = "market" /\ main.query < Queries
  BY DEF IngestionInv, TypeOK, CycleType, Query
<1>3. spent \in {0, 1} /\ (spent = 1 => Metered \notin main.limited)
  BY <1>1 DEF QueryDoes, Called
<1> DEFINE counted == IF commits THEN 0 ELSE main.counted + spent
           full == IF spent = 1 /\ AtCap(main.daily + 1) THEN {Metered} ELSE {}
<1>4. main' = [main EXCEPT !.query = main.query + 1, !.daily = main.daily + spent,
                 !.counted = counted, !.succeeded = main.succeeded \cup answered,
                 !.limited = main.limited \cup limited \cup full]
  BY <1>1 DEF QueryDoes
<1>5. /\ main.daily \in Nat /\ main.counted \in Nat /\ main.query + 1 \in 0 .. Queries
      /\ counted \in Nat /\ main.daily + spent \in Nat /\ main.day \in Days
  BY <1>2, <1>3, IngestionAssumption DEF CycleType
<1>6. /\ main.succeeded \cup answered \in SUBSET Mine
      /\ main.limited \cup limited \cup full \in SUBSET Mine
  BY <1>1, <1>2 DEF QueryDoes, Called, CycleType, Mine
<1> HIDE DEF full
<1>7. main' \in CycleType
  <2> HIDE DEF counted
  <2> QED
    BY <1>2, <1>4, <1>5, <1>6 DEF CycleType
<1>8. /\ main'.pc = "market" /\ main'.day = main.day /\ main'.counted = counted
      /\ main'.daily = main.daily + spent /\ main'.off = main.off /\ main'.todo = main.todo
      /\ main'.limited = main.limited \cup limited \cup full
  <2> HIDE DEF counted
  <2> QED
    BY <1>2, <1>4 DEF CycleType
<1>9. /\ \A d \in Days : count[d] \in Nat /\ count[d] <= DailyCap
      /\ count[main.day] + main.counted <= DailyCap
  BY DEF IngestionInv, WithinCap, TypeOK
<1>10. Metered \notin main.limited =>
         main.daily = count[main.day] + main.counted /\ main.daily < DailyCap
  BY <1>2 DEF IngestionInv, OwnCount, Fetching
<1>11. count[main.day] + main.counted + spent <= DailyCap
  BY <1>3, <1>5, <1>9, <1>10, IngestionAssumption
<1>12. count' \in [Days -> Nat] /\ count'[main.day] + counted = count[main.day] + main.counted + spent
       /\ \A d \in Days : count'[d] <= DailyCap
  <2>1. count \in [Days -> Nat]
    BY DEF IngestionInv, TypeOK
  <2>2. CASE commits
    <3>1. count' = [count EXCEPT ![main.day] = count[main.day] + main.counted + spent]
      BY <1>1, <2>2 DEF QueryDoes
    <3> QED
      BY <1>3, <1>5, <1>9, <1>11, <2>1, <2>2, <3>1
  <2>3. CASE ~commits
    BY <1>1, <1>3, <1>5, <1>9, <2>1, <2>3 DEF QueryDoes
  <2> QED
    BY <2>2, <2>3
<1>13. B!Outcome(Mine)
  BY <1>1, <1>2, QueryOutcome
<1>14. rows' \in [B!Services -> B!Row]
  BY <1>13, OutcomeTyped DEF IngestionInv, TypeOK
<1>15. TypeOK'
  BY <1>7, <1>12, <1>14 DEF IngestionInv, Query, catalysts, markets, TypeOK, CycleType, HasRun
<1>16. OffHasRun' /\ WithinCap'
  BY <1>8, <1>11, <1>12 DEF IngestionInv, Query, catalysts, OffHasRun, WithinCap
<1>17. OwnCount'
  <2> SUFFICES ASSUME Metered \notin main'.limited
               PROVE  main'.daily = count'[main.day] + counted /\ main'.daily < DailyCap
    BY <1>8 DEF OwnCount
  <2>1. Metered \notin main.limited /\ ~(spent = 1 /\ AtCap(main.daily + 1))
    BY <1>8 DEF full
  <2> HIDE DEF counted
  <2> QED
    BY <1>3, <1>5, <1>8, <1>9, <1>10, <1>12, <2>1, IngestionAssumption DEF AtCap
<1>18. WaitingNotAsked'
  <2> SUFFICES ASSUME NEW s \in Mine, B!Waiting(rows'[s]) PROVE s \in main'.limited
    BY DEF WaitingNotAsked
  <2>1. s \in limited \/ rows'[s] = rows[s]
    BY <1>1, DefaultTyped, ServicesAre DEF QueryDoes
  <2>2. B!Waiting(rows[s]) => s \in main.limited
    BY <1>2 DEF IngestionInv, WaitingNotAsked, Fetching
  <2> QED
    BY <1>8, <2>1, <2>2
<1> QED
  BY <1>15, <1>16, <1>17, <1>18 DEF IngestionInv

LEMMA CloseKept == ASSUME IngestionInv, CloseMarket PROVE IngestionInv'
<1>1. main \in CycleType /\ main.pc = "market" /\ main.day \in Days /\ main.counted \in Nat
  BY DEF IngestionInv, TypeOK, CycleType, CloseMarket
<1>2. /\ \A d \in Days : count[d] \in Nat /\ count[d] <= DailyCap
      /\ count[main.day] + main.counted <= DailyCap
      /\ count \in [Days -> Nat]
  BY DEF IngestionInv, WithinCap, TypeOK
<1>3. /\ count' \in [Days -> Nat] /\ count'[main.day] = count[main.day] + main.counted
      /\ \A d \in Days : count'[d] <= DailyCap
  BY <1>1, <1>2 DEF CloseMarket
<1>4. 0 \in 0 .. Queries /\ 0 \in Days
  BY IngestionAssumption DEF Days
<1>5. CASE main' = Idle
  <2>1. TypeOK'
    BY <1>3, <1>5, IdleTyped DEF IngestionInv, CloseMarket, catalysts, markets, TypeOK, CycleType, HasRun
  <2>2. main'.pc = "idle" /\ main'.counted = 0 /\ main'.off = {} /\ main'.day = 0
    BY <1>5 DEF Idle
  <2> QED
    BY <1>3, <1>4, <2>1, <2>2, IngestionAssumption
       DEF IngestionInv, OffHasRun, WithinCap, OwnCount, WaitingNotAsked, Fetching
<1>6. CASE main' = [main EXCEPT !.pc = "loop", !.counted = 0, !.query = 0]
  <2>1. main' \in CycleType
    BY <1>1, <1>4, <1>6 DEF CycleType
  <2>2. /\ main'.pc = "loop" /\ main'.day = main.day /\ main'.counted = 0
        /\ main'.daily = main.daily /\ main'.limited = main.limited /\ main'.off = main.off
        /\ main'.todo = main.todo
    BY <1>1, <1>6 DEF CycleType
  <2>3. TypeOK'
    BY <1>3, <2>1 DEF IngestionInv, CloseMarket, catalysts, markets, TypeOK, CycleType, HasRun
  <2>4. OffHasRun' /\ WithinCap'
    BY <1>1, <1>2, <1>3, <2>2 DEF IngestionInv, CloseMarket, catalysts, OffHasRun, WithinCap
  <2>5. OwnCount'
    BY <1>1, <1>2, <1>3, <2>2 DEF IngestionInv, OwnCount, Fetching
  <2>6. WaitingNotAsked'
    BY <1>1, <2>2 DEF IngestionInv, CloseMarket, WaitingNotAsked, Fetching
  <2> QED
    BY <2>3, <2>4, <2>5, <2>6 DEF IngestionInv
<1> QED
  BY <1>5, <1>6 DEF CloseMarket

LEMMA FailKept == ASSUME IngestionInv, Fail PROVE IngestionInv'
<1>1. failures' \in 0 .. Failures
  BY IngestionAssumption DEF Fail, IngestionInv, TypeOK
<1>2. TypeOK'
  BY <1>1, IdleTyped DEF IngestionInv, Fail, catalysts, markets, TypeOK, CycleType, HasRun
<1> QED
  BY <1>2, Dropped DEF Fail

-----------------------------------------------------------------------------
(* The rest of the system does not touch the cycle, its counter, or the    *)
(* rows of its services.                                                   *)
LEMMA OutsideKept ==
  ASSUME IngestionInv, TypeOK', UNCHANGED <<active, count, main>>,
         \A s \in Mine : rows'[s] = rows[s]
  PROVE  IngestionInv'
  BY DEF IngestionInv, OffHasRun, WithinCap, OwnCount, WaitingNotAsked, Fetching

LEMMA EnvironmentKept == ASSUME IngestionInv, Environment PROVE IngestionInv'
<1>1. CASE NewDay
  <2>1. day' \in Days
    BY <1>1, IngestionAssumption DEF NewDay, Days, IngestionInv, TypeOK
  <2>2. TypeOK'
    BY <1>1, <2>1 DEF IngestionInv, NewDay, catalysts, TypeOK, HasRun
  <2> QED
    BY <1>1, <2>2, OutsideKept DEF NewDay, catalysts
<1>2. CASE RealtimeLoop
  <2>1. rows \in [B!Services -> B!Row]
    BY DEF IngestionInv, TypeOK
  <2>2. rows' \in [B!Services -> B!Row] /\ \A s \in B!Services \ {Feed} : rows'[s] = rows[s]
    BY <1>2, <2>1, TickTyped, OutcomeTyped DEF RealtimeLoop, B!TickLoop
  <2>3. \A s \in Mine : rows'[s] = rows[s]
    BY <2>2, ServicesAre, IngestionAssumption
  <2>4. TypeOK'
    BY <1>2, <2>2 DEF IngestionInv, RealtimeLoop, catalysts, markets, TypeOK, HasRun
  <2> QED
    BY <1>2, <2>3, <2>4, OutsideKept DEF RealtimeLoop, catalysts
<1>3. ASSUME NEW m \in Markets, ChangeInterest(m) PROVE IngestionInv'
  <2>1. TypeOK'
    BY <1>3 DEF IngestionInv, ChangeInterest, catalysts, TypeOK, HasRun
  <2> QED
    BY <1>3, <2>1, OutsideKept DEF ChangeInterest, catalysts
<1>4. ASSUME NEW m \in Markets, RunAges(m) PROVE IngestionInv'
  <2>1. TypeOK'
    BY <1>4 DEF IngestionInv, RunAges, markets, TypeOK, HasRun
  <2> QED
    BY <1>4, <2>1, OutsideKept DEF RunAges, markets
<1>5. ASSUME NEW m \in Markets, MovePosition(m) PROVE IngestionInv'
  <2>1. TypeOK'
    BY <1>5 DEF IngestionInv, MovePosition, catalysts, TypeOK, HasRun
  <2> QED
    BY <1>5, <2>1, OutsideKept DEF MovePosition, catalysts
<1> QED
  BY <1>1, <1>2, <1>3, <1>4, <1>5 DEF Environment

LEMMA InvKept == IngestionInv /\ [Next]_vars => IngestionInv'
<1> SUFFICES ASSUME IngestionInv, [Next]_vars PROVE IngestionInv'
  OBVIOUS
<1>1. CASE UNCHANGED vars
  <2>1. TypeOK'
    BY <1>1 DEF IngestionInv, vars, TypeOK, HasRun
  <2> QED
    BY <1>1, <2>1, OutsideKept DEF vars
<1>2. CASE Cycle
  BY <1>2, BeginKept, GenerateKept, LoadKept, OpenKept, QueryKept, CloseKept DEF Cycle
<1> QED
  BY <1>1, <1>2, FailKept, EnvironmentKept DEF Next

-----------------------------------------------------------------------------
(* Every step of the loop is, for the backoff table, one its promise allows.*)
LEMMA TableStep ==
  ASSUME IngestionInv, [Next]_vars
  PROVE  [B!Next]_rows
<1>1. CASE LoadCycle
  BY <1>1, ServicesAre DEF LoadCycle, Ticked, B!TickLoop, B!Next
<1>2. CASE Query
  <2>1. PICK answered, limited, spent, commits : QueryDoes(answered, limited, spent, commits)
    BY <1>2, QueryDecides
  <2>2. B!Outcome(Mine)
    BY <1>2, <2>1, QueryOutcome DEF Query
  <2> QED
    BY <2>2, ServicesAre DEF B!Next
<1>3. CASE RealtimeLoop
  BY <1>3, ServicesAre DEF RealtimeLoop, B!Next
<1>4. CASE UNCHANGED rows
  BY <1>4
<1> QED
  BY <1>1, <1>2, <1>3, <1>4 DEF Next, vars, Cycle, BeginCycle, Generate, OpenMarket, CloseMarket, Fail,
     Environment, NewDay, ChangeInterest, RunAges, MovePosition

(* The catalyst runs, the rows, the counters and the cycle keep their types.*)
THEOREM IngestionTypes == Spec => []TypeOK
<1>1. IngestionInv => TypeOK
  BY DEF IngestionInv
<1> QED
  BY Starts, InvKept, <1>1, PTL DEF Spec

(* A day's counter never passes the cap, and a cycle that still asks the   *)
(* metered fetcher reckons with exactly what the counter and its own open  *)
(* session hold - whichever commit, rate limit, success, exception or      *)
(* midnight came in between.                                               *)
THEOREM QuotaHolds == Spec => []QuotaKept
<1>1. IngestionInv => QuotaKept
  BY DEF IngestionInv, WithinCap, OwnCount, Fetching, QuotaKept
<1> QED
  BY Starts, InvKept, <1>1, PTL DEF Spec

(* Ingestion implements Backoff: a loop ticks all of its own services and  *)
(* no other's, and only a service that did not wait trips or is cleared,   *)
(* although the rows are read once and written query by query.             *)
THEOREM KeepsBackoff == Spec => BackoffKept
<1>1. Init => B!Init
  BY DEF Init
<1>2. IngestionInv /\ [Next]_vars => [B!Next]_rows
  BY TableStep
<1> QED
  BY Starts, InvKept, <1>1, <1>2, PTL DEF Spec, BackoffKept, B!Spec

-----------------------------------------------------------------------------
(* The phrase counts.                                                      *)
\* A market let through has a row, and a row has counts.
RowKnown(r) == r = P!NoRow \/ (r = [age |-> r.age, counts |-> r.counts] /\ r.counts # "none")

CountsInv ==
  /\ ready \subseteq Spoken /\ terms \in Spoken \cup {P!None}
  /\ counts = [m \in Spoken |-> counts[m]] /\ \A m \in Spoken : RowKnown(counts[m])
  /\ \A m \in ready : counts[m] # P!NoRow

LEMMA CountsStart == ASSUME P!Init PROVE CountsInv
BY DEF P!Init, CountsInv, RowKnown

(* A row that is there stays, as it ages and as its counts are replaced.    *)
LEMMA CountsStep == ASSUME CountsInv, [P!Next]_phrases PROVE CountsInv'
<1>1. ASSUME counts' = [m \in Spoken |-> counts'[m]], ready' \subseteq Spoken,
             terms' \in Spoken \cup {P!None},
             \A m \in Spoken : RowKnown(counts'[m]) /\ (counts[m] # P!NoRow => counts'[m] # P!NoRow),
             \A m \in ready' : m \in ready \/ counts'[m] # P!NoRow
      PROVE  CountsInv'
  BY <1>1 DEF CountsInv, RowKnown
<1>2. CASE P!Begin
  <2>1. /\ counts' = [m \in Spoken |->
              IF P!HasRow(m) /\ counts[m].age < RefreshEvery THEN [counts[m] EXCEPT !.age = @ + 1] ELSE counts[m]]
        /\ UNCHANGED <<ready, terms>>
    BY <1>2 DEF P!Begin, P!Aged
  <2>2. ASSUME NEW m \in Spoken
        PROVE  RowKnown(counts'[m]) /\ (counts[m] # P!NoRow => counts'[m] # P!NoRow)
    <3>1. CASE counts[m] # P!NoRow /\ counts[m].age < RefreshEvery
      <4>1. counts[m] = [age |-> counts[m].age, counts |-> counts[m].counts] /\ counts[m].counts # "none"
        BY <3>1 DEF CountsInv, RowKnown
      <4>2. counts'[m] = [age |-> counts[m].age + 1, counts |-> counts[m].counts]
        BY <2>1, <3>1, <4>1 DEF P!HasRow
      <4> QED BY <4>1, <4>2 DEF RowKnown, P!NoRow
    <3>2. CASE ~(counts[m] # P!NoRow /\ counts[m].age < RefreshEvery)
      BY <2>1, <3>2 DEF P!HasRow, CountsInv
    <3> QED BY <3>1, <3>2
  <2> QED BY <1>1, <2>1, <2>2 DEF CountsInv
<1>3. CASE P!SaveCounts
  <2>1. terms \in Spoken /\ counts' = [counts EXCEPT ![terms] = [age |-> 0, counts |-> P!Fetched]]
        /\ ready' = ready \cup {terms} /\ terms' = P!None
    BY <1>3 DEF P!SaveCounts, P!Saved, CountsInv
  <2>2. P!Fetched # "none"
    BY DEF P!Fetched
  <2> QED BY <1>1, <2>1, <2>2 DEF CountsInv, RowKnown, P!NoRow
<1>4. ASSUME UNCHANGED <<counts, ready>>, terms' \in Spoken \cup {P!None} PROVE CountsInv'
  BY <1>1, <1>4 DEF CountsInv
<1>5. ASSUME NEW m \in Spoken, P!MarkReady(m) PROVE CountsInv'
  BY <1>1, <1>5 DEF P!MarkReady, P!Fresh, P!HasRow, CountsInv
<1>6. CASE P!Restart
  BY <1>1, <1>6 DEF P!Restart, P!HasRow, CountsInv
<1>7. UNCHANGED terms => terms' \in Spoken \cup {P!None}
  BY DEF CountsInv
<1> QED
  BY <1>2, <1>3, <1>4, <1>5, <1>6, <1>7
  DEF P!Next, P!Step, P!ReuseTerms, P!ExtractTerms, P!End, P!Raise, P!Turns, P!Outage, phrases

-----------------------------------------------------------------------------
(* The candle store.                                                       *)
LEMMA MinOf == ASSUME NEW a \in Int, NEW b \in Int PROVE K!Min({a, b}) = IF a <= b THEN a ELSE b
<1>1. PICK x \in {a, b} : \A y \in {a, b} : x <= y
  OBVIOUS
<1> QED BY <1>1 DEF K!Min

LEMMA MaxOf == ASSUME NEW a \in Int, NEW b \in Int PROVE K!Max({a, b}) = IF a >= b THEN a ELSE b
<1>1. PICK x \in {a, b} : \A y \in {a, b} : x >= y
  OBVIOUS
<1> QED BY <1>1 DEF K!Max

Cursor == [from : Int, to : Int, expired : BOOLEAN]

\* The candles of a market before `end`.
Upto(m, end) == Opens[m] .. end - 1

\* A market's cursor starts at its opening, claims nothing after its close, and
\* unless it has expired or was cut claims only what is there.  It has expired only
\* when the market is gone.  What is there has no holes.
CursorSays(m) ==
  /\ cursor[m] \in Cursor
  /\ \E end \in Opens[m] .. Closes[m] : have[m] = Upto(m, end)
  /\ cursor[m] # K!NoCursor =>
       /\ cursor[m].from = Opens[m] /\ cursor[m].to \in Opens[m] .. Closes[m]
       /\ cursor[m].expired => Closes[m] < clock
       /\ ~cursor[m].expired /\ m \notin cut => Upto(m, cursor[m].to) \subseteq have[m]

JobFields == {"pc", "now", "todo", "known", "market", "at", "rows", "spent"}

\* A job at work: its requests brought all there was when it began, as far as they
\* have asked.
Brought(j, m) ==
  /\ job[j].at \in Opens[m] .. Closes[m]
  /\ \E end \in Opens[m] .. job[j].at :
       job[j].rows = Upto(m, end) /\ (end = job[j].at \/ job[j].now <= end)

JobSays(j) ==
  /\ job[j] = [k \in JobFields |-> job[j][k]]
  /\ job[j].pc # "idle" => job[j].now \in Nat /\ clock \in job[j].now .. job[j].now + 1
                           /\ job[j].spent \in Int /\ job[j].todo \subseteq Quoted
  /\ job[j].pc = "fetch" => \E m \in Quoted : job[j].market = {m} /\ Brought(j, m)
  /\ job[j].pc = "next" => job[j].rows = {}

CandlesInv ==
  /\ clock \in Nat
  /\ have = [m \in Quoted |-> have[m]] /\ cursor = [m \in Quoted |-> cursor[m]]
  /\ job = [j \in K!Jobs |-> job[j]]
  /\ \A m \in Quoted : CursorSays(m)
  /\ \A j \in K!Jobs : JobSays(j)

LEMMA LivesAre ==
  ASSUME NEW m \in Quoted
  PROVE  /\ Opens[m] \in Nat /\ Closes[m] \in Nat /\ Opens[m] < Closes[m]
         /\ Span \in Nat \ {0} /\ Budget \in Nat \ {0} /\ Retention \in Nat /\ Horizon \in Nat
BY BackgroundAssumption DEF K!CandleAssumption

LEMMA CandlesStart == ASSUME K!Init PROVE CandlesInv
<1>1. K!NoCursor \in Cursor
  BY DEF K!NoCursor, Cursor
<1>2. K!Idle.pc = "idle" /\ K!Idle = [k \in JobFields |-> K!Idle[k]]
  BY DEF K!Idle, JobFields
<1>3. ASSUME K!Init, NEW m \in Quoted PROVE have[m] = Upto(m, Opens[m]) /\ Opens[m] \in Opens[m] .. Closes[m]
  BY <1>3, LivesAre DEF K!Init, Upto
<1> QED BY <1>1, <1>2, <1>3 DEF K!Init, CandlesInv, CursorSays, JobSays

(* What a run records of a market that it asked for.                       *)
EndOf(m, now) == IF Closes[m] <= now THEN Closes[m] ELSE IF now >= Opens[m] THEN now ELSE Opens[m]

LEMMA RecordedIs ==
  ASSUME CandlesInv, NEW m \in Quoted, NEW now \in Nat
  PROVE  /\ \A expired : K!Recorded(m, now, expired) =
              [from |-> Opens[m], expired |-> expired,
               to |-> IF cursor[m] # K!NoCursor /\ cursor[m].to >= EndOf(m, now) THEN cursor[m].to
                      ELSE EndOf(m, now)]
         /\ EndOf(m, now) \in Opens[m] .. Closes[m]
<1>1. Opens[m] \in Nat /\ Closes[m] \in Nat /\ Opens[m] < Closes[m]
  BY LivesAre
<1>2. cursor[m] \in Cursor /\ (cursor[m] # K!NoCursor => cursor[m].from = Opens[m])
      /\ K!NoCursor.to = -1
  BY DEF CandlesInv, CursorSays, K!NoCursor
<1>3. K!CoveredTo(m, now) = EndOf(m, now) /\ EndOf(m, now) \in Opens[m] .. Closes[m]
  BY <1>1, MinOf, MaxOf DEF K!CoveredTo, EndOf
<1>4. cursor[m].to \in Int /\ cursor[m].from \in Int
  BY <1>2 DEF Cursor
<1>5. /\ K!Max({cursor[m].to, EndOf(m, now)}) =
           (IF cursor[m].to >= EndOf(m, now) THEN cursor[m].to ELSE EndOf(m, now))
      /\ K!Min({cursor[m].from, Opens[m]}) =
           (IF cursor[m].from <= Opens[m] THEN cursor[m].from ELSE Opens[m])
  BY <1>1, <1>3, <1>4, MinOf, MaxOf
<1> QED BY <1>1, <1>2, <1>3, <1>4, <1>5 DEF K!Recorded

(* One job moves, the clock does not.                                      *)
LEMMA JobMoves ==
  ASSUME CandlesInv, UNCHANGED clock, NEW j \in K!Jobs, NEW r,
         job' = [job EXCEPT ![j] = r], JobSays(j)'
  PROVE  job' = [i \in K!Jobs |-> job'[i]] /\ \A i \in K!Jobs : JobSays(i)'
<1>1. job = [i \in K!Jobs |-> job[i]] /\ \A i \in K!Jobs : JobSays(i)
  BY DEF CandlesInv
<1>2. job' = [i \in K!Jobs |-> job'[i]] /\ \A i \in K!Jobs \ {j} : job'[i] = job[i]
  BY <1>1
<1>3. ASSUME NEW i \in K!Jobs \ {j} PROVE JobSays(i)'
  <2>1. \A m \in Quoted : Brought(i, m) => Brought(i, m)'
    BY <1>2 DEF Brought, Upto
  <2> QED BY <1>1, <1>2, <2>1 DEF JobSays
<1> QED BY <1>2, <1>3

(* A job drops its market, or is idle again.                               *)
LEMMA JobDrops ==
  ASSUME CandlesInv, UNCHANGED clock, NEW j \in K!Jobs, job[j].pc # "idle", NEW m,
         \/ job' = [job EXCEPT ![j] = K!Idle]
         \/ job' = K!Drop(j, m)
         \/ job' = [K!Drop(j, m) EXCEPT ![j].spent = @ + 1]
  PROVE  job' = [i \in K!Jobs |-> job'[i]] /\ \A i \in K!Jobs : JobSays(i)'
<1>1. job[j] = [k \in JobFields |-> job[j][k]] /\ job = [i \in K!Jobs |-> job[i]]
      /\ job[j].now \in Nat /\ clock \in job[j].now .. job[j].now + 1 /\ job[j].spent \in Int
      /\ job[j].todo \subseteq Quoted
  BY DEF CandlesInv, JobSays
<1>2. CASE job' = [job EXCEPT ![j] = K!Idle]
  <2>1. K!Idle.pc = "idle" /\ K!Idle = [k \in JobFields |-> K!Idle[k]]
    BY DEF K!Idle, JobFields
  <2>2. JobSays(j)'
    <3>1. K!Idle.pc = "idle" /\ K!Idle = [k \in JobFields |-> K!Idle[k]] /\ job'[j] = [k \in JobFields |-> job'[j][k]] /\ job'[j].pc = "idle"
      BY <1>1, <1>2, <2>1 DEF K!Idle, JobFields
    <3> QED BY <3>1 DEF JobSays
  <2> QED BY <1>2, <2>2, JobMoves
<1>3. ASSUME NEW n \in Int,
             job' = [job EXCEPT ![j] = [k \in JobFields |->
               IF k = "todo" THEN job[j].todo \ {m} ELSE IF k = "pc" THEN "next"
               ELSE IF k \in {"market", "rows"} THEN {} ELSE IF k = "spent" THEN n ELSE job[j][k]]]
      PROVE  job' = [i \in K!Jobs |-> job'[i]] /\ \A i \in K!Jobs : JobSays(i)'
  <2>1. job'[j] = [k \in JobFields |->
               IF k = "todo" THEN job[j].todo \ {m} ELSE IF k = "pc" THEN "next"
               ELSE IF k \in {"market", "rows"} THEN {} ELSE IF k = "spent" THEN n ELSE job[j][k]]
    BY <1>1, <1>3
  <2>2. job'[j].pc = "next" /\ job'[j].rows = {} /\ job'[j].spent = n /\ job'[j].todo = job[j].todo \ {m}
        /\ job'[j].now = job[j].now /\ job'[j] = [k \in JobFields |-> job'[j][k]]
    BY <2>1 DEF JobFields
  <2>3. JobSays(j)'
    BY <1>1, <2>2 DEF JobSays
  <2> QED BY <1>3, <2>3, JobMoves
<1>4. ASSUME job' = K!Drop(j, m) PROVE job' = [i \in K!Jobs |-> job'[i]] /\ \A i \in K!Jobs : JobSays(i)'
  <2>1. job' = [job EXCEPT ![j] = [k \in JobFields |->
               IF k = "todo" THEN job[j].todo \ {m} ELSE IF k = "pc" THEN "next"
               ELSE IF k \in {"market", "rows"} THEN {} ELSE IF k = "spent" THEN job[j].spent ELSE job[j][k]]]
    <3>1. job' = [job EXCEPT ![j] = [job[j] EXCEPT !.todo = job[j].todo \ {m}, !.pc = "next",
                                                   !.market = {}, !.rows = {}]]
      BY <1>4 DEF K!Drop
    <3>2. [job[j] EXCEPT !.todo = job[j].todo \ {m}, !.pc = "next", !.market = {}, !.rows = {}]
            = [k \in JobFields |->
               IF k = "todo" THEN job[j].todo \ {m} ELSE IF k = "pc" THEN "next"
               ELSE IF k \in {"market", "rows"} THEN {} ELSE IF k = "spent" THEN job[j].spent ELSE job[j][k]]
      BY <1>1 DEF JobFields
    <3> QED BY <3>1, <3>2
  <2> QED BY <1>1, <1>3, <2>1
<1>5. ASSUME job' = [K!Drop(j, m) EXCEPT ![j].spent = @ + 1]
      PROVE  job' = [i \in K!Jobs |-> job'[i]] /\ \A i \in K!Jobs : JobSays(i)'
  <2>1. job' = [job EXCEPT ![j] = [k \in JobFields |->
               IF k = "todo" THEN job[j].todo \ {m} ELSE IF k = "pc" THEN "next"
               ELSE IF k \in {"market", "rows"} THEN {} ELSE IF k = "spent" THEN job[j].spent + 1 ELSE job[j][k]]]
    BY <1>1, <1>5 DEF K!Drop, JobFields
  <2>2. job[j].spent + 1 \in Int
    BY <1>1
  <2> QED BY <1>3, <2>1, <2>2
<1> QED BY <1>2, <1>4, <1>5

(* A market of a job at work.                                              *)
LEMMA JobAt ==
  ASSUME CandlesInv, NEW j \in K!Jobs, job[j].pc = "fetch", NEW m, m \in job[j].market
  PROVE  /\ m \in Quoted /\ job[j].market = {m}
         /\ Brought(j, m)
         /\ job[j].now \in Nat /\ clock \in job[j].now .. job[j].now + 1 /\ clock \in Nat
         /\ job[j].spent \in Int
<1>1. PICK o \in Quoted : job[j].market = {o} /\ Brought(j, o)
  BY DEF CandlesInv, JobSays
<1>2. m = o
  BY <1>1
<1> QED BY <1>1, <1>2 DEF CandlesInv, JobSays

(* A market that is gone is recorded as expired.                           *)
LEMMA ExpiredIs ==
  ASSUME CandlesInv, NEW m \in Quoted, NEW now \in Nat
  PROVE  /\ K!Recorded(m, now, TRUE) \in Cursor
         /\ K!Recorded(m, now, TRUE).from = Opens[m]
         /\ K!Recorded(m, now, TRUE).to \in Opens[m] .. Closes[m]
         /\ K!Recorded(m, now, TRUE).expired
<1> DEFINE end == EndOf(m, now)
           to == IF cursor[m] # K!NoCursor /\ cursor[m].to >= end THEN cursor[m].to ELSE end
           r  == K!Recorded(m, now, TRUE)
<1>1. r = [from |-> Opens[m], to |-> to, expired |-> TRUE] /\ end \in Opens[m] .. Closes[m]
  BY RecordedIs
<1>2. cursor[m] # K!NoCursor => cursor[m].to \in Opens[m] .. Closes[m]
  BY DEF CandlesInv, CursorSays
<1>3. to \in Opens[m] .. Closes[m]
  BY <1>1, <1>2
<1> HIDE DEF to, r
<1>4. r \in Cursor /\ r.from = Opens[m] /\ r.to \in Opens[m] .. Closes[m] /\ r.expired
  BY <1>1, <1>3, LivesAre DEF Cursor
<1> QED BY <1>4 DEF r

LEMMA ExpiredKept ==
  ASSUME CandlesInv, NEW m \in Quoted, NEW r \in Cursor, r.from = Opens[m],
         r.to \in Opens[m] .. Closes[m], r.expired,
         UNCHANGED <<clock, have, cut>>, Closes[m] < clock, cursor' = [cursor EXCEPT ![m] = r]
  PROVE  cursor' = [n \in Quoted |-> cursor'[n]] /\ \A n \in Quoted : CursorSays(n)'
<1>1. cursor = [n \in Quoted |-> cursor[n]] /\ \A n \in Quoted : CursorSays(n)
  BY DEF CandlesInv
<1>2. cursor'[m] = r /\ \A n \in Quoted \ {m} : cursor'[n] = cursor[n]
  BY <1>1
<1>3. CursorSays(m)'
  BY <1>1, <1>2 DEF CursorSays, Upto
<1> QED BY <1>1, <1>2, <1>3 DEF CursorSays, Upto

(* One more stretch from the opening leaves no hole.                       *)
LEMMA UptoJoins ==
  ASSUME NEW m \in Quoted, NEW a \in Opens[m] .. Closes[m], NEW b \in Opens[m] .. Closes[m]
  PROVE  \E end \in Opens[m] .. Closes[m] : Upto(m, a) \cup Upto(m, b) = Upto(m, end)
<1>1. Opens[m] \in Nat /\ Closes[m] \in Nat
  BY LivesAre
<1>2. CASE a <= b
  <2>1. Upto(m, a) \cup Upto(m, b) = Upto(m, b)
    BY <1>1, <1>2 DEF Upto
  <2> QED BY <2>1
<1>3. CASE ~(a <= b)
  <2>1. Upto(m, a) \cup Upto(m, b) = Upto(m, a)
    BY <1>1, <1>3 DEF Upto
  <2> QED BY <2>1
<1> QED BY <1>2, <1>3

(* A fetch that was not short brought all that its cursor will say; one that*)
(* was short has its market in cut.                                         *)
LEMMA StoreKept ==
  ASSUME CandlesInv, NEW j \in K!Jobs, NEW m \in Quoted, K!Store(j, m)
  PROVE  CandlesInv'
<1> DEFINE now == job[j].now
           end == EndOf(m, now)
<1>1. job[j].pc = "fetch" /\ m \in job[j].market /\ UNCHANGED clock /\ job' = K!Drop(j, m)
      /\ have' = [have EXCEPT ![m] = have[m] \cup job[j].rows]
      /\ cursor' = [cursor EXCEPT ![m] = K!Recorded(m, now, FALSE)]
      /\ cut' = (IF job[j].at < K!CoveredTo(m, now) THEN cut \cup {m}
                 ELSE IF K!CoveredTo(m, now) >= cursor[m].to THEN cut \ {m} ELSE cut)
  BY DEF K!Store, K!Short
<1>2. now \in Nat /\ clock \in now .. now + 1 /\ clock \in Nat /\ Brought(j, m)
  BY <1>1, JobAt
<1>3. Opens[m] \in Nat /\ Closes[m] \in Nat /\ Opens[m] < Closes[m]
  BY LivesAre
<1>4. /\ have = [n \in Quoted |-> have[n]] /\ cursor = [n \in Quoted |-> cursor[n]]
      /\ \A n \in Quoted : CursorSays(n)
  BY DEF CandlesInv
<1>5. /\ have'[m] = have[m] \cup job[j].rows /\ cursor'[m] = K!Recorded(m, now, FALSE)
      /\ \A n \in Quoted \ {m} : have'[n] = have[n] /\ cursor'[n] = cursor[n]
      /\ have' = [n \in Quoted |-> have'[n]] /\ cursor' = [n \in Quoted |-> cursor'[n]]
  BY <1>1, <1>4
<1>6. PICK brought \in Opens[m] .. job[j].at :
        job[j].rows = Upto(m, brought) /\ (brought = job[j].at \/ now <= brought)
  BY <1>2 DEF Brought
<1>7. job[j].at \in Opens[m] .. Closes[m] /\ brought \in Opens[m] .. Closes[m]
  BY <1>2, <1>3, <1>6 DEF Brought
<1>8. PICK stored_ \in Opens[m] .. Closes[m] : have[m] = Upto(m, stored_)
  BY <1>4 DEF CursorSays
<1>9. \E e \in Opens[m] .. Closes[m] : have'[m] = Upto(m, e)
  <2>1. have'[m] = Upto(m, stored_) \cup Upto(m, brought)
    BY <1>5, <1>6, <1>8
  <2>2. PICK e \in Opens[m] .. Closes[m] : Upto(m, stored_) \cup Upto(m, brought) = Upto(m, e)
    BY <1>7, UptoJoins
  <2> QED BY <2>1, <2>2
<1>10. K!CoveredTo(m, now) = end /\ end \in Opens[m] .. Closes[m]
  BY <1>2, <1>3, MinOf, MaxOf DEF K!CoveredTo, EndOf
<1>11. /\ cursor'[m] = [from |-> Opens[m], expired |-> FALSE,
                        to |-> IF cursor[m] # K!NoCursor /\ cursor[m].to >= end THEN cursor[m].to ELSE end]
  <2> HIDE DEF end
  <2> QED BY <1>2, <1>5, RecordedIs DEF end
<1>12. cursor[m] \in Cursor
       /\ (cursor[m] # K!NoCursor =>
            /\ cursor[m].to \in Opens[m] .. Closes[m]
            /\ cursor[m].expired => Closes[m] < clock
            /\ ~cursor[m].expired /\ m \notin cut => Upto(m, cursor[m].to) \subseteq have[m])
  BY <1>4 DEF CursorSays
<1>13. cursor'[m] \in Cursor /\ cursor'[m].from = Opens[m] /\ cursor'[m].expired = FALSE
       /\ cursor'[m].to = (IF cursor[m] # K!NoCursor /\ cursor[m].to >= end THEN cursor[m].to ELSE end)
       /\ cursor'[m].to \in Opens[m] .. Closes[m]
  <2> DEFINE to == IF cursor[m] # K!NoCursor /\ cursor[m].to >= end THEN cursor[m].to ELSE end
  <2>1. to \in Opens[m] .. Closes[m]
    BY <1>10, <1>12
  <2>2. cursor'[m] = [from |-> Opens[m], expired |-> FALSE, to |-> to]
    BY <1>11
  <2> HIDE DEF to
  <2>3. cursor'[m] \in Cursor /\ cursor'[m].from = Opens[m] /\ cursor'[m].expired = FALSE
        /\ cursor'[m].to = to
    BY <1>3, <2>1, <2>2 DEF Cursor
  <2> QED BY <2>1, <2>3 DEF to
<1>14. ASSUME m \notin cut' PROVE Upto(m, cursor'[m].to) \subseteq have'[m]
  <2>1. job[j].at >= end
    BY <1>1, <1>7, <1>10, <1>14, <1>3
  <2>2. Upto(m, end) \subseteq Upto(m, brought)
    <3>1. brought >= end
      <4>1. now <= brought => end <= brought
        BY <1>2, <1>3, <1>7 DEF EndOf
      <4> QED BY <1>3, <1>6, <1>7, <1>10, <2>1, <4>1
    <3> HIDE DEF end
    <3> QED BY <1>3, <1>7, <1>10, <3>1 DEF Upto
  <2>3. CASE cursor'[m].to = end
    BY <1>5, <1>6, <2>2, <2>3
  <2>4. CASE cursor'[m].to # end
    <3>1. cursor[m] # K!NoCursor /\ cursor'[m].to = cursor[m].to /\ ~(end >= cursor[m].to)
      <4> HIDE DEF end
      <4> QED BY <1>3, <1>10, <1>12, <1>13, <2>4
    <3>2. m \notin cut
      <4>1. cut' = cut
        <5> HIDE DEF end
        <5> QED BY <1>1, <1>7, <1>10, <1>3, <2>1, <3>1
      <4> QED BY <1>14, <4>1
    <3>3. ~cursor[m].expired
      <4>1. cursor[m].expired => Closes[m] <= now
        BY <1>2, <1>3, <1>12, <3>1
      <4>2. Closes[m] <= now => end = Closes[m]
        BY DEF EndOf
      <4> HIDE DEF end
      <4> QED BY <1>3, <1>10, <1>12, <3>1, <4>1, <4>2
    <3> QED BY <1>5, <1>12, <3>1, <3>2, <3>3
  <2> QED BY <2>3, <2>4
<1>15. CursorSays(m)'
  <2> HIDE DEF end
  <2> QED BY <1>9, <1>13, <1>14 DEF CursorSays, Upto
<1>16. \A n \in Quoted \ {m} : n \in cut' <=> n \in cut
  <2> HIDE DEF end
  <2> QED BY <1>1
<1>17. \A n \in Quoted : CursorSays(n)'
  BY <1>1, <1>4, <1>5, <1>15, <1>16 DEF CursorSays, Upto
<1>18. job' = [i \in K!Jobs |-> job'[i]] /\ \A i \in K!Jobs : JobSays(i)'
  BY <1>1, JobDrops
<1> QED BY <1>1, <1>2, <1>5, <1>17, <1>18 DEF CandlesInv

LEMMA TakeKept ==
  ASSUME CandlesInv, NEW j \in K!Jobs, NEW m \in Quoted, K!Take(j, m)
  PROVE  CandlesInv'
<1>1. job[j].pc = "next" /\ m \in job[j].todo /\ job[j].spent < Budget /\ UNCHANGED <<clock, have, cut>>
  BY DEF K!Take, K!IsNext, K!HasBudget
<1>2. job[j] = [k \in JobFields |-> job[j][k]] /\ job = [i \in K!Jobs |-> job[i]]
      /\ job[j].now \in Nat /\ clock \in job[j].now .. job[j].now + 1 /\ job[j].spent \in Int
      /\ job[j].todo \subseteq Quoted /\ clock \in Nat /\ have = [n \in Quoted |-> have[n]]
      /\ job[j].rows = {}
  BY <1>1 DEF CandlesInv, JobSays
<1> DEFINE taken == [k \in JobFields |-> IF k = "pc" THEN "fetch" ELSE IF k = "market" THEN {m}
                                         ELSE IF k = "at" THEN Opens[m] ELSE job[j][k]]
<1>3. \/ job' = [job EXCEPT ![j].pc = "fetch", ![j].market = {m}, ![j].at = Opens[m]] /\ UNCHANGED cursor
      \/ job' = K!Drop(j, m) /\ UNCHANGED cursor
      \/ job' = K!Drop(j, m) /\ K!Gone(m, job[j].now)
         /\ cursor' = [cursor EXCEPT ![m] = K!Recorded(m, job[j].now, TRUE)]
  BY DEF K!Take
<1>4. CASE job' = K!Drop(j, m)
  <2>1. job' = [i \in K!Jobs |-> job'[i]] /\ \A i \in K!Jobs : JobSays(i)'
    BY <1>1, <1>4, JobDrops
  <2>2. K!Gone(m, job[j].now) => Closes[m] < clock
    BY <1>2, LivesAre DEF K!Gone
  <2>3. CASE UNCHANGED cursor
    BY <1>1, <2>1, <2>3 DEF CandlesInv, CursorSays
  <2>4. CASE K!Gone(m, job[j].now) /\ cursor' = [cursor EXCEPT ![m] = K!Recorded(m, job[j].now, TRUE)]
    <3>1. cursor' = [n \in Quoted |-> cursor'[n]] /\ \A n \in Quoted : CursorSays(n)'
      <4> DEFINE r == K!Recorded(m, job[j].now, TRUE)
      <4>1. r \in Cursor /\ r.from = Opens[m] /\ r.to \in Opens[m] .. Closes[m] /\ r.expired
        BY <1>2, ExpiredIs
      <4>2. cursor' = [cursor EXCEPT ![m] = r]
        BY <2>4
      <4> HIDE DEF r
      <4> QED BY <1>1, <2>2, <2>4, <4>1, <4>2, ExpiredKept
    <3> QED BY <1>1, <1>2, <2>1, <3>1 DEF CandlesInv
  <2>5. UNCHANGED cursor \/ (K!Gone(m, job[j].now) /\ cursor' = [cursor EXCEPT ![m] = K!Recorded(m, job[j].now, TRUE)])
    BY DEF K!Take
  <2> QED BY <2>3, <2>4, <2>5
<1>5. CASE job' = [job EXCEPT ![j].pc = "fetch", ![j].market = {m}, ![j].at = Opens[m]] /\ UNCHANGED cursor
  <2>1. job' = [job EXCEPT ![j] = taken]
    BY <1>2, <1>5 DEF JobFields
  <2>2. job'[j] = taken
    BY <1>2, <2>1
  <2>3. job'[j].pc = "fetch" /\ job'[j].market = {m} /\ job'[j].at = Opens[m] /\ job'[j].spent = job[j].spent
        /\ job'[j].now = job[j].now /\ job'[j].todo = job[j].todo /\ job'[j] = [k \in JobFields |-> job'[j][k]]
        /\ job'[j].rows = {}
    BY <1>2, <2>2 DEF JobFields
  <2>4. JobSays(j)'
    <3>1. Upto(m, Opens[m]) = {} /\ Opens[m] \in Opens[m] .. Closes[m] /\ Opens[m] \in Opens[m] .. Opens[m]
      BY LivesAre DEF Upto
    <3>2. Brought(j, m)'
      BY <2>3, <3>1 DEF Brought, Upto
    <3> QED BY <1>1, <1>2, <2>3, <3>2 DEF JobSays
  <2>5. job' = [i \in K!Jobs |-> job'[i]] /\ \A i \in K!Jobs : JobSays(i)'
    BY <1>1, <2>1, <2>4, JobMoves
  <2> QED BY <1>1, <1>5, <2>5 DEF CandlesInv, CursorSays
<1> QED BY <1>3, <1>4, <1>5

LEMMA AnswerKeeps ==
  ASSUME CandlesInv, NEW j \in K!Jobs, NEW m \in Quoted, K!Answer(j, m)
  PROVE  CandlesInv'
<1> DEFINE at_ == job[j].at
           now == job[j].now
           next == IF at_ + Span <= Closes[m] THEN at_ + Span ELSE Closes[m]
           more == job[j].rows \cup {t \in at_ .. next - 1 : t < clock}
<1>1. job[j].pc = "fetch" /\ m \in job[j].market /\ at_ < Closes[m]
      /\ UNCHANGED <<clock, have, cursor, cut>>
  BY DEF K!Answer, K!Requesting
<1>2. Opens[m] \in Nat /\ Closes[m] \in Nat /\ Opens[m] < Closes[m] /\ Span \in Nat \ {0}
  BY LivesAre
<1>3. at_ \in Opens[m] .. Closes[m] /\ job[j].market = {m} /\ job[j].spent \in Int
      /\ now \in Nat /\ clock \in now .. now + 1 /\ clock \in Nat /\ Brought(j, m)
  BY <1>1, JobAt DEF Brought
<1>4. K!Min({at_ + Span, Closes[m]}) = next /\ next \in Opens[m] .. Closes[m] /\ at_ < next
  BY <1>1, <1>2, <1>3, MinOf
<1>5. PICK end \in Opens[m] .. at_ : job[j].rows = Upto(m, end) /\ (end = at_ \/ now <= end)
  BY <1>3 DEF Brought
<1>6. \E e \in Opens[m] .. next : more = Upto(m, e) /\ (e = next \/ now <= e)
  <2>1. CASE end = at_ /\ next <= clock
    <3>1. more = Upto(m, next) /\ next \in Opens[m] .. next
      <4> HIDE DEF next
      <4> QED BY <1>2, <1>3, <1>4, <1>5, <2>1 DEF Upto
    <3> HIDE DEF more, next
    <3> QED BY <3>1
  <2>2. CASE end = at_ /\ ~(next <= clock) /\ at_ <= clock
    <3>1. more = Upto(m, clock) /\ clock \in Opens[m] .. next /\ now <= clock
      <4> HIDE DEF next
      <4> QED BY <1>2, <1>3, <1>4, <1>5, <2>2 DEF Upto
    <3> HIDE DEF more, next
    <3> QED BY <3>1
  <2>3. CASE end = at_ /\ ~(at_ <= clock)
    <3>1. more = Upto(m, at_) /\ at_ \in Opens[m] .. next /\ now <= at_
      <4> HIDE DEF next
      <4> QED BY <1>2, <1>3, <1>4, <1>5, <2>3 DEF Upto
    <3> HIDE DEF more, next
    <3> QED BY <3>1
  <2>4. CASE end # at_
    <3>1. more = Upto(m, end) /\ end \in Opens[m] .. next /\ now <= end
      <4>1. now + 1 <= at_ /\ now <= end
        BY <1>2, <1>3, <1>5, <2>4
      <4>2. {t \in at_ .. next - 1 : t < clock} = {}
        <5> HIDE DEF next
        <5> QED BY <1>2, <1>3, <1>4, <4>1
      <4> HIDE DEF next
      <4> QED BY <1>2, <1>3, <1>4, <1>5, <4>1, <4>2
    <3> HIDE DEF more, next
    <3> QED BY <3>1
  <2> HIDE DEF more, next
  <2> QED BY <1>2, <1>3, <1>4, <1>5, <2>1, <2>2, <2>3, <2>4
<1>7. job' = [job EXCEPT ![j].spent = job[j].spent + 1, ![j].at = next, ![j].rows = more]
  BY <1>4 DEF K!Answer
<1>8. job[j] = [k \in JobFields |-> job[j][k]] /\ job = [i \in K!Jobs |-> job[i]]
      /\ job[j].todo \subseteq Quoted
  BY <1>1 DEF CandlesInv, JobSays
<1> DEFINE later == [k \in JobFields |-> IF k = "spent" THEN job[j].spent + 1
                      ELSE IF k = "at" THEN next ELSE IF k = "rows" THEN more ELSE job[j][k]]
<1> HIDE DEF more, next
<1>9. job' = [job EXCEPT ![j] = later]
  BY <1>7, <1>8 DEF JobFields
<1>10. job'[j] = later
  BY <1>8, <1>9
<1>11. /\ job'[j].pc = "fetch" /\ job'[j].market = {m} /\ job'[j].at = next
       /\ job'[j].spent = job[j].spent + 1 /\ job'[j].rows = more
       /\ job'[j].now = job[j].now /\ job'[j].todo = job[j].todo /\ job'[j] = [k \in JobFields |-> job'[j][k]]
  BY <1>1, <1>3, <1>10 DEF JobFields
<1> HIDE DEF later
<1>12. Brought(j, m)'
  BY <1>4, <1>6, <1>11 DEF Brought, Upto
<1>13. JobSays(j)'
  BY <1>1, <1>3, <1>8, <1>11, <1>12 DEF JobSays
<1>14. job' = [i \in K!Jobs |-> job'[i]] /\ \A i \in K!Jobs : JobSays(i)'
  BY <1>1, <1>9, <1>13, JobMoves
<1> QED BY <1>1, <1>14 DEF CandlesInv, CursorSays, Upto

(* A refused market, an error, an exception, the end of a run.             *)
LEMMA EndKept ==
  ASSUME CandlesInv, NEW j \in K!Jobs, NEW m \in Quoted,
         K!NotFound(j, m) \/ K!Error(j, m) \/ K!Raise(j, m) \/ K!Finish(j)
  PROVE  CandlesInv'
<1>1. job[j].pc # "idle" /\ UNCHANGED <<clock, have, cut>>
  BY DEF K!NotFound, K!Error, K!Raise, K!Finish, K!Requesting
<1>2. job' = [i \in K!Jobs |-> job'[i]] /\ \A i \in K!Jobs : JobSays(i)'
  BY <1>1, JobDrops DEF K!NotFound, K!Error, K!Raise, K!Finish
<1>3. CASE UNCHANGED cursor
  BY <1>1, <1>2, <1>3 DEF CandlesInv, CursorSays
<1>4. CASE K!NotFound(j, m)
  <2>1. job[j].pc = "fetch" /\ m \in job[j].market /\ K!Gone(m, clock)
        /\ cursor' = [cursor EXCEPT ![m] = K!Recorded(m, job[j].now, TRUE)]
    BY <1>4 DEF K!NotFound, K!Requesting
  <2>2. job[j].now \in Nat /\ clock \in Nat
    BY <2>1, JobAt
  <2>3. Closes[m] < clock
    BY <2>1, <2>2, LivesAre DEF K!Gone
  <2>4. cursor' = [n \in Quoted |-> cursor'[n]] /\ \A n \in Quoted : CursorSays(n)'
    <3> DEFINE r == K!Recorded(m, job[j].now, TRUE)
    <3>1. r \in Cursor /\ r.from = Opens[m] /\ r.to \in Opens[m] .. Closes[m] /\ r.expired
      BY <2>2, ExpiredIs
    <3>2. cursor' = [cursor EXCEPT ![m] = r]
      BY <2>1
    <3> HIDE DEF r
    <3> QED BY <1>1, <2>3, <3>1, <3>2, ExpiredKept
  <2> QED BY <1>1, <1>2, <2>4 DEF CandlesInv
<1> QED BY <1>3, <1>4 DEF K!Error, K!Raise, K!Finish

LEMMA StartKept ==
  ASSUME CandlesInv, K!StartRefresh \/ K!StartBackfill PROVE CandlesInv'
<1>1. PICK j \in K!Jobs, todo_ \in SUBSET Quoted :
        /\ job' = [job EXCEPT ![j] = [K!Idle EXCEPT !.pc = "next", !.now = clock, !.todo = todo_]]
        /\ UNCHANGED <<clock, have, cursor, cut>>
  <2>1. CASE K!StartRefresh
    <3> DEFINE chosen == {m \in Quoted : /\ Closes[m] < clock /\ ~K!Gone(m, clock)
                                        /\ ~cursor[m].expired /\ ~K!Covers(cursor[m], m)}
    <3>1. chosen \in SUBSET Quoted /\ "refresh" \in K!Jobs
      BY DEF K!Jobs
    <3>2. job' = [job EXCEPT !["refresh"] = [K!Idle EXCEPT !.pc = "next", !.now = clock, !.todo = chosen]]
          /\ UNCHANGED <<clock, have, cursor, cut>>
      BY <2>1 DEF K!StartRefresh
    <3> HIDE DEF chosen
    <3> QED BY <3>1, <3>2
  <2>2. CASE K!StartBackfill
    <3> DEFINE chosen == {m \in Quoted : Opens[m] <= clock}
    <3>1. chosen \in SUBSET Quoted /\ "backfill" \in K!Jobs
      BY DEF K!Jobs
    <3>2. job' = [job EXCEPT !["backfill"] = [K!Idle EXCEPT !.pc = "next", !.now = clock, !.todo = chosen]]
          /\ UNCHANGED <<clock, have, cursor, cut>>
      BY <2>2 DEF K!StartBackfill
    <3> HIDE DEF chosen
    <3> QED BY <3>1, <3>2
  <2> QED BY <2>1, <2>2
<1> DEFINE r == [K!Idle EXCEPT !.pc = "next", !.now = clock, !.todo = todo_]
<1>2. r.pc = "next" /\ r.now = clock /\ r.todo = todo_ /\ r.spent = 0 /\ r.rows = {} /\ r = [k \in JobFields |-> r[k]]
  BY DEF K!Idle, JobFields
<1> HIDE DEF r
<1>3. job'[j] = r
  BY <1>1 DEF CandlesInv, r
<1>4. JobSays(j)'
  <2>1. clock' = clock /\ clock \in Nat
    BY <1>1 DEF CandlesInv
  <2>2. job'[j].pc = "next" /\ job'[j].now = clock /\ job'[j].todo = todo_ /\ job'[j].spent = 0 /\ job'[j].rows = {}
        /\ job'[j] = [k \in JobFields |-> job'[j][k]]
    BY <1>2, <1>3
  <2> QED BY <2>1, <2>2 DEF JobSays
<1>5. job' = [job EXCEPT ![j] = r]
  BY <1>1 DEF r
<1>6. job' = [i \in K!Jobs |-> job'[i]] /\ \A i \in K!Jobs : JobSays(i)'
  BY <1>1, <1>4, <1>5, JobMoves
<1> QED BY <1>1, <1>6 DEF CandlesInv, CursorSays

LEMMA CandlesStep ==
  ASSUME CandlesInv, [K!Next]_candles PROVE CandlesInv'
<1>1. CASE UNCHANGED candles
  <2>1. UNCHANGED clock /\ UNCHANGED have /\ UNCHANGED cursor /\ UNCHANGED job /\ UNCHANGED cut
    BY <1>1 DEF candles
  <2>2. \A m \in Quoted : CursorSays(m) => CursorSays(m)'
    BY <2>1 DEF CursorSays, Upto
  <2>3. \A j \in K!Jobs : JobSays(j) => JobSays(j)'
    <3> SUFFICES ASSUME NEW j \in K!Jobs, JobSays(j) PROVE JobSays(j)'
      OBVIOUS
    <3>1. \A m \in Quoted : Brought(j, m) => Brought(j, m)'
      BY <2>1 DEF Brought, Upto
    <3> QED BY <2>1, <3>1 DEF JobSays
  <2> QED BY <2>1, <2>2, <2>3 DEF CandlesInv
<1>2. CASE K!Pass
  <2>1. clock' = clock + 1 /\ UNCHANGED <<have, cursor, job, cut>>
        /\ \A j \in K!Jobs : job[j].pc # "idle" => job[j].now = clock
    BY <1>2 DEF K!Pass
  <2>2. \A m \in Quoted : CursorSays(m)'
    BY <2>1, LivesAre DEF CandlesInv, CursorSays, Upto
  <2>3. \A j \in K!Jobs : JobSays(j)'
    BY <2>1 DEF CandlesInv, JobSays, Brought, Upto
  <2> QED BY <2>1, <2>2, <2>3 DEF CandlesInv
<1>3. ASSUME NEW j \in K!Jobs, K!Finish(j) PROVE CandlesInv'
  <2>1. job[j].pc # "idle" /\ UNCHANGED <<clock, have, cursor, cut>> /\ job' = [job EXCEPT ![j] = K!Idle]
    BY <1>3 DEF K!Finish
  <2>2. job' = [i \in K!Jobs |-> job'[i]] /\ \A i \in K!Jobs : JobSays(i)'
    BY <2>1, JobDrops
  <2> QED BY <2>1, <2>2 DEF CandlesInv, CursorSays
<1>4. "refresh" \in K!Jobs /\ "backfill" \in K!Jobs
  BY DEF K!Jobs
<1> QED
  BY <1>1, <1>2, <1>3, <1>4, StoreKept, TakeKept, AnswerKeeps, EndKept, StartKept
  DEF K!Next, K!Refresh, K!Backfill

LEMMA CandlesFollow == CandlesInv => K!CoverageClaimed
<1> SUFFICES ASSUME CandlesInv, NEW m \in Quoted
             PROVE  /\ \E end \in Opens[m] .. Closes[m] : have[m] = Opens[m] .. end - 1
                    /\ cursor[m] # K!NoCursor /\ ~cursor[m].expired /\ m \notin cut =>
                         cursor[m].from .. cursor[m].to - 1 \subseteq have[m]
  BY DEF K!CoverageClaimed
<1>1. CursorSays(m)
  BY DEF CandlesInv
<1> QED BY <1>1 DEF CursorSays, Upto

-----------------------------------------------------------------------------
(* Doubling.  A recursive function is what its equation says once there is a *)
(* function that satisfies it; there is one on each initial segment.        *)
LEMMA LeastNatural ==
  ASSUME NEW S \in SUBSET Nat, S # {} PROVE \E n \in S : \A m \in S : n <= m
<1>1. PICK k \in S : TRUE
  OBVIOUS
<1> DEFINE near == {m \in S : m <= k}
           fam == {0 .. n : n \in near}
           all == 0 .. k
<1>2. fam \in SUBSET SUBSET all /\ fam # {}
  BY <1>1
<1>3. IsFiniteSet(all)
  BY FS_Interval
<1> HIDE DEF fam, all
<1>4. PICK low \in fam : \A V \in fam : V \subseteq low => V = low
  BY <1>2, <1>3, MinimalSubset
<1>5. PICK n \in near : low = 0 .. n
  BY <1>4 DEF fam
<1>6. ASSUME NEW m \in S, m < n PROVE FALSE
  <2>1. m \in Nat /\ n \in Nat /\ k \in Nat /\ n <= k
    OBVIOUS
  <2>2. m \in near
    BY <1>6, <2>1
  <2>3. 0 .. m \in fam
    BY <2>2 DEF fam
  <2>4. 0 .. m \subseteq 0 .. n
    BY <1>6, <2>1
  <2>5. 0 .. m = 0 .. n
    BY <1>4, <1>5, <2>3, <2>4
  <2>6. n \in 0 .. n /\ n \notin 0 .. m
    BY <1>6, <2>1
  <2> QED BY <2>5, <2>6
<1>7. n \in S /\ n \in Nat /\ \A m \in S : m \in Nat
  OBVIOUS
<1> HIDE DEF near
<1> QED BY <1>6, <1>7

Doubles(f, dom) == f = [n \in dom |-> IF n = 0 THEN 1 ELSE 2 * f[n - 1]]

LEMMA DoublesAgree ==
  ASSUME NEW k \in Nat, NEW l \in Nat, NEW g, NEW h, Doubles(g, 0 .. k), Doubles(h, 0 .. l),
         NEW n \in Nat, n <= k, n <= l
  PROVE  g[n] = h[n]
<1> DEFINE S == {m \in Nat : m <= k /\ m <= l /\ g[m] # h[m]}
<1>1. SUFFICES ASSUME S # {} PROVE FALSE
  OBVIOUS
<1>0. S \in SUBSET Nat
  OBVIOUS
<1> HIDE DEF S
<1>2. PICK m \in S : \A i \in S : m <= i
  BY <1>0, <1>1, LeastNatural
<1>3. m \in Nat /\ m <= k /\ m <= l /\ g[m] # h[m]
  BY <1>2 DEF S
<1>4. /\ g[m] = IF m = 0 THEN 1 ELSE 2 * g[m - 1]
      /\ h[m] = IF m = 0 THEN 1 ELSE 2 * h[m - 1]
  BY <1>3 DEF Doubles
<1>5. m # 0
  BY <1>3, <1>4
<1>6. m - 1 \in Nat /\ m - 1 <= k /\ m - 1 <= l /\ m - 1 \notin S
  BY <1>2, <1>3, <1>5
<1>7. g[m - 1] = h[m - 1]
  BY <1>6 DEF S
<1> QED BY <1>3, <1>4, <1>7

LEMMA DoublesExist == ASSUME NEW k \in Nat PROVE \E g : Doubles(g, 0 .. k)
<1> DEFINE S == {m \in Nat : ~ \E g : Doubles(g, 0 .. m)}
<1>1. SUFFICES ASSUME S # {} PROVE FALSE
  OBVIOUS
<1>0. S \in SUBSET Nat
  OBVIOUS
<1> HIDE DEF S
<1>2. PICK m \in S : \A i \in S : m <= i
  BY <1>0, <1>1, LeastNatural
<1>3. m \in Nat /\ ~ \E g : Doubles(g, 0 .. m)
  BY <1>2 DEF S
<1>4. CASE m = 0
  <2> DEFINE g == [n \in 0 .. 0 |-> 1]
  <2>1. g = [n \in 0 .. 0 |-> IF n = 0 THEN 1 ELSE 2 * g[n - 1]]
    OBVIOUS
  <2> HIDE DEF g
  <2> QED BY <1>3, <1>4, <2>1 DEF Doubles
<1>5. CASE m # 0
  <2>1. m - 1 \in Nat /\ m - 1 \notin S
    BY <1>2, <1>3, <1>5
  <2>2. PICK h : Doubles(h, 0 .. m - 1)
    BY <2>1 DEF S
  <2> DEFINE g == [n \in 0 .. m |-> IF n = m THEN 2 * h[m - 1] ELSE h[n]]
  <2>3. ASSUME NEW n \in 0 .. m PROVE g[n] = IF n = 0 THEN 1 ELSE 2 * g[n - 1]
    <3>1. CASE n = m
      BY <1>3, <1>5, <3>1
    <3>2. CASE n # m
      <4>1. n \in 0 .. m - 1
        BY <1>3, <3>2
      <4>2. h[n] = IF n = 0 THEN 1 ELSE 2 * h[n - 1]
        BY <2>2, <4>1 DEF Doubles
      <4>3. n # 0 => n - 1 \in 0 .. m /\ n - 1 # m
        BY <1>3
      <4> QED BY <3>2, <4>2, <4>3
    <3> QED BY <3>1, <3>2
  <2>4. g = [n \in 0 .. m |-> IF n = 0 THEN 1 ELSE 2 * g[n - 1]]
    <3>1. g = [n \in 0 .. m |-> g[n]]
      OBVIOUS
    <3> HIDE DEF g
    <3> QED BY <2>3, <3>1
  <2> HIDE DEF g
  <2> QED BY <1>3, <2>4 DEF Doubles
<1> QED BY <1>4, <1>5

LEMMA DoubledEquation ==
  ASSUME NEW n \in Nat
  PROVE  R!Doubled[n] = IF n = 0 THEN 1 ELSE 2 * R!Doubled[n - 1]
<1> DEFINE At(k) == (CHOOSE g : Doubles(g, 0 .. k))
           f == [k \in Nat |-> At(k)[k]]
<1>1. ASSUME NEW k \in Nat PROVE Doubles(At(k), 0 .. k)
  BY DoublesExist
<1>2. ASSUME NEW k \in Nat PROVE At(k)[k] = IF k = 0 THEN 1 ELSE 2 * At(k)[k - 1]
  <2>1. k \in 0 .. k
    OBVIOUS
  <2> HIDE DEF At
  <2> QED BY <1>1, <2>1 DEF Doubles
<1>3. ASSUME NEW k \in Nat, k # 0 PROVE At(k)[k - 1] = At(k - 1)[k - 1]
  <2>1. k - 1 \in Nat /\ k - 1 <= k /\ k - 1 <= k - 1
    BY <1>3
  <2>2. Doubles(At(k), 0 .. k) /\ Doubles(At(k - 1), 0 .. k - 1)
    BY <1>1, <2>1
  <2> HIDE DEF At
  <2> QED BY <2>1, <2>2, DoublesAgree
<1>4. \A k \in Nat : f[k] = IF k = 0 THEN 1 ELSE 2 * f[k - 1]
  <2> HIDE DEF At
  <2>1. \A k \in Nat : f[k] = At(k)[k]
    OBVIOUS
  <2>2. \A k \in Nat : k # 0 => k - 1 \in Nat
    OBVIOUS
  <2> HIDE DEF f
  <2> QED BY <1>2, <1>3, <2>1, <2>2
<1>5. f = [k \in Nat |-> IF k = 0 THEN 1 ELSE 2 * f[k - 1]]
  <2>1. f = [k \in Nat |-> f[k]]
    OBVIOUS
  <2> HIDE DEF f
  <2> QED BY <1>4, <2>1
<1> HIDE DEF f
<1>6. Doubles(f, Nat)
  BY <1>5 DEF Doubles
<1>7. Doubles(R!Doubled, Nat)
  BY <1>6 DEF R!Doubled, Doubles
<1> QED BY <1>7 DEF Doubles

LEMMA DoubledPositive == ASSUME NEW n \in Nat PROVE R!Doubled[n] \in Nat \ {0}
<1> DEFINE S == {m \in Nat : R!Doubled[m] \notin Nat \ {0}}
<1>1. SUFFICES ASSUME S # {} PROVE FALSE
  OBVIOUS
<1>0. S \in SUBSET Nat
  OBVIOUS
<1> HIDE DEF S
<1>2. PICK m \in S : \A i \in S : m <= i
  BY <1>0, <1>1, LeastNatural
<1>3. m \in Nat /\ R!Doubled[m] \notin Nat \ {0}
  BY <1>2 DEF S
<1>4. R!Doubled[m] = IF m = 0 THEN 1 ELSE 2 * R!Doubled[m - 1]
  BY <1>3, DoubledEquation
<1>5. m # 0
  BY <1>3, <1>4
<1>6. m - 1 \in Nat /\ m - 1 \notin S
  BY <1>2, <1>3, <1>5
<1>7. R!Doubled[m - 1] \in Nat \ {0}
  BY <1>6 DEF S
<1> QED BY <1>3, <1>4, <1>5, <1>7


-----------------------------------------------------------------------------
(* The account's loop.                                                     *)
LEMMA LongestIs == LongestWait \in Nat /\ LongestWait >= 2 /\ Account \notin MainServices
                   /\ IsFiniteSet(Posts)
BY BackgroundAssumption

LEMMA ServicesOfBoth ==
  /\ R!B!Services = {Account} \cup MainServices /\ {Account} \in R!Loops /\ MainServices \in R!Loops
BY DEF R!B!Services, R!Loops

LEMMA LeastOf == ASSUME NEW a \in Int, NEW b \in Int PROVE R!B!Min({a, b}) = IF a <= b THEN a ELSE b
<1>1. PICK x \in {a, b} : \A y \in {a, b} : x <= y
  OBVIOUS
<1> QED BY <1>1 DEF R!B!Min

LEMMA MostOf == ASSUME NEW a \in Int, NEW b \in Int PROVE R!B!Max({a, b}) = IF a >= b THEN a ELSE b
<1>1. PICK x \in {a, b} : \A y \in {a, b} : x >= y
  OBVIOUS
<1> QED BY <1>1 DEF R!B!Max

(* A row after `trips` refusals in a row and `ticks` cycles since.         *)
Capped(n) == IF n <= LongestWait THEN n ELSE LongestWait
Awaits(n) == IF n = 0 THEN 0 ELSE Capped(R!Doubled[n - 1])
RowAfter(row, n, since) ==
  /\ row \in R!B!Row
  /\ row.next = Capped(R!Doubled[n])
  /\ row.remaining = IF since <= Awaits(n) THEN Awaits(n) - since ELSE 0

LEMMA AwaitsTyped ==
  ASSUME NEW n \in Nat
  PROVE  /\ Awaits(n) \in 0 .. LongestWait /\ Awaits(n + 1) = Capped(R!Doubled[n])
         /\ Capped(R!Doubled[n]) \in 1 .. LongestWait /\ Awaits(0) = 0
<1>1. \A m \in Nat : R!Doubled[m] \in Nat \ {0}
  BY DoubledPositive
<1>2. n # 0 => n - 1 \in Nat
  OBVIOUS
<1>3. n + 1 # 0 /\ (n + 1) - 1 = n
  OBVIOUS
<1> QED BY <1>1, <1>2, <1>3, LongestIs DEF Awaits, Capped

LEMMA LawFollows ==
  ASSUME RowAfter(rtRows[Account], trips, ticks), trips \in Nat, ticks \in Nat PROVE R!BackoffLaw
<1>1. R!WaitAfter(trips) = Awaits(trips)
  <2>1. trips # 0 => R!Doubled[trips - 1] \in Nat
    BY DoubledPositive
  <2> QED BY <2>1, LeastOf, LongestIs DEF R!WaitAfter, Awaits, Capped
<1>2. Awaits(trips) \in Int
  BY AwaitsTyped
<1> HIDE DEF Awaits
<1>3. Awaits(trips) - ticks \in Int
  BY <1>2
<1>4. R!B!Max({0, Awaits(trips) - ticks}) = IF 0 >= Awaits(trips) - ticks THEN 0 ELSE Awaits(trips) - ticks
  BY <1>3, MostOf
<1> QED BY <1>1, <1>2, <1>4 DEF R!BackoffLaw, RowAfter

(* Only a service that was never refused has the default row.              *)
LEMMA DefaultAfter ==
  /\ RowAfter(R!B!Default, 0, 0)
  /\ \A row, since : \A n \in Nat : RowAfter(row, n, since) /\ row.next = 1 => n = 0
<1>1. R!Doubled[0] = 1 /\ \A n \in Nat : n # 0 => R!Doubled[n] = 2 * R!Doubled[n - 1]
  BY DoubledEquation
<1>2. \A n \in Nat : n # 0 => R!Doubled[n - 1] \in Nat \ {0}
  BY DoubledPositive
<1>3. \A n \in Nat : n # 0 => R!Doubled[n] >= 2
  BY <1>1, <1>2
<1>4. \A n \in Nat : n # 0 => Capped(R!Doubled[n]) # 1
  BY <1>2, <1>1, <1>3, LongestIs DEF Capped
<1>5. R!B!Default \in R!B!Row /\ R!B!Default.next = 1 /\ R!B!Default.remaining = 0
  BY LongestIs DEF R!B!Default, R!B!Row
<1> QED BY <1>1, <1>4, <1>5, LongestIs DEF RowAfter, Awaits, Capped

LEMMA DefaultSince == ASSUME NEW n \in Nat PROVE RowAfter(R!B!Default, 0, n)
BY DefaultAfter DEF RowAfter, Awaits

LEMMA TripAfter ==
  ASSUME NEW row, NEW n \in Nat, NEW since, RowAfter(row, n, since)
  PROVE  RowAfter(R!B!Trip(row), n + 1, 0)
<1>1. row.next = Capped(R!Doubled[n]) /\ row.next \in 1 .. LongestWait
  BY AwaitsTyped DEF RowAfter
<1>2. R!Doubled[n] \in Nat \ {0} /\ R!Doubled[n + 1] = 2 * R!Doubled[n]
  BY DoubledPositive, DoubledEquation
<1>3. R!B!Min({row.next, LongestWait}) = row.next
  BY <1>1, LongestIs, LeastOf
<1>4. R!B!Min({2 * row.next, LongestWait}) = Capped(2 * row.next)
  BY <1>1, LongestIs, LeastOf DEF Capped
<1>5. Capped(2 * row.next) = Capped(R!Doubled[n + 1]) /\ Capped(2 * row.next) \in 1 .. LongestWait
  BY <1>1, <1>2, LongestIs DEF Capped
<1>6. R!B!Trip(row) = [remaining |-> row.next, next |-> Capped(2 * row.next)]
  BY <1>3, <1>4 DEF R!B!Trip
<1>7. Awaits(n + 1) = row.next
  BY <1>1, AwaitsTyped
<1> QED BY <1>1, <1>5, <1>6, <1>7, LongestIs DEF RowAfter, R!B!Row

(* The row of the account after a tick.                                    *)
OneLess(row) == IF row.remaining > 0 THEN [row EXCEPT !.remaining = @ - 1] ELSE row

LEMMA TickedIs == R!Ticked = OneLess(rtRows[Account])
BY ServicesOfBoth DEF R!Ticked, R!B!Tick, R!B!Waiting, OneLess

LEMMA TickAfter ==
  ASSUME NEW row, NEW n \in Nat, NEW since \in 0 .. LongestWait, RowAfter(row, n, since)
  PROVE  /\ RowAfter(OneLess(row), n, R!B!Min({since + 1, LongestWait}))
         /\ R!B!Min({since + 1, LongestWait}) \in 0 .. LongestWait
<1>1. since + 1 \in Int /\ LongestWait \in Int
  BY LongestIs
<1>2. R!B!Min({since + 1, LongestWait}) = IF since + 1 <= LongestWait THEN since + 1 ELSE LongestWait
  BY <1>1, LeastOf
<1>3. Awaits(n) \in 0 .. LongestWait
  BY AwaitsTyped
<1>4. row.remaining \in 0 .. LongestWait /\ row.next \in 1 .. LongestWait
      /\ row = [remaining |-> row.remaining, next |-> row.next]
  BY DEF RowAfter, R!B!Row
<1>5. OneLess(row) = [remaining |-> IF row.remaining > 0 THEN row.remaining - 1 ELSE 0, next |-> row.next]
  BY <1>4 DEF OneLess
<1> HIDE DEF Awaits
<1> QED BY <1>1, <1>2, <1>3, <1>4, <1>5, LongestIs DEF RowAfter, R!B!Row


(* The cycle's record, and its session.                                    *)
FeedType ==
  [pc : {"idle", "fetch", "store", "end"}, now : Nat, row : R!B!Row, ticked : BOOLEAN,
   cursor : Int, answer : SUBSET Posts, stored : SUBSET Posts]

\* What the session has of the row is the table's, ticked if it has ticked; a
\* cycle fetches only when the row it ticked does not wait.
RowInv ==
  /\ rtRows \in [R!B!Services -> R!B!Row]
  /\ trips \in Nat /\ ticks \in 0 .. LongestWait
  /\ RowAfter(rtRows[Account], trips, ticks)
  /\ feed.pc = "end" => feed.row = IF feed.ticked THEN OneLess(rtRows[Account]) ELSE rtRows[Account]
  /\ feed.pc \in {"fetch", "store"} => /\ feed.ticked /\ feed.row = OneLess(rtRows[Account])
                                       /\ feed.row.remaining = 0

\* What was published by a time that a cursor holds, or may come to hold, is
\* stored, missed, or in the answer.
Reached(time, found) == \A p \in R!Published : pub[p] <= time => p \in found \cup missed

PostsInv ==
  /\ pub \in [Posts -> Int] /\ rtCursor \in Int /\ stored \subseteq Posts /\ missed \subseteq Posts
  /\ rtCursor <= R!Now /\ feed.cursor <= R!Now /\ feed.now <= R!Now
  /\ Reached(rtCursor, stored)
  /\ feed.pc \in {"fetch", "store"} => feed.cursor = rtCursor /\ feed.stored = stored
  /\ feed.pc = "store" => Reached(feed.now, stored \cup feed.answer)
  /\ feed.pc = "end" => Reached(feed.cursor, feed.stored)

FeedInv == feed \in FeedType /\ RowInv /\ PostsInv

LEMMA SameSize == ASSUME NEW S PROVE R!Cardinality(S) = Cardinality(S)
BY DEF R!Cardinality, Cardinality

LEMMA NowIs == R!Now \in Nat /\ R!Published \subseteq Posts /\ IsFiniteSet(R!Published)
<1>1. R!Published \subseteq Posts
  BY DEF R!Published
<1>2. IsFiniteSet(R!Published)
  BY <1>1, LongestIs, FS_Subset
<1> QED BY <1>1, <1>2, FS_CardinalityType, SameSize DEF R!Now

LEMMA IdleFeed == /\ R!Idle \in FeedType /\ R!Idle.pc = "idle" /\ R!Idle.cursor = -1 /\ R!Idle.now = 0
BY DefaultAfter DEF R!Idle, FeedType, R!Never, RowAfter

LEMMA FeedStart == ASSUME R!Init PROVE FeedInv
<1>1. rtRows = [s \in R!B!Services |-> R!B!Default] /\ rtCursor = -1 /\ stored = {} /\ feed = R!Idle
      /\ trips = 0 /\ ticks = 0 /\ missed = {} /\ pub = [p \in Posts |-> R!Unpublished]
  BY DEF R!Init, R!B!Init, R!Never
<1>2. R!Unpublished \in Int /\ R!Published = {}
  BY <1>1, LongestIs, FS_CardinalityType, SameSize DEF R!Unpublished, R!Count, R!Published
<1>3. RowAfter(R!B!Default, 0, 0)
  BY DefaultAfter
<1>4. RowInv
  BY <1>1, <1>3, IdleFeed, ServicesOfBoth, LongestIs DEF RowInv, RowAfter
<1>5. PostsInv
  BY <1>1, <1>2, IdleFeed, NowIs DEF PostsInv, Reached
<1> QED BY <1>1, <1>4, <1>5, IdleFeed DEF FeedInv

(* The rows of a session that commits.                                     *)
LEMMA CommitRow ==
  ASSUME FeedInv, NEW row \in R!B!Row, rtRows' = [rtRows EXCEPT ![Account] = row]
  PROVE  rtRows' \in [R!B!Services -> R!B!Row] /\ rtRows'[Account] = row
BY ServicesOfBoth DEF FeedInv, RowInv

LEMMA OneLessTyped == ASSUME NEW row \in R!B!Row PROVE OneLess(row) \in R!B!Row
BY LongestIs DEF OneLess, R!B!Row

LEMMA FeedBegin == ASSUME FeedInv, R!Begin PROVE FeedInv'
<1>1. /\ feed.pc = "idle"
      /\ feed' = [pc |-> IF R!Skips(R!Ticked) THEN "end" ELSE "fetch", now |-> R!Now,
                  row |-> R!Ticked, ticked |-> TRUE, cursor |-> rtCursor,
                  answer |-> {}, stored |-> stored]
      /\ UNCHANGED <<rtRows, rtCursor, stored, pub, trips, ticks, missed>>
  BY DEF R!Begin, R!history
<1>2. R!Ticked = OneLess(rtRows[Account]) /\ R!Ticked \in R!B!Row
  BY TickedIs, OneLessTyped, ServicesOfBoth DEF FeedInv, RowInv
<1>3. ~R!Skips(R!Ticked) => R!Ticked.remaining = 0
  BY <1>2 DEF R!Skips, R!B!Waiting, R!B!Row
<1>4. feed' \in FeedType
  BY <1>1, <1>2, NowIs DEF FeedType, FeedInv, PostsInv
<1>5. RowInv'
  BY <1>1, <1>2, <1>3 DEF FeedInv, RowInv, RowAfter, Awaits, Capped, OneLess
<1>6. R!Now' = R!Now /\ R!Published' = R!Published
  BY <1>1 DEF R!Now, R!Published
<1>7. PostsInv'
  BY <1>1, <1>6, NowIs DEF FeedInv, PostsInv, Reached
<1> QED BY <1>4, <1>5, <1>7 DEF FeedInv

LEMMA FeedFetch == ASSUME FeedInv, R!Fetch PROVE FeedInv'
<1> DEFINE recent == {p \in R!Published : pub[p] > feed.cursor}
<1>1. PICK answer \in {recent, {}} :
        /\ feed.pc = "fetch" /\ feed' = [feed EXCEPT !.pc = "store", !.answer = answer]
        /\ missed' = missed \cup (recent \ answer)
        /\ UNCHANGED <<rtRows, rtCursor, stored, pub, trips, ticks>>
  BY DEF R!Fetch
<1>2. answer \subseteq Posts /\ recent \subseteq Posts
  BY NowIs
<1>3. feed' \in FeedType /\ feed'.pc = "store" /\ feed'.answer = answer /\ feed'.now = feed.now
      /\ feed'.cursor = feed.cursor /\ feed'.stored = feed.stored /\ feed'.row = feed.row
      /\ feed'.ticked = feed.ticked
  BY <1>1, <1>2 DEF FeedInv, FeedType
<1>4. RowInv'
  BY <1>1, <1>3 DEF FeedInv, RowInv, RowAfter, Awaits, Capped, OneLess
<1>5. R!Now' = R!Now /\ R!Published' = R!Published
  BY <1>1 DEF R!Now, R!Published
<1>6. \A p \in R!Published : p \in stored \cup missed' \cup answer
  BY <1>1, NowIs DEF FeedInv, PostsInv, Reached
<1>7. PostsInv'
  BY <1>1, <1>2, <1>3, <1>5, <1>6 DEF FeedInv, PostsInv, Reached
<1> QED BY <1>3, <1>4, <1>7 DEF FeedInv

LEMMA FeedStore == ASSUME FeedInv, R!Store PROVE FeedInv'
<1>1. PICK inserted \in SUBSET feed.answer :
        /\ feed.pc = "store" /\ missed' = missed \cup (feed.answer \ inserted)
        /\ trips' = 0 /\ UNCHANGED pub
        /\ \/ /\ feed.row = R!B!Default /\ UNCHANGED <<rtRows, rtCursor, stored, ticks>>
              /\ feed' = [feed EXCEPT !.pc = "end", !.cursor = feed.now, !.answer = {},
                                      !.stored = @ \cup inserted]
           \/ /\ feed.row # R!B!Default
              /\ R!Commit([[feed EXCEPT !.pc = "end", !.cursor = feed.now, !.answer = {},
                                       !.stored = @ \cup inserted] EXCEPT !.row = R!B!Default])
              /\ R!CountTick
  BY DEF R!Store, R!NextCursor
<1>2. /\ feed \in FeedType /\ feed.ticked /\ feed.row = OneLess(rtRows[Account]) /\ feed.row.remaining = 0
      /\ feed.cursor = rtCursor /\ feed.stored = stored /\ Reached(feed.now, stored \cup feed.answer)
      /\ inserted \subseteq Posts /\ feed.answer \subseteq Posts /\ rtRows[Account] \in R!B!Row
      /\ trips \in Nat /\ ticks \in 0 .. LongestWait /\ RowAfter(rtRows[Account], trips, ticks)
  BY <1>1, ServicesOfBoth DEF FeedInv, RowInv, PostsInv, FeedType
<1> DEFINE found == stored \cup inserted
<1>0. found \in SUBSET Posts /\ feed.now \in Nat /\ feed.now \in Int
  BY <1>2 DEF FeedType, FeedInv, PostsInv
<1>3. R!Now' = R!Now /\ R!Published' = R!Published
  BY <1>1 DEF R!Now, R!Published
<1>4. \A p \in R!Published : pub[p] <= feed.now => p \in found \cup missed'
  BY <1>1, <1>2 DEF Reached
<1>5. CASE feed.row = R!B!Default
  <2>1. feed' \in FeedType /\ feed'.pc = "end" /\ feed'.cursor = feed.now /\ feed'.row = feed.row
        /\ feed'.stored = found /\ feed'.ticked /\ feed'.now = feed.now
    <3>1. feed' = [feed EXCEPT !.pc = "end", !.cursor = feed.now, !.answer = {}, !.stored = found]
      BY <1>1, <1>2, <1>5
    <3> HIDE DEF found
    <3> QED BY <1>2, <1>0, <3>1 DEF FeedType
  <2>2. rtRows[Account].next = 1 /\ trips = 0
    <3>1. OneLess(rtRows[Account]).next = rtRows[Account].next
      BY <1>2 DEF OneLess, R!B!Row
    <3>2. rtRows[Account].next = 1
      BY <1>2, <1>5, <3>1 DEF R!B!Default
    <3> QED BY <1>2, <3>2, DefaultAfter
  <2>3. RowInv'
    BY <1>1, <1>2, <1>5, <2>1, <2>2 DEF FeedInv, RowInv, RowAfter, Awaits, Capped, OneLess
  <2>4. PostsInv'
    BY <1>1, <1>2, <1>3, <1>4, <1>5, <2>1, NowIs DEF FeedInv, PostsInv, Reached, FeedType
  <2> QED BY <2>1, <2>3, <2>4 DEF FeedInv
<1>6. CASE feed.row # R!B!Default
  <2> DEFINE s == [[feed EXCEPT !.pc = "end", !.cursor = feed.now, !.answer = {},
                                !.stored = @ \cup inserted] EXCEPT !.row = R!B!Default]
  <2>1. s \in FeedType /\ s.pc = "end" /\ s.cursor = feed.now /\ s.row = R!B!Default
        /\ s.stored = found /\ s.now = feed.now
    <3>1. R!B!Default \in R!B!Row
      BY DefaultAfter DEF RowAfter
    <3>2. s = [feed EXCEPT !.pc = "end", !.cursor = feed.now, !.answer = {}, !.stored = found,
                           !.row = R!B!Default]
      BY <1>2
    <3> HIDE DEF s, found
    <3> QED BY <1>2, <1>0, <3>1, <3>2 DEF FeedType
  <2> HIDE DEF s
  <2>2. /\ rtRows' = [rtRows EXCEPT ![Account] = s.row] /\ rtCursor' = s.cursor /\ stored' = s.stored
        /\ feed' = [s EXCEPT !.ticked = FALSE] /\ R!CountTick
    BY <1>1, <1>6 DEF R!Commit, s
  <2>3. feed' \in FeedType /\ feed'.pc = "end" /\ feed'.cursor = feed.now /\ feed'.row = R!B!Default
        /\ feed'.stored = found /\ ~feed'.ticked /\ feed'.now = feed.now
    BY <2>1, <2>2 DEF FeedType
  <2>4. rtRows' \in [R!B!Services -> R!B!Row] /\ rtRows'[Account] = R!B!Default
    BY <2>1, <2>2, CommitRow DEF FeedType
  <2>5. ticks' \in 0 .. LongestWait
    BY <1>2, <2>2, TickAfter DEF R!CountTick
  <2>6. RowAfter(R!B!Default, 0, ticks')
    BY <2>5, DefaultSince
  <2>7. RowInv'
    BY <1>1, <2>3, <2>4, <2>5, <2>6 DEF RowInv, RowAfter, Awaits, Capped
  <2>8. PostsInv'
    BY <1>1, <1>2, <1>3, <1>4, <2>1, <2>2, <2>3, NowIs DEF FeedInv, PostsInv, Reached, FeedType
  <2> QED BY <2>3, <2>7, <2>8 DEF FeedInv
<1> QED BY <1>5, <1>6

LEMMA FeedRefused == ASSUME FeedInv, R!LoginRefused PROVE FeedInv'
<1> DEFINE s == [feed EXCEPT !.pc = "end", !.row = R!B!Trip(feed.row)]
<1>1. /\ feed.pc = "fetch" /\ R!Commit(s) /\ trips' = trips + 1 /\ ticks' = 0 /\ UNCHANGED <<pub, missed>>
  BY DEF R!LoginRefused
<1>2. /\ feed \in FeedType /\ feed.ticked /\ feed.row = OneLess(rtRows[Account])
      /\ feed.cursor = rtCursor /\ feed.stored = stored
      /\ trips \in Nat /\ ticks \in 0 .. LongestWait /\ RowAfter(rtRows[Account], trips, ticks)
  BY <1>1 DEF FeedInv, RowInv, PostsInv
<1>3. RowAfter(R!B!Trip(feed.row), trips + 1, 0)
  BY <1>2, TickAfter, TripAfter
<1>4. R!B!Trip(feed.row) \in R!B!Row
  BY <1>3 DEF RowAfter
<1>5. s \in FeedType /\ s.pc = "end" /\ s.row = R!B!Trip(feed.row) /\ s.cursor = rtCursor
      /\ s.stored = stored /\ s.now = feed.now
  BY <1>2, <1>4 DEF FeedType
<1> HIDE DEF s
<1>6. /\ rtRows' = [rtRows EXCEPT ![Account] = s.row] /\ rtCursor' = s.cursor /\ stored' = s.stored
      /\ feed' = [s EXCEPT !.ticked = FALSE]
  BY <1>1 DEF R!Commit
<1>7. feed' \in FeedType /\ feed'.pc = "end" /\ feed'.cursor = rtCursor /\ feed'.row = s.row
      /\ feed'.stored = stored /\ ~feed'.ticked /\ feed'.now = feed.now
  BY <1>5, <1>6 DEF FeedType
<1>8. rtRows' \in [R!B!Services -> R!B!Row] /\ rtRows'[Account] = R!B!Trip(feed.row)
  BY <1>4, <1>5, <1>6, CommitRow
<1>9. RowInv'
  BY <1>1, <1>2, <1>3, <1>5, <1>7, <1>8, LongestIs DEF RowInv, RowAfter, Awaits, Capped
<1>10. R!Now' = R!Now /\ R!Published' = R!Published
  BY <1>1 DEF R!Now, R!Published
<1>11. PostsInv'
  BY <1>1, <1>5, <1>6, <1>7, <1>10 DEF FeedInv, PostsInv, Reached
<1> QED BY <1>7, <1>9, <1>11 DEF FeedInv

LEMMA FeedEnd == ASSUME FeedInv, R!End PROVE FeedInv'
<1>1. /\ feed.pc = "end" /\ rtRows' = [rtRows EXCEPT ![Account] = feed.row] /\ rtCursor' = feed.cursor
      /\ stored' = feed.stored /\ feed' = R!Idle /\ R!CountTick /\ UNCHANGED <<pub, trips, missed>>
  BY DEF R!End
<1>2. /\ feed \in FeedType /\ trips \in Nat /\ ticks \in 0 .. LongestWait
      /\ RowAfter(rtRows[Account], trips, ticks) /\ Reached(feed.cursor, feed.stored)
      /\ feed.row = IF feed.ticked THEN OneLess(rtRows[Account]) ELSE rtRows[Account]
      /\ feed.row \in R!B!Row /\ feed.cursor \in Int /\ feed.stored \subseteq Posts
  BY <1>1 DEF FeedInv, RowInv, PostsInv, FeedType
<1>3. rtRows' \in [R!B!Services -> R!B!Row] /\ rtRows'[Account] = feed.row
  BY <1>1, <1>2, CommitRow
<1>4. RowAfter(feed.row, trips, ticks') /\ ticks' \in 0 .. LongestWait
  BY <1>1, <1>2, TickAfter DEF R!CountTick
<1>5. RowInv'
  BY <1>1, <1>2, <1>3, <1>4, IdleFeed DEF RowInv, RowAfter, Awaits, Capped
<1>6. R!Now' = R!Now /\ R!Published' = R!Published
  BY <1>1 DEF R!Now, R!Published
<1>7. PostsInv'
  BY <1>1, <1>2, <1>6, IdleFeed, NowIs DEF FeedInv, PostsInv, Reached
<1> QED BY <1>1, <1>5, <1>7, IdleFeed DEF FeedInv

LEMMA FeedFail == ASSUME FeedInv, R!Fail PROVE FeedInv'
<1>1. feed' = R!Idle /\ UNCHANGED <<rtRows, rtCursor, stored, pub, trips, ticks, missed>>
  BY DEF R!Fail
<1>2. RowInv'
  BY <1>1, IdleFeed DEF FeedInv, RowInv, RowAfter, Awaits, Capped
<1>3. R!Now' = R!Now /\ R!Published' = R!Published
  BY <1>1 DEF R!Now, R!Published
<1>4. PostsInv'
  BY <1>1, <1>3, IdleFeed, NowIs DEF FeedInv, PostsInv, Reached
<1> QED BY <1>1, <1>2, <1>4, IdleFeed DEF FeedInv

LEMMA FeedPublish == ASSUME FeedInv, NEW p \in Posts, R!Publish(p) PROVE FeedInv'
<1>1. pub[p] = R!Unpublished /\ pub' = [pub EXCEPT ![p] = R!Now + 1]
      /\ UNCHANGED <<rtRows, rtCursor, stored, feed, trips, ticks, missed>>
  BY DEF R!Publish, R!history
<1>2. R!Unpublished' = R!Unpublished /\ p \notin R!Published
  BY <1>1 DEF R!Unpublished, R!Count, R!Published
<1>3. pub \in [Posts -> Int] /\ R!Now \in Nat
  BY NowIs DEF FeedInv, PostsInv
<1>4. pub' \in [Posts -> Int] /\ pub'[p] = R!Now + 1 /\ \A q \in Posts \ {p} : pub'[q] = pub[q]
  BY <1>1, <1>3
<1>5. R!Published' = R!Published \/ R!Published' = R!Published \cup {p}
  BY <1>1, <1>2, <1>4 DEF R!Published, R!Unpublished, R!Count
<1>6. R!Now' = R!Now \/ R!Now' = R!Now + 1
  BY <1>2, <1>5, NowIs, FS_AddElement, SameSize DEF R!Now
<1>7. \A q \in R!Published' : (q \in R!Published /\ pub'[q] = pub[q]) \/ pub'[q] = R!Now + 1
  BY <1>2, <1>4, <1>5, NowIs
<1>8. RowInv'
  BY <1>1 DEF FeedInv, RowInv, RowAfter, Awaits, Capped, OneLess
<1>9. \A q \in R!Published' : pub'[q] <= R!Now => q \in R!Published /\ pub'[q] = pub[q]
  BY <1>3, <1>7
<1>10. ASSUME NEW time \in Int, time <= R!Now, NEW found, Reached(time, found)
       PROVE  \A q \in R!Published' : pub'[q] <= time => q \in found \cup missed
  BY <1>3, <1>4, <1>5, <1>9, <1>10, NowIs DEF Reached
<1>11. PostsInv'
  BY <1>1, <1>3, <1>4, <1>6, <1>10 DEF FeedInv, PostsInv, Reached, FeedType
<1> QED BY <1>1, <1>8, <1>11 DEF FeedInv

(* The other loop leaves the account's row alone.                          *)
LEMMA FeedMain == ASSUME FeedInv, R!MainLoop PROVE FeedInv'
<1>1. UNCHANGED <<rtCursor, stored, feed, pub, trips, ticks, missed>>
  BY DEF R!MainLoop, R!history
<1>2. rtRows' \in [R!B!Services -> R!B!Row] /\ rtRows'[Account] = rtRows[Account]
  <2>0. Account \in R!B!Services /\ Account \notin MainServices /\ rtRows \in [R!B!Services -> R!B!Row]
    BY ServicesOfBoth, LongestIs DEF FeedInv, RowInv
  <2>1. CASE R!B!TickLoop(MainServices)
    <3>1. \A row \in R!B!Row : R!B!Waiting(row) => [row EXCEPT !.remaining = @ - 1] \in R!B!Row
      BY LongestIs DEF R!B!Row, R!B!Waiting
    <3> QED BY <2>0, <2>1, <3>1 DEF R!B!TickLoop, R!B!Tick
  <2>2. CASE R!B!Outcome(MainServices)
    <3>1. PICK tripped \in SUBSET MainServices, cleared \in SUBSET MainServices :
            rtRows' = [s \in R!B!Services |-> IF s \in tripped THEN R!B!Trip(rtRows[s])
                                              ELSE IF s \in cleared THEN R!B!Default ELSE rtRows[s]]
      BY <2>2 DEF R!B!Outcome
    <3>2. \A row \in R!B!Row : R!B!Trip(row) \in R!B!Row
      <4>1. ASSUME NEW row \in R!B!Row PROVE R!B!Trip(row) \in R!B!Row
        <5>1. row.next \in 1 .. LongestWait
          BY DEF R!B!Row
        <5>2. R!B!Min({row.next, LongestWait}) \in 0 .. LongestWait
              /\ R!B!Min({2 * row.next, LongestWait}) \in 1 .. LongestWait
          BY <5>1, LongestIs, LeastOf
        <5> QED BY <5>2 DEF R!B!Trip, R!B!Row
      <4> QED BY <4>1
    <3>3. R!B!Default \in R!B!Row
      BY DefaultAfter DEF RowAfter
    <3> QED BY <2>0, <3>1, <3>2, <3>3
  <2> QED BY <2>1, <2>2 DEF R!MainLoop
<1>3. RowInv'
  BY <1>1, <1>2 DEF FeedInv, RowInv, RowAfter, Awaits, Capped, OneLess
<1>4. R!Now' = R!Now /\ R!Published' = R!Published
  BY <1>1 DEF R!Now, R!Published
<1>5. PostsInv'
  BY <1>1, <1>4 DEF FeedInv, PostsInv, Reached
<1> QED BY <1>1, <1>3, <1>5 DEF FeedInv

LEMMA FeedStep == ASSUME FeedInv, [R!Next]_posts PROVE FeedInv'
<1>1. CASE UNCHANGED posts
  <2>1. UNCHANGED <<rtRows, rtCursor, stored, feed, pub, trips, ticks, missed>>
    BY <1>1 DEF posts
  <2>2. RowInv'
    BY <2>1 DEF FeedInv, RowInv, RowAfter, Awaits, Capped, OneLess
  <2>3. R!Now' = R!Now /\ R!Published' = R!Published
    BY <2>1 DEF R!Now, R!Published
  <2>4. PostsInv'
    BY <2>1, <2>3 DEF FeedInv, PostsInv, Reached
  <2> QED BY <2>1, <2>2, <2>4 DEF FeedInv
<1>2. CASE R!Next
  BY <1>2, FeedBegin, FeedFetch, FeedStore, FeedRefused, FeedEnd, FeedFail, FeedPublish, FeedMain
  DEF R!Next, R!Cycle
<1> QED BY <1>1, <1>2

LEMMA FeedFollows == FeedInv => R!BackoffLaw /\ R!NoPostSkipped
<1>1. FeedInv => R!BackoffLaw
  BY LawFollows, LongestIs DEF FeedInv, RowInv
<1>2. FeedInv => R!NoPostSkipped
  BY DEF FeedInv, PostsInv, Reached, R!NoPostSkipped
<1> QED BY <1>1, <1>2


(* A commit with the cycle's outcome does tick and outcome at once; the end *)
(* of a cycle that committed nothing yet does the tick.                     *)
LEMMA CommitAllowed ==
  ASSUME FeedInv, feed.pc \in {"fetch", "store"}, NEW row,
         rtRows' = [rtRows EXCEPT ![Account] = row],
         row = R!B!Default \/ row = R!B!Trip(rtRows[Account])
  PROVE  R!B!TickAndOutcome({Account})
<1>1. /\ rtRows \in [R!B!Services -> R!B!Row] /\ Account \in R!B!Services
      /\ rtRows[Account] \in R!B!Row /\ OneLess(rtRows[Account]).remaining = 0
  BY ServicesOfBoth DEF FeedInv, RowInv
<1>2. rtRows[Account].remaining <= 1
  BY <1>1, LongestIs DEF OneLess, R!B!Row
<1>3. {Account} \in SUBSET {s \in {Account} : rtRows[s].remaining <= 1}
      /\ {} \in SUBSET {s \in {Account} : rtRows[s].remaining <= 1}
  BY <1>2
<1>4. \A s \in R!B!Services : s # Account => R!B!Tick(rtRows, {Account})[s] = rtRows[s]
  BY DEF R!B!Tick
<1>5. rtRows' = [s \in R!B!Services |-> IF s = Account THEN row ELSE R!B!Tick(rtRows, {Account})[s]]
  BY <1>1, <1>4
<1> DEFINE calm == {s \in {Account} : rtRows[s].remaining <= 1}
<1>6. {} \in SUBSET calm /\ {Account} \in SUBSET calm
      /\ {} \cap {Account} = {} /\ {Account} \cap {} = {}
  BY <1>3
<1>7. \E tripped, cleared \in SUBSET calm :
        /\ tripped \cap cleared = {}
        /\ rtRows' = [s \in R!B!Services |-> IF s \in tripped THEN R!B!Trip(rtRows[s])
                        ELSE IF s \in cleared THEN R!B!Default ELSE R!B!Tick(rtRows, {Account})[s]]
  <2>1. CASE row = R!B!Default
    <3>1. rtRows' = [s \in R!B!Services |-> IF s \in {} THEN R!B!Trip(rtRows[s])
                       ELSE IF s \in {Account} THEN R!B!Default ELSE R!B!Tick(rtRows, {Account})[s]]
      BY <1>5, <2>1
    <3> HIDE DEF calm
    <3> QED BY <1>6, <3>1
  <2>2. CASE row = R!B!Trip(rtRows[Account])
    <3>1. rtRows' = [s \in R!B!Services |-> IF s \in {Account} THEN R!B!Trip(rtRows[s])
                       ELSE IF s \in {} THEN R!B!Default ELSE R!B!Tick(rtRows, {Account})[s]]
      BY <1>5, <2>2
    <3> HIDE DEF calm
    <3> QED BY <1>6, <3>1
  <2> QED BY <2>1, <2>2
<1> QED BY <1>7 DEF R!B!TickAndOutcome

LEMMA FeedAllowed == ASSUME FeedInv, [R!Next]_posts PROVE [R!B!Next]_rtRows
<1>1. {Account} \in R!Loops /\ MainServices \in R!Loops
  BY ServicesOfBoth
<1>2. CASE R!Store
  <2>1. feed.pc = "store" /\ (UNCHANGED rtRows \/ rtRows' = [rtRows EXCEPT ![Account] = R!B!Default])
    BY <1>2 DEF R!Store, R!Commit
  <2> QED BY <1>1, <2>1, CommitAllowed DEF R!B!Next
<1>3. CASE R!LoginRefused
  <2>1. /\ feed.pc = "fetch" /\ rtRows' = [rtRows EXCEPT ![Account] = R!B!Trip(feed.row)]
        /\ feed \in FeedType /\ feed.row = OneLess(rtRows[Account])
    <3>1. feed \in FeedType /\ (feed.pc = "fetch" => feed.row = OneLess(rtRows[Account]))
      BY DEF FeedInv, RowInv
    <3>2. R!B!Trip(feed.row) = [feed EXCEPT !.pc = "end", !.row = R!B!Trip(feed.row)].row
      BY <3>1 DEF FeedType
    <3> QED BY <1>3, <3>1, <3>2 DEF R!LoginRefused, R!Commit
  <2>2. R!B!Trip(feed.row) = R!B!Trip(rtRows[Account])
    <3>1. rtRows[Account] \in R!B!Row
      BY ServicesOfBoth DEF FeedInv, RowInv
    <3>2. feed.row.next = rtRows[Account].next
      BY <2>1, <3>1 DEF OneLess, R!B!Row
    <3> QED BY <3>2 DEF R!B!Trip
  <2> QED BY <1>1, <2>1, <2>2, CommitAllowed DEF R!B!Next
<1>4. CASE R!End
  <2>1. /\ rtRows' = [rtRows EXCEPT ![Account] = feed.row] /\ rtRows \in [R!B!Services -> R!B!Row]
        /\ feed.row = IF feed.ticked THEN OneLess(rtRows[Account]) ELSE rtRows[Account]
    BY <1>4 DEF R!End, FeedInv, RowInv
  <2>2. CASE feed.ticked
    <3>1. rtRows' = R!B!Tick(rtRows, {Account})
      BY <2>1, <2>2 DEF R!B!Tick, OneLess, R!B!Waiting
    <3> QED BY <1>1, <3>1 DEF R!B!Next, R!B!TickLoop
  <2>3. CASE ~feed.ticked
    BY <2>1, <2>3
  <2> QED BY <2>2, <2>3
<1>5. CASE R!MainLoop
  BY <1>1, <1>5 DEF R!MainLoop, R!B!Next
<1>6. CASE R!Begin \/ R!Fetch \/ R!Fail \/ (\E p \in Posts : R!Publish(p)) \/ UNCHANGED posts
  BY <1>6 DEF R!Begin, R!Fetch, R!Fail, R!Publish, posts
<1> QED BY <1>2, <1>3, <1>4, <1>5, <1>6 DEF R!Next, R!Cycle

(* The realtime loop keeps the promise of the backoff table, whatever the   *)
(* main loop does to it.                                                    *)
THEOREM RealtimeKeepsBackoff == BackSpec => RealtimeBackoffKept
<1>1. BackInit => FeedInv /\ R!B!Init
  BY FeedStart DEF BackInit, R!Init
<1>2. FeedInv /\ [BackNext]_back => FeedInv' /\ [R!B!Next]_rtRows
  <2>1. [BackNext]_back => [R!Next]_posts
    BY DEF BackNext, back
  <2> QED BY <2>1, FeedStep, FeedAllowed
<1> QED BY <1>1, <1>2, PTL DEF BackSpec, RealtimeBackoffKept, R!BackoffKept, R!B!Spec

-----------------------------------------------------------------------------
(* The document store.                                                     *)
Explained(u) == u \in rewritten \cup overlapped

\* A row, committed or not.
Kept(u, v) == v # D!None /\ (table[u] = v \/ \E s \in Writers : mine[s][u] = v)

StoreTyped ==
  /\ table = [u \in Urls |-> table[u]]
  /\ mine = [s \in Writers |-> [u \in Urls |-> mine[s][u]]]
  /\ toStore = [s \in Writers |-> [u \in Urls |-> toStore[s][u]]]
  /\ upsert \in [Writers -> Urls \cup {D!None}]

\* The twins are explained before they are committed.
TwinsKept ==
  \A u, w \in Urls : \A v, x :
    u # w /\ Kept(u, v) /\ Kept(w, x) /\ text[u][v] = text[w][x] => Explained(u) \/ Explained(w)

\* A row is locked by the session that wrote it, and was there before only if
\* it was updated.
RowsLocked ==
  /\ \A s, r \in Writers, u \in Urls : mine[s][u] # D!None /\ mine[r][u] # D!None => s = r
  /\ \A s \in Writers, u \in Urls : mine[s][u] # D!None /\ table[u] # D!None => Explained(u)

\* A page that is being embedded and has no row says what no row of its session
\* said, and no committed one if there is no other session.
Embedding(s, u) ==
  /\ toStore[s][u] # D!None
  /\ D!Row(s, u) = D!None =>
       \A w \in Urls \ {u} :
         /\ mine[s][w] # D!None => text[w][mine[s][w]] # text[u][toStore[s][u]]
         /\ Writers = {s} /\ mine[s][w] = D!None /\ table[w] # D!None =>
              text[w][table[w]] # text[u][toStore[s][u]]

EmbedsNew == \A s \in Writers, u \in Urls : u # D!None /\ upsert[s] = u => Embedding(s, u)

DocsInv == StoreTyped /\ TwinsKept /\ RowsLocked /\ EmbedsNew

LEMMA DocsStart == ASSUME D!Init PROVE DocsInv
<1>1. \A u \in Urls : table[u] = D!None /\ \A s \in Writers : mine[s][u] = D!None
  BY DEF D!Init, D!Nothing
<1>2. StoreTyped /\ \A s \in Writers : upsert[s] = D!None
  BY DEF D!Init, D!Nothing, StoreTyped
<1> QED BY <1>1, <1>2 DEF DocsInv, TwinsKept, RowsLocked, EmbedsNew, Kept

(* No row is new.                                                          *)
LEMMA TwinsStay ==
  ASSUME TwinsKept, UNCHANGED <<text, rewritten, overlapped>>,
         \A u \in Urls : \A v : Kept(u, v)' => Kept(u, v)
  PROVE  TwinsKept'
BY DEF TwinsKept, Explained

(* Another session's step, which may give pages their rows.                *)
LEMMA EmbeddingStays ==
  ASSUME NEW r \in Writers, NEW u \in Urls, Embedding(r, u),
         text' = text, toStore'[r] = toStore[r], mine'[r] = mine[r],
         \/ table' = table
         \/ Writers # {r} /\ (table[u] # D!None => table'[u] # D!None)
  PROVE  Embedding(r, u)'
<1>1. /\ D!Row(r, u) = IF mine[r][u] # D!None THEN mine[r][u] ELSE table[u]
      /\ D!Row(r, u)' = IF mine'[r][u] # D!None THEN mine'[r][u] ELSE table'[u]
  BY DEF D!Row
<1>2. D!Row(r, u)' = D!None => D!Row(r, u) = D!None
  BY <1>1
<1> QED BY <1>2 DEF Embedding

(* What a session does with what it fetched, before it writes.             *)
LEMMA SessionWorks ==
  ASSUME DocsInv, UNCHANGED <<text, table, mine, rewritten, overlapped>>, NEW s \in Writers,
         toStore' = [r \in Writers |-> [u \in Urls |-> toStore'[r][u]]],
         upsert' \in [Writers -> Urls \cup {D!None}],
         \A r \in Writers \ {s} : toStore'[r] = toStore[r] /\ upsert'[r] = upsert[r],
         \A u \in Urls : u # D!None /\ upsert'[s] = u => Embedding(s, u)'
  PROVE  DocsInv'
<1>1. TwinsKept'
  BY TwinsStay DEF DocsInv, Kept
<1>2. StoreTyped' /\ RowsLocked'
  BY DEF DocsInv, StoreTyped, RowsLocked, Explained
<1>3. ASSUME NEW r \in Writers, NEW u \in Urls, u # D!None, upsert'[r] = u PROVE Embedding(r, u)'
  <2>1. CASE r # s
    BY <1>3, <2>1, EmbeddingStays DEF DocsInv, EmbedsNew
  <2> QED BY <1>3, <2>1
<1> QED BY <1>1, <1>2, <1>3 DEF DocsInv, EmbedsNew

LEMMA DocsFetch == ASSUME DocsInv, NEW s \in Writers, D!Fetch(s) PROVE DocsInv'
<1>1. PICK got \in SUBSET Urls :
        toStore' = [toStore EXCEPT ![s] = [u \in Urls |-> IF u \in got THEN web[u] ELSE D!None]]
  BY DEF D!Fetch
<1>2. UNCHANGED <<text, table, mine, upsert, rewritten, overlapped>> /\ upsert[s] = D!None
  BY DEF D!Fetch, D!Idle, D!history
<1>3. StoreTyped
  BY DEF DocsInv
<1>4. toStore' = [r \in Writers |-> [u \in Urls |-> toStore'[r][u]]]
      /\ \A r \in Writers \ {s} : toStore'[r] = toStore[r]
  BY <1>1, <1>3 DEF StoreTyped
<1> QED BY <1>2, <1>3, <1>4, SessionWorks DEF StoreTyped

LEMMA DocsWork ==
  ASSUME DocsInv, NEW s \in Writers, NEW u \in Urls, D!Skip(s, u) \/ D!Dedup(s, u) \/ D!Embed(s, u)
  PROVE  DocsInv'
<1>1. UNCHANGED <<text, table, mine, rewritten, overlapped>> /\ D!Todo(s, u)
  BY DEF D!Skip, D!Dedup, D!Embed, D!history
<1>2. StoreTyped
  BY DEF DocsInv
<1>3. CASE UNCHANGED upsert /\ toStore' = [toStore EXCEPT ![s][u] = D!None]
  <2>1. toStore' = [r \in Writers |-> [w \in Urls |-> toStore'[r][w]]]
        /\ \A r \in Writers \ {s} : toStore'[r] = toStore[r]
    BY <1>2, <1>3 DEF StoreTyped
  <2> QED BY <1>1, <1>2, <1>3, <2>1, SessionWorks DEF StoreTyped, D!Todo
<1>4. CASE D!Embed(s, u)
  <2>1. UNCHANGED toStore /\ upsert' = [upsert EXCEPT ![s] = u] /\ D!Copies(s, u) = {}
        /\ toStore[s][u] # D!None
    BY <1>4 DEF D!Embed, D!Todo
  <2>2. upsert' \in [Writers -> Urls \cup {D!None}] /\ upsert'[s] = u
        /\ \A r \in Writers \ {s} : upsert'[r] = upsert[r]
    BY <1>2, <2>1 DEF StoreTyped
  <2>3. D!Row(s, u) = D!None => \A w \in Urls : ~D!RowSays(s, w, D!Fetched(s, u))
    BY <2>1 DEF D!Copies
  <2>4. Embedding(s, u)
    BY <2>1, <2>3 DEF Embedding, D!RowSays, D!Fetched, D!Says, D!Row
  <2>5. Embedding(s, u)'
    BY <1>1, <2>1, <2>4, EmbeddingStays
  <2> QED BY <1>1, <1>2, <2>1, <2>2, <2>5, SessionWorks DEF StoreTyped
<1> QED BY <1>3, <1>4 DEF D!Skip, D!Dedup, D!Done

(* A session gives a page up, or everything.                               *)
LEMMA DocsGiveUp == ASSUME DocsInv, NEW s \in Writers, D!Deadlock(s) \/ D!Raise(s) PROVE DocsInv'
<1>1. StoreTyped /\ UNCHANGED <<text, table, rewritten, overlapped>>
  BY DEF DocsInv, D!Deadlock, D!Raise, D!history
<1>2. upsert' = [upsert EXCEPT ![s] = D!None]
  BY DEF D!Deadlock, D!Raise
<1>3. toStore' = [r \in Writers |-> [w \in Urls |-> toStore'[r][w]]]
      /\ \A r \in Writers \ {s} : toStore'[r] = toStore[r]
  <2>1. PICK f : toStore' = [toStore EXCEPT ![s] = f] /\ f = [u \in Urls |-> f[u]]
    <3>1. CASE D!Raise(s)
      <4> DEFINE f == [u \in Urls |-> D!None]
      <4>1. toStore' = [toStore EXCEPT ![s] = f] /\ f = [u \in Urls |-> f[u]]
        BY <3>1 DEF D!Raise, D!Nothing
      <4> HIDE DEF f
      <4> QED BY <4>1
    <3>2. CASE D!Deadlock(s)
      <4>1. toStore' = [toStore EXCEPT ![s] = [toStore[s] EXCEPT ![upsert[s]] = D!None]]
        BY <3>2 DEF D!Deadlock, D!GivesUp, D!Done
      <4>2. toStore[s] = [u \in Urls |-> toStore[s][u]]
        BY <1>1 DEF StoreTyped
      <4> DEFINE f == [toStore[s] EXCEPT ![upsert[s]] = D!None]
      <4>3. f = [u \in Urls |-> f[u]]
        BY <4>2
      <4> HIDE DEF f
      <4> QED BY <4>1, <4>3 DEF f
    <3> QED BY <3>1, <3>2
  <2> QED BY <1>1, <2>1 DEF StoreTyped
<1>4. upsert' \in [Writers -> Urls \cup {D!None}] /\ upsert'[s] = D!None
      /\ \A r \in Writers \ {s} : upsert'[r] = upsert[r]
  BY <1>1, <1>2 DEF StoreTyped
<1>5. CASE D!Deadlock(s)
  BY <1>1, <1>3, <1>4, <1>5, SessionWorks DEF D!Deadlock
<1>6. CASE D!Raise(s)
  <2>1. mine' = [mine EXCEPT ![s] = [u \in Urls |-> D!None]]
    BY <1>6 DEF D!Raise, D!Cleared, D!Nothing
  <2>2. /\ mine' = [r \in Writers |-> [u \in Urls |-> mine'[r][u]]]
        /\ \A r \in Writers, u \in Urls : mine'[r][u] = IF r = s THEN D!None ELSE mine[r][u]
    BY <1>1, <2>1 DEF StoreTyped
  <2>3. TwinsKept'
    <3>1. \A u \in Urls : \A v : Kept(u, v)' => Kept(u, v)
      BY <1>1, <2>2 DEF Kept
    <3> QED BY <1>1, <3>1, TwinsStay DEF DocsInv
  <2>4. RowsLocked'
    BY <1>1, <2>2 DEF DocsInv, RowsLocked, Explained
  <2>5. EmbedsNew'
    <3>1. ASSUME NEW r \in Writers, NEW u \in Urls, u # D!None, upsert'[r] = u PROVE Embedding(r, u)'
      <4>1. r # s /\ Embedding(r, u)
        BY <1>4, <3>1 DEF DocsInv, EmbedsNew
      <4>2. mine'[r] = mine[r]
        BY <1>1, <2>1, <4>1 DEF StoreTyped
      <4> QED BY <1>1, <1>3, <4>1, <4>2, EmbeddingStays
    <3> QED BY <3>1 DEF EmbedsNew
  <2> QED BY <1>1, <1>3, <1>4, <2>2, <2>3, <2>4, <2>5 DEF DocsInv, StoreTyped
<1> QED BY <1>5, <1>6

LEMMA DocsCommit == ASSUME DocsInv, NEW s \in Writers, D!Commit(s) PROVE DocsInv'
<1>1. StoreTyped /\ UNCHANGED <<text, toStore, upsert, rewritten, overlapped>>
      /\ toStore[s] = [u \in Urls |-> D!None]
      /\ table' = [u \in Urls |-> D!Row(s, u)] /\ mine' = [mine EXCEPT ![s] = [u \in Urls |-> D!None]]
  BY DEF DocsInv, D!Commit, D!Cleared, D!Nothing, D!history
<1>2. /\ mine' = [r \in Writers |-> [u \in Urls |-> mine'[r][u]]]
      /\ \A r \in Writers, u \in Urls : mine'[r][u] = IF r = s THEN D!None ELSE mine[r][u]
  BY <1>1 DEF StoreTyped
<1>3. \A u \in Urls : table'[u] = IF mine[s][u] # D!None THEN mine[s][u] ELSE table[u]
  BY <1>1 DEF D!Row
<1>4. TwinsKept'
  <2>1. \A u \in Urls : \A v : Kept(u, v)' => Kept(u, v)
    BY <1>2, <1>3 DEF Kept
  <2> QED BY <1>1, <2>1, TwinsStay DEF DocsInv
<1>5. RowsLocked'
  <2>1. ASSUME NEW r \in Writers, NEW u \in Urls, mine'[r][u] # D!None, table'[u] # D!None
        PROVE  Explained(u)
    <3>1. r # s /\ mine[r][u] # D!None
      BY <1>2, <2>1
    <3>2. mine[s][u] = D!None
      BY <3>1 DEF DocsInv, RowsLocked
    <3> QED BY <1>3, <2>1, <3>1, <3>2 DEF DocsInv, RowsLocked
  <2> QED BY <1>1, <1>2, <2>1 DEF DocsInv, RowsLocked, Explained
<1>6. EmbedsNew'
  <2>1. ASSUME NEW r \in Writers, NEW u \in Urls, u # D!None, upsert'[r] = u PROVE Embedding(r, u)'
    <3>1. Embedding(r, u)
      BY <1>1, <2>1 DEF DocsInv, EmbedsNew
    <3>2. r # s
      BY <1>1, <3>1 DEF Embedding
    <3>3. mine'[r] = mine[r]
      BY <1>1, <3>2 DEF StoreTyped
    <3>4. Writers # {r} /\ (table[u] # D!None => table'[u] # D!None)
      BY <1>3, <3>2
    <3>5. toStore'[r] = toStore[r] /\ text' = text
      BY <1>1
    <3> QED BY <3>1, <3>3, <3>4, <3>5, EmbeddingStays
  <2> QED BY <2>1 DEF EmbedsNew
<1> QED BY <1>1, <1>2, <1>4, <1>5, <1>6 DEF DocsInv, StoreTyped

LEMMA DocsUpsert == ASSUME DocsInv, NEW s \in Writers, D!Upsert(s) PROVE DocsInv'
<1>0. PICK u, new : u \in Urls /\ u = upsert[s] /\ u # D!None /\ new = toStore[s][u]
  BY DEF D!Upsert, DocsInv, StoreTyped
<1>1. StoreTyped /\ UNCHANGED <<text, table>> /\ u # D!None /\ ~D!Waits(s)
      /\ mine' = [mine EXCEPT ![s][u] = new]
      /\ rewritten' = (IF D!Row(s, u) # D!None THEN rewritten \cup {u} ELSE rewritten)
      /\ overlapped' = (IF D!Meanwhile(s, u) THEN overlapped \cup {u} ELSE overlapped)
      /\ toStore' = [toStore EXCEPT ![s][u] = D!None] /\ upsert' = [upsert EXCEPT ![s] = D!None]
  BY <1>0 DEF DocsInv, D!Upsert, D!Done
<1>2. u \in Urls /\ Embedding(s, u) /\ new # D!None
  BY <1>0 DEF DocsInv, EmbedsNew, Embedding
<1>3. ASSUME NEW r \in Writers \ {s} PROVE mine[r][u] = D!None
  BY <1>0, <1>1, <1>3 DEF D!Waits
<1>4. /\ mine' = [r \in Writers |-> [w \in Urls |-> mine'[r][w]]]
      /\ \A r \in Writers, w \in Urls : mine'[r][w] = IF r = s /\ w = u THEN new ELSE mine[r][w]
  BY <1>1, <1>2 DEF StoreTyped
<1>5. /\ toStore' = [r \in Writers |-> [w \in Urls |-> toStore'[r][w]]]
      /\ \A r \in Writers \ {s} : toStore'[r] = toStore[r]
  BY <1>1, <1>2 DEF StoreTyped
<1>6. upsert' \in [Writers -> Urls \cup {D!None}] /\ upsert'[s] = D!None
      /\ \A r \in Writers \ {s} : upsert'[r] = upsert[r]
  BY <1>1 DEF StoreTyped
<1>7. \A w \in Urls : Explained(w) => Explained(w)'
  BY <1>1 DEF Explained
<1>8. D!Row(s, u) # D!None \/ D!Meanwhile(s, u) => Explained(u)'
  BY <1>1 DEF Explained
<1>9. D!Row(s, u) = IF mine[s][u] # D!None THEN mine[s][u] ELSE table[u]
  BY DEF D!Row
<1>10. D!Meanwhile(s, u) <=> \E r \in Writers \ {s}, w \in Urls \ {u} :
          \/ mine[r][w] # D!None /\ text[w][mine[r][w]] = text[u][new]
          \/ upsert[r] = w /\ text[w][toStore[r][w]] = text[u][new]
          \/ table[w] # D!None /\ text[w][table[w]] = text[u][new]
  BY <1>0 DEF D!Meanwhile, D!Says, D!Fetched
\* The new row against any other.
<1>11. ASSUME NEW w \in Urls, w # u, NEW v, Kept(w, v), text[w][v] = text[u][new]
       PROVE  Explained(u)' \/ Explained(w)'
  <2>1. SUFFICES ASSUME D!Row(s, u) = D!None, ~D!Meanwhile(s, u) PROVE Explained(w)
    BY <1>7, <1>8
  <2>2. \A r \in Writers \ {s} : mine[r][w] # v /\ table[w] # v
    BY <1>10, <1>11, <2>1 DEF Kept
  <2>3. mine[s][w] # v
    BY <1>2, <1>11, <1>0, <2>1 DEF Embedding, Kept
  <2>4. table[w] = v /\ Writers = {s} /\ v # D!None
    BY <1>11, <2>2, <2>3 DEF Kept
  <2>5. mine[s][w] # D!None
    BY <1>2, <1>11, <1>0, <2>1, <2>4 DEF Embedding
  <2> QED BY <2>4, <2>5 DEF DocsInv, RowsLocked
<1>12. \A w \in Urls : \A v : Kept(w, v)' => Kept(w, v) \/ (w = u /\ v = new)
  BY <1>1, <1>4 DEF Kept
<1>13. TwinsKept'
  BY <1>1, <1>7, <1>11, <1>12 DEF DocsInv, TwinsKept
<1>14. RowsLocked'
  <2>1. \A r, q \in Writers, w \in Urls : mine'[r][w] # D!None /\ mine'[q][w] # D!None => r = q
    BY <1>3, <1>4 DEF DocsInv, RowsLocked
  <2>2. ASSUME NEW r \in Writers, NEW w \in Urls, mine'[r][w] # D!None, table[w] # D!None
        PROVE  Explained(w)'
    <3>1. CASE r = s /\ w = u
      BY <1>8, <1>9, <2>2, <3>1
    <3>2. CASE ~(r = s /\ w = u)
      BY <1>4, <1>7, <2>2, <3>2 DEF DocsInv, RowsLocked
    <3> QED BY <3>1, <3>2
  <2> QED BY <1>1, <2>1, <2>2 DEF RowsLocked
<1>15. EmbedsNew'
  <2>1. ASSUME NEW r \in Writers, NEW w \in Urls, w # D!None, upsert'[r] = w PROVE Embedding(r, w)'
    <3>1. r # s /\ Embedding(r, w)
      BY <1>6, <2>1 DEF DocsInv, EmbedsNew
    <3>2. mine'[r] = mine[r]
      BY <1>1, <3>1 DEF StoreTyped
    <3> QED BY <1>1, <1>5, <3>1, <3>2, EmbeddingStays
  <2> QED BY <2>1 DEF EmbedsNew
<1> QED BY <1>1, <1>4, <1>5, <1>6, <1>13, <1>14, <1>15 DEF DocsInv, StoreTyped

LEMMA DocsStep == ASSUME DocsInv, [D!Next]_store PROVE DocsInv'
<1>1. CASE UNCHANGED store \/ \E u \in Urls : D!Publish(u)
  <2>1. UNCHANGED <<text, table, mine, toStore, upsert, rewritten, overlapped>>
    BY <1>1 DEF store, D!Publish, D!history
  <2> QED BY <2>1 DEF DocsInv, StoreTyped, TwinsKept, RowsLocked, EmbedsNew, Embedding, Kept, Explained, D!Row
<1> QED BY <1>1, DocsFetch, DocsWork, DocsGiveUp, DocsCommit, DocsUpsert DEF D!Next, D!Step

LEMMA DocsFollow == DocsInv => D!TwinsExplained
BY DEF DocsInv, TwinsKept, Kept, Explained, D!TwinsExplained, D!Says

-----------------------------------------------------------------------------
(* The watchdog.                                                           *)
Open(s) == s \in told \ excused

Fields == {"step", "todo", "stale", "grace"}

PassType ==
  \/ pass = W!Resting
  \/ pass.step = "looking" /\ pass = [k \in Fields |-> pass[k]]
  \/ pass.step = "recording" /\ pass = [k \in Fields \cup {"about"} |-> pass[k]]

\* A service that was paged about, and has neither made progress since nor been
\* excused (Watchdog names how), is on the list of alerts or about to be recorded on
\* it, and a pass that has yet to come to it found it stale.
PagesInv ==
  /\ PassType
  /\ \A s \in Monitored : Open(s) =>
       /\ s \in alerted \/ (pass.step = "recording" /\ pass.about = s)
       /\ pass.step \in {"looking", "recording"} /\ s \in pass.todo => s \in pass.stale

LEMMA PagesStart == ASSUME W!Init PROVE PagesInv
BY DEF W!Init, PagesInv, PassType, Open

LEMMA PagesStep == ASSUME PagesInv, [W!Next]_watch PROVE PagesInv'
<1>1. ASSUME UNCHANGED <<alerted, pass>>, told' \subseteq told, excused \cap told' \subseteq excused'
      PROVE  PagesInv'
  BY <1>1 DEF PagesInv, PassType, Open
<1>2. CASE W!Tick
  BY <1>1, <1>2 DEF W!Tick, W!judged
<1>3. ASSUME NEW s \in Monitored, W!MarkSuccess(s) PROVE PagesInv'
  BY <1>1, <1>3 DEF W!MarkSuccess, W!Progress
<1>4. ASSUME NEW s \in Monitored, W!Hangs(s) \/ W!Recovers(s) PROVE PagesInv'
  BY <1>1, <1>4 DEF W!Hangs, W!Recovers, W!judged
<1>5. CASE W!Connect \/ W!Disconnect
  BY <1>1, <1>5 DEF W!Connect, W!Disconnect, W!judged
<1>6. CASE W!Message
  BY <1>1, <1>6 DEF W!Message, W!Progress
<1>7. ASSUME NEW s \in {"running", "stopped"}, W!SetRunState(s) PROVE PagesInv'
  BY <1>1, <1>7 DEF W!SetRunState, W!judged
<1>8. CASE W!Restart
  BY <1>8 DEF W!Restart, PagesInv, PassType, Open
<1>9. CASE W!RecordFails
  BY <1>9 DEF W!RecordFails, PagesInv, PassType, Open
<1>10. CASE W!Reads
  <2>1. /\ pass = W!Resting /\ UNCHANGED <<alerted, told>>
        /\ pass'.step = "looking" /\ pass'.stale = {s \in Monitored : W!TrulyStale(s)}
        /\ excused' = excused \cup {s \in told : ~W!TrulyStale(s)}
    BY <1>10 DEF W!Reads
  <2>2. W!Resting.step = "resting"
    BY DEF W!Resting
  <2>4. pass' = [k \in Fields |-> pass'[k]]
    BY <1>10 DEF W!Reads, Fields
  <2>3. ASSUME NEW s \in Monitored, s \in told' \ excused' PROVE s \in alerted' /\ s \in pass'.stale
    BY <2>1, <2>2, <2>3 DEF PagesInv, Open
  <2>5. PassType'
    BY <2>1, <2>4 DEF PassType, Fields
  <2>6. pass'.step # "recording"
    BY <2>1
  <2> QED BY <2>1, <2>3, <2>5, <2>6 DEF PagesInv, Open
<1>11. CASE W!Clears
  BY <1>11 DEF W!Clears, PagesInv, PassType, Open
<1>12. CASE W!Records
  BY <1>12 DEF W!Records, W!Remembered, W!judged, PagesInv, PassType, Fields, Open
<1>13. ASSUME NEW s \in Monitored, W!Looks(s) PROVE PagesInv'
  <2>1. /\ pass.step = "looking" /\ alerted \ {s} \subseteq alerted' /\ (s \in pass.stale => alerted' = alerted)
        /\ pass' = [pass EXCEPT !.todo = @ \ {s}] /\ UNCHANGED <<told, excused>> /\ s \in pass.todo
    BY <1>13 DEF W!Looks, W!Quiet, W!judged
  <2>2. pass = [k \in Fields |-> pass[k]]
    BY <2>1 DEF PagesInv, PassType, W!Resting
  <2>3. pass'.step = "looking" /\ pass'.todo = pass.todo \ {s} /\ pass'.stale = pass.stale
        /\ pass' = [k \in Fields |-> pass'[k]]
    BY <2>1, <2>2 DEF Fields
  <2> QED BY <2>1, <2>3 DEF PagesInv, PassType, Open
<1>14. ASSUME NEW s \in Monitored, W!Pages(s) PROVE PagesInv'
  BY <1>14 DEF W!Pages, PagesInv, PassType, Fields, Open
<1>15. CASE W!EndsPass
  BY <1>15 DEF W!EndsPass, PagesInv, PassType, Open, W!Resting
<1>16. CASE UNCHANGED watch
  BY <1>1, <1>16 DEF watch
<1> QED BY <1>2, <1>3, <1>4, <1>5, <1>6, <1>7, <1>8, <1>9, <1>10, <1>11, <1>12, <1>13, <1>14, <1>15,
           <1>16 DEF W!Next, W!WatchdogStep

LEMMA PagedOnce ==
  ASSUME PagesInv, [W!Next]_watch, NEW s \in Monitored, W!Pages(s)
  PROVE  s \in excused \/ s \notin told
BY DEF W!Pages, PagesInv, Open

LEMMA WatchStep == ASSUME [BackNext]_back PROVE [W!Next]_watch
BY DEF BackNext, back

(* No second page about an outage, whatever comes between two passes of the *)
(* watchdog: it is about a service that made progress since, or that a pass *)
(* saw do well, or whose page a restart, a stop of the run loop or a failed *)
(* write made the watchdog forget.                                         *)
THEOREM PagedOncePerOutage == BackSpec => OncePerOutage
<1> DEFINE Once == \A s \in Monitored : W!Pages(s) => s \in excused \/ s \notin told
<1>1. BackInit => PagesInv
  BY PagesStart DEF BackInit
<1>2. PagesInv /\ [BackNext]_back => PagesInv' /\ [Once]_W!vars
  BY PagesStep, PagedOnce, WatchStep
<1>3. BackSpec => [][Once]_W!vars
  BY <1>1, <1>2, PTL DEF BackSpec
<1> QED BY <1>3 DEF OncePerOutage, W!OncePerOutage

-----------------------------------------------------------------------------
(* The daily chores.                                                       *)
Wait == hour + digestIn

\* One digest: the wait ends at the digest's hour, or an hour later when the
\* clock went forward, and after a digest not before the next day.
DigestInv ==
  /\ hour \in 0 .. Day - 1 /\ digestIn \in Nat /\ change \in {"none", "forward"}
  /\ Wait \in {DigestHour, DigestHour + Day} \/ (Wait = DigestHour + 1 /\ hour >= 2)
  /\ hour = 0 => Wait = DigestHour
  /\ digests \in {0, 1}
  /\ digests = 1 => Wait = DigestHour + Day /\ hour >= DigestHour

\* A job that reported success has its rows in the database or in the session,
\* or its turn is still to come.
BeatInv ==
  /\ at \in 0 .. 5 /\ beat \in [U!JobNames -> {"none", "ok", "error"}]
  /\ aborted => dbFailed
  /\ at = 0 => unsaved = {} /\ ~aborted
  /\ ~dbFailed => \A i \in 1 .. 4 :
       beat[U!Jobs[i]] = "ok" => U!Jobs[i] \in saved \cup unsaved \/ (at > 0 /\ i >= at)

\* The next check comes before two days are over.
CheckInv ==
  /\ checkAge \in Nat /\ checkIn \in Nat
  /\ ~checkFailed => checkAge + checkIn <= 2 * Day

ChoresInv == DigestInv /\ BeatInv /\ CheckInv

LEMMA NextDay ==
  ASSUME NEW h \in 0 .. Day - 1
  PROVE  (h + 1) % Day = IF h = Day - 1 THEN 0 ELSE h + 1
<1>1. Day \in Nat /\ Day >= 4
  BY BackgroundAssumption
<1> QED BY <1>1

LEMMA JobsAre ==
  /\ DOMAIN U!Jobs = 1 .. 4 /\ Len(U!Jobs) = 4 /\ U!JobNames = {U!Jobs[i] : i \in 1 .. 4}
  /\ \A i, j \in 1 .. 4 : U!Jobs[i] = U!Jobs[j] => i = j
  /\ \A i \in 1 .. 4 : U!Jobs[i] = "candles" <=> i = 4
BY DEF U!Jobs, U!JobNames

LEMMA WaitAgain ==
  ASSUME NEW h \in 0 .. Day - 1
  PROVE  /\ U!UntilNext(h) \in Nat \ {0}
         /\ h + U!UntilNext(h) = IF h >= DigestHour THEN DigestHour + Day ELSE DigestHour
BY BackgroundAssumption DEF U!UntilNext

LEMMA ChoresStart == ASSUME U!Init PROVE ChoresInv
<1>1. DigestInv
  BY WaitAgain, BackgroundAssumption DEF U!Init, DigestInv, Wait
<1>2. BeatInv
  BY JobsAre DEF U!Init, BeatInv, U!NoBeat
<1>3. CheckInv
  BY BackgroundAssumption DEF U!Init, CheckInv
<1> QED BY <1>1, <1>2, <1>3 DEF ChoresInv

LEMMA DigestKept == ASSUME DigestInv, [U!Next]_upkeep PROVE DigestInv'
<1>1. Day \in Nat /\ DigestHour \in 2 .. Day - 2
  BY BackgroundAssumption
<1>2. ASSUME UNCHANGED <<hour, change, digestIn, digests>> PROVE DigestInv'
  BY <1>2 DEF DigestInv, Wait
<1>3. CASE U!Hour
  <2>1. hour' = IF hour = 0 /\ change = "forward" THEN 2 ELSE IF hour = Day - 1 THEN 0 ELSE hour + 1
    BY <1>3, NextDay DEF U!Hour, U!NextHour, DigestInv
  <2>2. digestIn > 0 /\ digestIn' = digestIn - 1 /\ change' \in {change, "none"}
        /\ digests' = IF hour' = 0 /\ hour # 0 THEN 0 ELSE digests
    BY <1>3 DEF U!Hour
  <2> QED BY <1>1, <2>1, <2>2 DEF DigestInv, Wait
<1>4. CASE U!Digest
  <2>1. digestIn = 0 /\ digestIn' = U!UntilNext(hour) /\ digests' \in {digests, digests + 1}
        /\ hour' = hour /\ change' = change
    BY <1>4 DEF U!Digest, U!clock
  <2>2. hour >= DigestHour /\ digests = 0
    BY <1>1, <2>1 DEF DigestInv, Wait
  <2> QED BY <1>1, <2>1, <2>2, WaitAgain DEF DigestInv, Wait
<1>5. CASE U!Restart
  BY <1>1, <1>5, WaitAgain DEF U!Restart, U!clock, DigestInv, Wait
<1> QED
  BY <1>2, <1>3, <1>4, <1>5
  DEF U!Next, U!Check, U!Wakes, U!JobSucceeds, U!RequestFails, U!StatementFails, U!JobBlocked,
      U!Commits, U!Goes, U!clock, U!digest, upkeep

LEMMA CheckKept == ASSUME CheckInv, [U!Next]_upkeep PROVE CheckInv'
<1>1. Day \in Nat
  BY BackgroundAssumption
<1>2. CASE U!Hour
  BY <1>1, <1>2 DEF U!Hour, CheckInv
<1>3. CASE U!Check
  BY <1>1, <1>3 DEF U!Check, CheckInv
<1>4. CASE U!Restart
  BY <1>1, <1>4 DEF U!Restart, U!FirstCheckIn, CheckInv
<1>5. ASSUME UNCHANGED <<checkIn, checkAge, checkFailed>> PROVE CheckInv'
  BY <1>5 DEF CheckInv
<1> QED
  BY <1>2, <1>3, <1>4, <1>5
  DEF U!Next, U!Digest, U!Wakes, U!JobSucceeds, U!RequestFails, U!StatementFails, U!JobBlocked,
      U!Commits, U!Goes, U!changelog, upkeep

LEMMA BeatKept == ASSUME BeatInv, [U!Next]_upkeep PROVE BeatInv'
<1> USE JobsAre
<1>1. ASSUME UNCHANGED <<at, aborted, unsaved, saved, beat, dbFailed>> PROVE BeatInv'
  BY <1>1 DEF BeatInv
<1>2. CASE U!Hour
  <2>1. \A j \in U!JobNames : beat'[j] = "ok" => beat[j] = "ok" /\ saved' = saved
    BY <1>2 DEF U!Hour, U!NoBeat
  <2>2. beat' \in [U!JobNames -> {"none", "ok", "error"}]
    BY <1>2 DEF U!Hour, U!NoBeat, BeatInv
  <2> QED BY <1>2, <2>1, <2>2 DEF U!Hour, U!Asleep, BeatInv
<1>3. CASE U!Wakes \/ U!Restart
  BY <1>3 DEF U!Wakes, U!Restart, U!Asleep, BeatInv
<1>4. ASSUME at \in 1 .. 4, at' = at + 1, NEW result \in {"ok", "error"}, U!Beats(result),
             result = "ok" => ~aborted /\ U!Job \in saved' \cup unsaved',
             aborted' => dbFailed', ~dbFailed' => ~dbFailed /\ saved \cup unsaved \subseteq saved' \cup unsaved'
      PROVE  BeatInv'
  <2>1. beat' = [beat EXCEPT ![U!Jobs[at]] = result]
    BY <1>4 DEF U!Beats, U!Job
  <2>2. \A i \in 1 .. 4 : beat'[U!Jobs[i]] = IF i = at THEN result ELSE beat[U!Jobs[i]]
    BY <1>4, <2>1 DEF BeatInv
  <2>3. beat' \in [U!JobNames -> {"none", "ok", "error"}]
    BY <1>4, <2>1 DEF BeatInv
  <2>4. ASSUME ~dbFailed', NEW i \in 1 .. 4, beat'[U!Jobs[i]] = "ok"
        PROVE  U!Jobs[i] \in saved' \cup unsaved' \/ i >= at'
    <3>1. CASE i = at
      BY <1>4, <2>2, <2>4, <3>1 DEF U!Job
    <3>2. CASE i # at
      BY <1>4, <2>2, <2>4, <3>2 DEF BeatInv
    <3> QED BY <3>1, <3>2
  <2> QED BY <1>4, <2>3, <2>4 DEF BeatInv
<1>5. CASE U!JobSucceeds
  BY <1>4, <1>5 DEF U!JobSucceeds, U!Written, U!Due, U!Goes, BeatInv
<1>6. CASE U!RequestFails
  BY <1>4, <1>6 DEF U!RequestFails, U!Goes, BeatInv
<1>7. CASE U!StatementFails
  BY <1>4, <1>7 DEF U!StatementFails, U!Goes, BeatInv
<1>8. CASE U!JobBlocked
  BY <1>4, <1>8 DEF U!JobBlocked, U!Goes, BeatInv
<1>9. CASE U!Commits
  BY <1>9 DEF U!Commits, U!Kept, BeatInv
<1> QED
  BY <1>1, <1>2, <1>3, <1>5, <1>6, <1>7, <1>8, <1>9
  DEF U!Next, U!Digest, U!Check, U!session, upkeep

LEMMA ChoresFollow == ChoresInv => ChoresDone
<1>1. DigestInv => U!DigestOncePerDay
  BY DEF DigestInv, U!DigestOncePerDay
<1>2. BeatInv => U!BeatIsSaved
  BY JobsAre DEF BeatInv, U!BeatIsSaved, U!Asleep
<1>3. CheckInv => U!ChangelogWatched
  BY BackgroundAssumption DEF CheckInv, U!ChangelogWatched
<1> QED BY <1>1, <1>2, <1>3 DEF ChoresInv, ChoresDone

LEMMA ChoresKept == ASSUME ChoresInv, [BackNext]_back PROVE ChoresInv'
<1>1. [U!Next]_upkeep
  BY DEF BackNext, back
<1> QED BY <1>1, DigestKept, BeatKept, CheckKept DEF ChoresInv

(* A day has at most one digest, also when the clock goes forward in it; a  *)
(* job's heartbeat says ok only of rows that are there when the refresh is  *)
(* over, as long as the database does its part; the changelog is looked at *)
(* within two days, unless looking fails, however restarts fall.           *)
THEOREM ChoresAreDone == BackSpec => []ChoresDone
<1>1. BackInit => ChoresInv
  BY ChoresStart DEF BackInit
<1>2. ChoresInv /\ [BackNext]_back => ChoresInv'
  BY ChoresKept
<1> QED BY <1>1, <1>2, ChoresFollow, PTL DEF BackSpec

-----------------------------------------------------------------------------
(* What a feed says it has is there: the wait of a refused service, the     *)
(* cursor of an account, the history of a market's candles up to its cursor *)
(* - but for a fetch that the request budget cut, see CandlesCut.cfg, after *)
(* which only the last of it is missing - the counts of a market that is let*)
(* through, and a copy in the store is one of the two that Documents names. *)
FeedsInv == CountsInv /\ CandlesInv /\ FeedInv /\ DocsInv

LEMMA FeedsKept == ASSUME FeedsInv, [BackNext]_back PROVE FeedsInv'
<1>1. [P!Next]_phrases /\ [K!Next]_candles /\ [R!Next]_posts /\ [D!Next]_store
  BY DEF BackNext, back
<1> QED BY <1>1, CountsStep, CandlesStep, FeedStep, DocsStep DEF FeedsInv

THEOREM FeedsAreRight == BackSpec => []FeedsKnow
<1>1. BackInit => FeedsInv
  BY CountsStart, CandlesStart, FeedStart, DocsStart DEF BackInit, FeedsInv
<1>2. FeedsInv /\ [BackNext]_back => FeedsInv'
  BY FeedsKept
<1>3. CountsInv => P!ReadyHasCounts
  BY DEF CountsInv, P!ReadyHasCounts, P!HasRow
<1>4. FeedsInv => FeedsKnow
  BY <1>3, CandlesFollow, FeedFollows, DocsFollow DEF FeedsInv, FeedsKnow
<1> QED BY <1>1, <1>2, <1>4, PTL DEF BackSpec
=============================================================================
