----------------------- MODULE SignalPipelineProofs -----------------------
(***************************************************************************)
(* Proofs about the analysis of a market: about SignalPipeline, for any    *)
(* documents, tiers and cooldowns, and about the calls it makes            *)
(* (Extraction), for any analysts, documents, budget and prices.           *)
(*                                                                         *)
(* The cooldown is read before the LLM is asked and the signal is written  *)
(* after.  It holds at the write because only the signal loop writes       *)
(* scheduled signals: between the two the last one can only grow older     *)
(* (Rested).  The budget is read before a call and charged after it as     *)
(* well; what bounds the damage is that a caller has one call at a time.   *)
(***************************************************************************)
EXTENDS SignalPipeline, FiniteSetTheorems, TLAPS

(* While the scheduled analysis asks, the cooldown is over. *)
Rested ==
  run[Loop].at = "asks" /\ last.tier # "none" => last.age >= Cooldown[last.tier]

(* What the loop holds of the market when it has loaded or asks is a price. *)
IInv == TypeOK /\ Rested

(* The step relation of CooldownKept. *)
CooldownStep ==
  last' # last /\ last'.age = 0 /\ last.tier # "none" => last.age >= Cooldown[last.tier]

-----------------------------------------------------------------------------
(* The records the runs hold are well typed. *)
RunType == [at: {"idle", "loaded", "asks"}, seen: SignalType,
            mid: Prices \cup {"none"}, docs: SUBSET Docs, facts: BOOLEAN]

LEMMA NoSignalType == NoSignal \in SignalType
BY DEF NoSignal, SignalType

LEMMA NoRunType == NoRun \in RunType
BY NoSignalType DEF NoRun, RunType

LEMMA AsksType ==
  ASSUME evidence \subseteq Docs, NEW mid \in Prices \cup {"none"}
  PROVE  Asks(mid) \in RunType /\ Asks(mid).at = "asks"
BY NoSignalType DEF Asks, NoRun, RunType

LEMMA WrittenType ==
  ASSUME TypeOK, NEW a \in Analysts
  PROVE  Written(a) \in SignalType
BY DEF TypeOK, Written, SignalType

(* A step that touches neither the last scheduled signal nor the phase of  *)
(* the loop keeps it rested.                                               *)
LEMMA StaysRested ==
  ASSUME IInv, last' = last, run'[Loop].at = "asks" => run[Loop].at = "asks"
  PROVE  Rested' /\ CooldownStep
BY DEF IInv, Rested, CooldownStep

LEMMA LoopNotDesk == Loop \in Analysts /\ Desk \in Analysts /\ Loop # Desk
BY PipelineAssumption DEF Analysts

-----------------------------------------------------------------------------
(* The initial states. *)
LEMMA InitInv == Init => IInv
<1> SUFFICES ASSUME Init PROVE IInv
  OBVIOUS
<1>1. TypeOK
  <2>1. last \in [docs: SUBSET Docs, tier: Tiers \cup {"none"}, age: 0..Interval]
    BY PipelineAssumption DEF Init
  <2>2. run \in [Analysts -> RunType]
    BY NoRunType DEF Init
  <2> QED BY <2>1, <2>2, NoSignalType DEF Init, TypeOK, RunType
<1>2. run[Loop].at = "idle"
  BY LoopNotDesk DEF Init, NoRun
<1> QED BY <1>1, <1>2 DEF IInv, Rested

(* One step: the invariant, and the cooldown. *)
LEMMA StepInv == ASSUME IInv, [Next]_vars PROVE IInv' /\ CooldownStep
<1> USE LoopNotDesk
<1>0. TypeOK /\ run \in [Analysts -> RunType] /\ last.age \in 0..Interval /\ Interval \in Nat
  BY PipelineAssumption DEF IInv, TypeOK, RunType
<1>1. CASE LoadMarket
  <2>1. [NoRun EXCEPT !.at = "loaded", !.seen = current, !.mid = price] \in RunType
    BY <1>0, NoRunType DEF TypeOK, RunType
  <2>2. TypeOK'
    BY <1>0, <1>1, <2>1 DEF LoadMarket, TypeOK, RunType
  <2>3. run'[Loop].at # "asks" /\ last' = last
    BY <1>0, <1>1 DEF LoadMarket, RunType, NoRun
  <2> QED BY <2>2, <2>3, StaysRested DEF IInv
<1>2. CASE Skip
  <2>1. [run[Loop].seen EXCEPT !.mid = run[Loop].mid] \in SignalType
    BY <1>0 DEF RunType, SignalType
  <2>2. TypeOK'
    BY <1>0, <1>2, <2>1, NoRunType DEF Skip, TypeOK, RunType
  <2>3. run'[Loop].at # "asks" /\ last' = last
    BY <1>0, <1>2 DEF Skip, RunType, NoRun
  <2> QED BY <2>2, <2>3, StaysRested DEF IInv
<1>3. CASE Retrieve
  <2>1. Asks(run[Loop].mid) \in RunType
    BY <1>0, AsksType DEF TypeOK, RunType
  <2>2. TypeOK'
    BY <1>0, <1>3, <2>1 DEF Retrieve, TypeOK, RunType
  <2>3. last.tier # "none" => last.age >= Cooldown[last.tier]
    <3>1. last.tier # "none" => Cooldown[last.tier] \in Nat
      BY <1>0, PipelineAssumption DEF TypeOK
    <3> QED BY <1>0, <1>3, <3>1 DEF Retrieve, Skips, CoolingDown
  <2>4. Rested' /\ CooldownStep
    BY <1>3, <2>3 DEF Retrieve, Rested, CooldownStep
  <2> QED BY <2>2, <2>4 DEF IInv
<1>4. CASE ForceAnalysis
  <2>1. Asks(price) \in RunType
    BY <1>0, AsksType DEF TypeOK
  <2>2. TypeOK'
    BY <1>0, <1>4, <2>1 DEF ForceAnalysis, TypeOK, RunType
  <2>3. run'[Loop] = run[Loop] /\ last' = last
    BY <1>0, <1>4 DEF ForceAnalysis
  <2> QED BY <2>2, <2>3, StaysRested DEF IInv
<1>5. CASE WriteSignal(Loop)
  <2>1. \E t \in Tiers : last' = [docs |-> run[Loop].docs, tier |-> t, age |-> 0]
    BY <1>5 DEF WriteSignal
  <2>2. last' \in [docs: SUBSET Docs, tier: Tiers \cup {"none"}, age: 0..Interval]
    BY <1>0, <2>1 DEF RunType
  <2>3. TypeOK'
    BY <1>0, <1>5, <2>2, NoRunType, WrittenType DEF WriteSignal, TypeOK, RunType
  <2>4. run'[Loop].at # "asks"
    BY <1>0, <1>5 DEF WriteSignal, NoRun
  <2>5. CooldownStep
    BY <1>5 DEF WriteSignal, CooldownStep, IInv, Rested
  <2> QED BY <2>3, <2>4, <2>5 DEF IInv, Rested
<1>6. CASE WriteSignal(Desk)
  <2>1. TypeOK'
    BY <1>0, <1>6, NoRunType, WrittenType DEF WriteSignal, TypeOK, RunType
  <2>2. run'[Loop] = run[Loop] /\ last' = last
    BY <1>0, <1>6 DEF WriteSignal
  <2> QED BY <2>1, <2>2, StaysRested DEF IInv
<1>7. ASSUME NEW a \in Analysts, NoAnalysis(a) PROVE IInv' /\ CooldownStep
  <2>1. TypeOK'
    BY <1>0, <1>7, NoRunType DEF NoAnalysis, TypeOK, RunType
  <2>2. last' = last /\ (run'[Loop] = run[Loop] \/ run'[Loop] = NoRun)
    BY <1>0, <1>7 DEF NoAnalysis
  <2> QED BY <2>1, <2>2, StaysRested DEF IInv, NoRun
<1>8. CASE EvidenceChanges
  <2>1. TypeOK'
    BY <1>0, <1>8 DEF EvidenceChanges, TypeOK
  <2> QED BY <1>8, <2>1, StaysRested DEF EvidenceChanges, IInv
<1>9. CASE FactbaseFetched
  <2>1. run' \in [Analysts -> RunType]
    BY <1>0, <1>9 DEF FactbaseFetched, RunType
  <2>2. TypeOK'
    BY <1>0, <1>9, <2>1 DEF FactbaseFetched, TypeOK, RunType
  <2>3. last' = last /\ run'[Loop].at = run[Loop].at
    BY <1>0, <1>9 DEF FactbaseFetched, RunType
  <2> QED BY <2>2, <2>3, StaysRested DEF IInv
<1>10. CASE PriceMoves
  <2>1. TypeOK'
    BY <1>0, <1>10 DEF PriceMoves, TypeOK
  <2> QED BY <1>10, <2>1, StaysRested DEF PriceMoves, IInv
<1>11. CASE Tick
  <2>1. /\ last' \in [docs: SUBSET Docs, tier: Tiers \cup {"none"}, age: 0..Interval]
        /\ last'.age = last.age + 1 /\ last'.tier = last.tier /\ run' = run
    BY <1>0, <1>11 DEF Tick, TypeOK
  <2>2. TypeOK'
    BY <1>0, <1>11, <2>1 DEF Tick, TypeOK
  <2>3. last.tier # "none" => Cooldown[last.tier] \in Nat
    BY <1>0, PipelineAssumption DEF TypeOK
  <2>4. Rested' /\ CooldownStep
    BY <1>0, <2>1, <2>3 DEF IInv, Rested, CooldownStep
  <2> QED BY <2>2, <2>4 DEF IInv
<1>12. CASE UNCHANGED vars
  BY <1>12 DEF IInv, TypeOK, Rested, CooldownStep, vars
<1> QED
  BY <1>1, <1>2, <1>3, <1>4, <1>5, <1>6, <1>7, <1>8, <1>9, <1>10, <1>11, <1>12
  DEF Next, LoopStep

-----------------------------------------------------------------------------
(* The variables keep their types: a failed or forced analysis leaves every *)
(* run in a phase it can go on from.                                        *)
THEOREM PipelineTypes == Spec => []TypeOK
<1>1. Init => IInv
  BY InitInv
<1>2. IInv /\ [Next]_vars => IInv'
  BY StepInv
<1>3. IInv => TypeOK
  BY DEF IInv
<1> QED BY <1>1, <1>2, <1>3, PTL DEF Spec

(* Scheduled analyses of a market are a cooldown apart, whoever else writes *)
(* its signals in between and however long an analysis takes.               *)
THEOREM CooldownHolds == Spec => CooldownKept
<1>1. Init => IInv
  BY InitInv
<1>2. IInv /\ [Next]_vars => IInv' /\ CooldownStep
  BY StepInv
<1>3. CooldownStep => [CooldownStep]_vars
  OBVIOUS
<1>4. Spec => [][CooldownStep]_vars
  BY <1>1, <1>2, PTL DEF Spec
<1> QED BY <1>4 DEF CooldownKept, CooldownStep

-----------------------------------------------------------------------------
(* The calls of the analyses, over the shared client of LLMClient.         *)
CONSTANTS Team, Main, Jev, Slots, SpendCap, MaxCost, MaxErrors
VARIABLES spent, errors, call, bill, stored, at, todo

X == INSTANCE Extraction WITH Analysts <- Team

(* The calls under way, of a phase for each caller.                        *)
Going(phase) == {c \in X!Callers : phase[c] \in {"sent", "paid"}}

(* The client they share: its bound, OvershootBounded, is about all of them. *)
INSTANCE LLMClient WITH Callers <- X!Callers, JevCallers <- {Jev}

ClientInv == X!ClientTypeOK /\ X!OvershootBounded

(* Extraction has its own instance of the operators on finite sets.        *)
LEMMA SameCardinality == \A S : X!Cardinality(S) = Cardinality(S)
BY DEF X!Cardinality, Cardinality

LEMMA CallersFinite ==
  ASSUME X!ExtractionAssumption PROVE IsFiniteSet(X!Callers)
<1>1. IsFiniteSet(Docs) /\ IsFiniteSet(Team)
  BY DEF X!ExtractionAssumption, X!IsFiniteSet, IsFiniteSet
<1>2. IsFiniteSet(Docs \cup {Main})
  BY <1>1, FS_Singleton, FS_Union
<1>3. IsFiniteSet(Team \X (Docs \cup {Main}))
  BY <1>1, <1>2, FS_Product
<1> QED BY <1>3, FS_Singleton, FS_Union DEF X!Callers

LEMMA GoingBounded ==
  ASSUME X!ExtractionAssumption, NEW f, NEW g, Going(g) \subseteq Going(f)
  PROVE  /\ IsFiniteSet(Going(f))
         /\ Cardinality(Going(f)) \in Nat /\ Cardinality(Going(g)) \in Nat
         /\ Cardinality(X!Callers) \in Nat
         /\ Cardinality(Going(g)) <= Cardinality(Going(f))
         /\ Cardinality(Going(f)) <= Cardinality(X!Callers)
<1>1. Going(f) \subseteq X!Callers
  BY DEF Going
<1>2. IsFiniteSet(Going(f)) /\ IsFiniteSet(Going(g)) /\ IsFiniteSet(X!Callers)
  BY <1>1, CallersFinite, FS_Subset
<1> QED BY <1>1, <1>2, FS_CardinalityType, FS_Subset

LEMMA BoundIs ==
  X!OvershootBounded <=>
    spent + MaxCost * Cardinality(Going(call)) <= SpendCap - 1 + MaxCost * Cardinality(X!Callers)
BY SameCardinality DEF X!OvershootBounded, X!UnderWay, Going

LEMMA BoundIsAfter ==
  X!OvershootBounded' <=>
    spent' + MaxCost * Cardinality(Going(call'))
      <= SpendCap - 1 + MaxCost * Cardinality(X!Callers)
BY SameCardinality DEF X!OvershootBounded, X!UnderWay, Going, X!Callers

LEMMA CostsMore ==
  ASSUME NEW a \in Nat, NEW m \in Nat, NEW n \in Nat, m <= n
  PROVE  a * m \in Nat /\ a * n \in Nat /\ a * m <= a * n /\ a * (m + 1) = a * m + a
<1>1. a * (m + (n - m)) = a * m + a * (n - m) /\ a * (n - m) \in Nat
  OBVIOUS
<1> QED BY <1>1

(* No call is begun and nothing more is recorded: the bound stays.         *)
LEMMA NoneBegun ==
  ASSUME X!ExtractionAssumption, ClientInv, spent' \in Nat, spent' <= spent,
         Going(call') \subseteq Going(call)
  PROVE  X!OvershootBounded'
<1> DEFINE n == Cardinality(Going(call))
           m == Cardinality(Going(call'))
           k == Cardinality(X!Callers)
<1>1. n \in Nat /\ m \in Nat /\ k \in Nat /\ m <= n
  BY GoingBounded
<1>2. spent \in Nat /\ MaxCost \in Nat /\ SpendCap \in Nat
  BY DEF ClientInv, X!ClientTypeOK, X!ExtractionAssumption
<1>3. spent + MaxCost * n <= SpendCap - 1 + MaxCost * k
  BY BoundIs DEF ClientInv
<1>4. MaxCost * m <= MaxCost * n /\ MaxCost * m \in Nat /\ MaxCost * n \in Nat
      /\ MaxCost * k \in Nat
  BY <1>1, <1>2, CostsMore
<1>5. spent' + MaxCost * m <= SpendCap - 1 + MaxCost * k
  BY <1>2, <1>3, <1>4
<1> QED BY <1>5, BoundIsAfter

(* A call is begun below the cap: at worst every caller has one under way. *)
LEMMA OneBegun ==
  ASSUME X!ExtractionAssumption, ClientInv, spent' = spent, spent < SpendCap
  PROVE  X!OvershootBounded'
<1> DEFINE m == Cardinality(Going(call'))
           k == Cardinality(X!Callers)
<1>1. m \in Nat /\ k \in Nat /\ m <= k
  BY GoingBounded
<1>2. spent \in Nat /\ MaxCost \in Nat /\ SpendCap \in Nat
  BY DEF ClientInv, X!ClientTypeOK, X!ExtractionAssumption
<1>3. MaxCost * m <= MaxCost * k /\ MaxCost * m \in Nat /\ MaxCost * k \in Nat
  BY <1>1, <1>2, CostsMore
<1>4. spent' + MaxCost * m <= SpendCap - 1 + MaxCost * k
  BY <1>2, <1>3
<1> QED BY <1>4, BoundIsAfter

(* A call is charged: it was under way, and costs no more than was counted *)
(* for it.                                                                 *)
LEMMA OneCharged ==
  ASSUME X!ExtractionAssumption, ClientInv, NEW c \in Going(call),
         NEW cost \in 0 .. MaxCost, spent' = spent + cost,
         Going(call') = Going(call) \ {c}
  PROVE  X!OvershootBounded'
<1> DEFINE n == Cardinality(Going(call))
           m == Cardinality(Going(call'))
           k == Cardinality(X!Callers)
<1>1. IsFiniteSet(Going(call)) /\ n \in Nat /\ m \in Nat /\ k \in Nat
  BY GoingBounded
<1>2. m = n - 1
  BY <1>1, FS_RemoveElement
<1>3. spent \in Nat /\ MaxCost \in Nat /\ SpendCap \in Nat
  BY DEF ClientInv, X!ClientTypeOK, X!ExtractionAssumption
<1>4. spent + MaxCost * n <= SpendCap - 1 + MaxCost * k
  BY BoundIs DEF ClientInv
<1>5. MaxCost * n = MaxCost * m + MaxCost /\ MaxCost * m \in Nat /\ MaxCost * k \in Nat
  <2>1. m <= m + 1 /\ k <= k /\ n = m + 1
    BY <1>1, <1>2
  <2> HIDE DEF n, m, k
  <2> QED BY <1>1, <1>3, <2>1, CostsMore
<1>6. spent' + MaxCost * m <= SpendCap - 1 + MaxCost * k
  <2> HIDE DEF n, m, k
  <2> QED BY <1>1, <1>3, <1>4, <1>5
<1> QED BY <1>6, BoundIsAfter

(* One step of the client, for a caller.                                   *)
LEMMA AskKept ==
  ASSUME X!ExtractionAssumption, ClientInv, NEW c \in X!Callers, X!Ask(c) \/ X!Refuse(c)
  PROVE  ClientInv'
<1>1. X!ClientTypeOK'
  BY DEF X!Ask, X!Refuse, ClientInv, X!ClientTypeOK, X!Phases
<1>2. CASE X!Ask(c)
  BY <1>1, <1>2, OneBegun DEF X!Ask, ClientInv
<1>3. CASE X!Refuse(c)
  <2>1. Going(call') \subseteq Going(call) /\ spent' = spent /\ spent \in Nat
    BY <1>3 DEF X!Refuse, Going, ClientInv, X!ClientTypeOK
  <2> QED BY <1>1, <2>1, NoneBegun DEF ClientInv
<1> QED BY <1>2, <1>3

LEMMA AnswerKept ==
  ASSUME X!ExtractionAssumption, ClientInv, NEW c \in X!Callers, X!Answer(c)
  PROVE  ClientInv'
<1>1. CASE X!Reply(c) \/ X!AuditFails(c) \/ X!Fail(c)
  <2>1. X!ClientTypeOK'
    <3>1. CASE X!Reply(c) \/ X!AuditFails(c)
      BY <3>1 DEF X!Reply, X!AuditFails, ClientInv, X!ClientTypeOK, X!Phases, X!ExtractionAssumption
    <3>2. CASE X!Fail(c)
      <4>1. errors' \in 0 .. MaxErrors
        BY <3>2 DEF X!Fail, ClientInv, X!ClientTypeOK, X!ExtractionAssumption
      <4> QED BY <3>2, <4>1 DEF X!Fail, ClientInv, X!ClientTypeOK, X!Phases
    <3> QED BY <1>1, <3>1, <3>2
  <2>2. \E w \in {"paid", "raised", "error"} : call' = [call EXCEPT ![c] = w]
    BY <1>1 DEF X!Reply, X!AuditFails, X!Fail
  <2>3. call[c] \in {"sent", "paid"} /\ spent' = spent
    BY <1>1 DEF X!Reply, X!AuditFails, X!Fail
  <2>4. Going(call') \subseteq Going(call) /\ spent \in Nat
    BY <2>2, <2>3 DEF Going, ClientInv, X!ClientTypeOK
  <2> QED BY <2>1, <2>3, <2>4, NoneBegun DEF ClientInv
<1>2. CASE X!Audit(c)
  <2>1. X!ClientTypeOK'
    BY <1>2 DEF X!Audit, ClientInv, X!ClientTypeOK, X!Phases, X!ExtractionAssumption
  <2>2. c \in Going(call) /\ Going(call') = Going(call) \ {c}
    BY <1>2 DEF X!Audit, Going, ClientInv, X!ClientTypeOK
  <2>3. bill[c] \in 0 .. MaxCost /\ spent' = spent + bill[c]
    BY <1>2 DEF X!Audit, ClientInv, X!ClientTypeOK
  <2> QED BY <2>1, <2>2, <2>3, OneCharged DEF ClientInv
<1> QED BY <1>1, <1>2 DEF X!Answer

(* Calls that are over are forgotten, a day ends, or the process does.     *)
LEMMA OverKept ==
  ASSUME X!ExtractionAssumption, ClientInv,
         spent' \in {0, spent}, errors' \in {0, errors}, bill' \in [X!Callers -> 0 .. MaxCost],
         call' \in [X!Callers -> X!Phases],
         \A c \in X!Callers : call'[c] \in {"idle", call[c]}
  PROVE  ClientInv'
<1>1. X!ClientTypeOK'
  BY DEF ClientInv, X!ClientTypeOK, X!ExtractionAssumption
<1>2. Going(call') \subseteq Going(call) /\ spent' <= spent /\ spent' \in Nat
  BY DEF Going, ClientInv, X!ClientTypeOK
<1> QED BY <1>1, <1>2, NoneBegun DEF ClientInv

LEMMA ExtractionStep ==
  ASSUME X!ExtractionAssumption, ClientInv, [X!Next]_X!vars
  PROVE  ClientInv'
<1> USE DEF X!client
<1>1. ASSUME NEW a \in Team, X!Batch(a) PROVE ClientInv'
  <2>1. \A d \in Docs \cup {Main} : <<a, d>> \in X!Callers
    BY DEF X!Callers
  <2>2. CASE X!LoadCached(a)
    BY <2>2, OverKept DEF X!LoadCached, ClientInv, X!ClientTypeOK
  <2>3. ASSUME NEW d \in Docs, X!AskExtract(a, d) PROVE ClientInv'
    BY <2>1, <2>3, AskKept DEF X!AskExtract
  <2>4. CASE X!Persist(a) \/ X!BatchRaises(a)
    BY <2>4, OverKept DEF X!Persist, X!BatchRaises, X!Forget, ClientInv, X!ClientTypeOK, X!Phases
  <2>5. CASE X!AskMain(a)
    BY <2>1, <2>5, AskKept DEF X!AskMain
  <2>6. CASE X!EndAnalysis(a)
    BY <2>1, <2>6, OverKept DEF X!EndAnalysis, X!Return, ClientInv, X!ClientTypeOK, X!Phases
  <2> QED BY <1>1, <2>2, <2>3, <2>4, <2>5, <2>6 DEF X!Batch
<1>2. ASSUME NEW c \in X!Callers, X!Progress(c) PROVE ClientInv'
  BY <1>2, AnswerKept DEF X!Progress
<1>3. CASE X!JevCalls
  <2>1. Jev \in X!Callers
    BY DEF X!Callers
  <2>2. CASE X!Return(Jev)
    BY <2>1, <2>2, OverKept DEF X!Return, ClientInv, X!ClientTypeOK, X!Phases
  <2> QED BY <1>3, <2>1, <2>2, AskKept DEF X!JevCalls
<1>4. CASE X!NewDay
  BY <1>4, OverKept DEF X!NewDay, X!Midnight, ClientInv, X!ClientTypeOK
<1>5. CASE X!Restart
  BY <1>5, OverKept DEF X!Restart, ClientInv, X!ClientTypeOK, X!Phases, X!ExtractionAssumption
<1>6. CASE UNCHANGED X!vars
  BY <1>6, OverKept DEF X!vars, ClientInv, X!ClientTypeOK
<1> QED BY <1>1, <1>2, <1>3, <1>4, <1>5, <1>6 DEF X!Next

LEMMA ExtractionStarts ==
  ASSUME X!ExtractionAssumption, X!Init PROVE ClientInv
<1>1. X!ClientTypeOK /\ spent = 0 /\ Going(call) = {}
  BY DEF X!Init, X!ClientInit, X!ClientTypeOK, X!Phases, X!ExtractionAssumption, Going
<1> DEFINE k == Cardinality(X!Callers)
<1>2. k \in Nat /\ Cardinality(Going(call)) = 0
  BY <1>1, GoingBounded, FS_EmptySet
<1>3. MaxCost * k \in Nat /\ SpendCap \in Nat \ {0} /\ MaxCost * 0 = 0
  BY <1>2 DEF X!ExtractionAssumption
<1>4. spent + MaxCost * 0 <= SpendCap - 1 + MaxCost * k
  BY <1>1, <1>3
<1> QED BY <1>1, <1>2, <1>4, BoundIs DEF ClientInv

(* However many analysts share the client, and however their calls, its    *)
(* failures, midnights and restarts interleave: what is recorded and what   *)
(* the calls under way may still add stays below the cap plus one call for  *)
(* each caller.                                                            *)
THEOREM OvershootHolds ==
  ASSUME X!ExtractionAssumption PROVE X!Spec => []OvershootBounded
<1>1. X!Init => ClientInv
  BY ExtractionStarts
<1>2. ClientInv /\ [X!Next]_X!vars => ClientInv'
  BY ExtractionStep
<1>3. ClientInv => OvershootBounded
  BY SameCardinality
  DEF ClientInv, OvershootBounded, UnderWay, X!OvershootBounded, X!UnderWay
<1> QED BY <1>1, <1>2, <1>3, PTL DEF X!Spec
=============================================================================
