----------------------------- MODULE Assessment -----------------------------
(***************************************************************************)
(* assess_signal_context (metrics/assessment.py): before an entry, a model *)
(* judges how far the strategy's sizing is to be trusted, and the order is *)
(* scaled by its answer.  It is asked only when there is history to judge  *)
(* by.  A price_moved clone has no documents of its own; without history   *)
(* it takes over an earlier judgment of the same evidence.  Any failure is *)
(* a neutral assessment: the entry is never held up.                       *)
(***************************************************************************)
EXTENDS Naturals, Sequences, FiniteSets, FiniteSetsExt

CONSTANTS Markets,
          Evidence,     \* retrieval hashes: sets of documents
          MaxSignals    \* bound: signals written

VARIABLES signals,      \* in order: [market, evidence, clone]
          rows,         \* signal_assessments, oldest first
          scored,       \* sources have quality scores (the nightly job ran)
          settled       \* markets of the series have resolved: "similar markets"

vars == <<signals, rows, scored, settled>>

(* The model's answers that matter: the size in percent and the verdict.   *)
(* A trust score of 0.45 to 0.55 scales the order a little and is called   *)
(* neutral.                                                                *)
Judgments == { [size |-> 80, verdict |-> "size_down"], [size |-> 98, verdict |-> "neutral"],
               [size |-> 100, verdict |-> "neutral"], [size |-> 120, verdict |-> "size_up"] }
Neutral == [size |-> 100, verdict |-> "neutral"]

Init == /\ signals = <<>>
        /\ rows = <<>>
        /\ scored \in BOOLEAN
        /\ settled \in [Markets -> BOOLEAN]

(* The pipeline writes a signal: from documents, or a clone of the         *)
(* market's last one when only the price moved.                            *)
Analyze(m, e) ==
  /\ Len(signals) < MaxSignals
  /\ signals' = Append(signals, [market |-> m, evidence |-> e, clone |-> FALSE])
  /\ UNCHANGED <<rows, scored, settled>>

OfMarket(m) == { i \in DOMAIN signals : signals[i].market = m }

Clone(m) ==
  /\ Len(signals) < MaxSignals
  /\ OfMarket(m) # {}
  /\ signals' = Append(signals, [signals[Max(OfMarket(m))] EXCEPT !.clone = TRUE])
  /\ UNCHANGED <<rows, scored, settled>>

NightlyJob == /\ ~scored
              /\ scored' = TRUE
              /\ UNCHANGED <<signals, rows, settled>>

Resolves(m) == /\ ~settled[m]
               /\ settled' = [settled EXCEPT ![m] = TRUE]
               /\ UNCHANGED <<signals, rows, scored>>

-----------------------------------------------------------------------------

Assessed(i) == \E k \in DOMAIN rows : rows[k].signal = i

(* The signal the order manager submits: the market's newest. *)
Current(i) == /\ i = Max(OfMarket(signals[i].market))
              /\ ~Assessed(i)

(* _load_source_breakdown, _load_similar_market_summary: a clone has no    *)
(* document links, so its sources are empty.                               *)
HasHistory(i) == (scored /\ ~signals[i].clone) \/ settled[signals[i].market]

Row(i, j, judged) ==
  [signal |-> i, size |-> j.size, verdict |-> j.verdict, judged |-> judged]

(* _load_prior_assessment_by_hash: the newest assessment of this evidence  *)
(* in this market with a verdict.  Mutant: in any market.                  *)
PriorAnyMarket(i) ==
  { k \in DOMAIN rows : /\ signals[rows[k].signal].evidence = signals[i].evidence
                        /\ rows[k].signal # i
                        /\ rows[k].verdict # "neutral" }
Prior(i) ==
  { k \in DOMAIN rows : /\ signals[rows[k].signal].market = signals[i].market
                        /\ signals[rows[k].signal].evidence = signals[i].evidence
                        /\ rows[k].signal # i
                        /\ rows[k].verdict # "neutral" }

Add(row) == /\ rows' = Append(rows, row)
            /\ UNCHANGED <<signals, scored, settled>>

Judge(i) == /\ Current(i)
            /\ HasHistory(i)
            /\ \E j \in Judgments : Add(Row(i, j, TRUE))

(* The call fails, or its answer has no trust score. *)
FallBack(i) == /\ Current(i)
               /\ HasHistory(i)
               /\ Add(Row(i, Neutral, FALSE))

CarryForward(i) == /\ Current(i)
                   /\ ~HasHistory(i)
                   /\ signals[i].clone
                   /\ Prior(i) # {}
                   /\ Add(Row(i, rows[Max(Prior(i))], FALSE))

Skip(i) == /\ Current(i)
           /\ ~HasHistory(i)
           /\ ~(signals[i].clone /\ Prior(i) # {})
           /\ Add(Row(i, Neutral, FALSE))

Assess(i) == Judge(i) \/ FallBack(i) \/ CarryForward(i) \/ Skip(i)

Next == \/ \E m \in Markets, e \in Evidence : Analyze(m, e)
        \/ \E m \in Markets : Clone(m) \/ Resolves(m)
        \/ NightlyJob
        \/ \E i \in DOMAIN signals : Assess(i)

Spec == Init /\ [][Next]_vars

-----------------------------------------------------------------------------

(* An order is scaled only by a judgment the model made of the same        *)
(* market on the same evidence, however many clones lie between the two.   *)
ScaledByItsEvidence ==
  \A k \in DOMAIN rows : rows[k].size # 100 =>
    \E n \in 1..k : /\ rows[n].judged
                    /\ rows[n].size = rows[k].size
                    /\ signals[rows[n].signal].market = signals[rows[k].signal].market
                    /\ signals[rows[n].signal].evidence = signals[rows[k].signal].evidence

(* assessment.py:945: a clone is to "carry forward the original signal's   *)
(* sizing decision rather than defaulting to neutral (1.0), which would    *)
(* undo any assessment-driven size reduction".  An original called neutral *)
(* is passed over, for an older verdict on the same evidence or for 1.0;   *)
(* and where markets of the series have settled the clone is judged anew.  *)
OriginalCarried ==
  \A k \in DOMAIN rows :
    LET i == rows[k].signal
        earlier == { n \in 1..(k - 1) :
                       /\ rows[n].judged
                       /\ signals[rows[n].signal].market = signals[i].market
                       /\ signals[rows[n].signal].evidence = signals[i].evidence }
    IN signals[i].clone /\ ~rows[k].judged /\ earlier # {}
         => rows[k].size = rows[Max(earlier)].size
=============================================================================
