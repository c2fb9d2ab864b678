--------------------------- MODULE AssessorInputs ---------------------------
(***************************************************************************)
(* The statistics the trade assessor is shown (metrics/calibration.py and  *)
(* metrics/assessment.py): how signals of this edge and side have done,    *)
(* from the nightly table of cells; how this market's signals developed,   *)
(* as a sample of its history; and how the sources of its documents have   *)
(* done, each signal's loss shared out among its documents.                *)
(*                                                                         *)
(* They are functions of the tables, so a state is a table's contents:     *)
(* one of the three, the other two empty.                                  *)
(***************************************************************************)
EXTENDS FiniteSets, FiniteSetsExt, Functions, Integers, Sequences, SequencesExt

CONSTANTS MaxLog,       \* bound: resolved signals
          MinSamples,   \* MIN_EDGE_CALIBRATION_SAMPLES
          MaxHistory,   \* bound: prior signals of a market
          MaxPoints,    \* _MAX_HISTORY_POINTS
          MaxTime,      \* bound: their creation times
          MaxUses       \* bound: signals with documents

(* Assumed by MCReviews. *)
PointsAssumption == MaxPoints \in Nat /\ MaxPoints >= 3 /\ MinSamples \in Nat

VARIABLES log,          \* the resolved signals, with their edge's band
          history,      \* a market's signals before the one being assessed
          uses          \* per signal: loss, and documents of each source

vars == <<log, history, uses>>

Bands == {"small", "large"}
Sides == {"YES", "NO"}
Versions == {"v1", "v2"}
Series == {"s1", "s2"}
Sources == {"a", "b"}

Resolved == [band : Bands, side : Sides, version : Versions, series : Series]
Points == [at : 0..MaxTime, side : Sides \cup {"SKIP"}]
Uses == [loss : 0..2, docs : [Sources -> 0..2]]

InOrder(h) == \A i, j \in 1..Len(h) : i <= j => h[i].at <= h[j].at

Init == \/ /\ log \in BoundedSeq(Resolved, MaxLog) /\ log # <<>>
           /\ history = <<>> /\ uses = <<>>
        \/ /\ history \in BoundedSeq(Points, MaxHistory)
           /\ InOrder(history)
           /\ log = <<>> /\ uses = <<>>
        \/ /\ uses \in BoundedSeq(Uses, MaxUses)
           /\ log = <<>> /\ history = <<>>

Next == UNCHANGED vars
Spec == Init /\ [][Next]_vars

-----------------------------------------------------------------------------
(* The cells: refresh_edge_calibration_scores.                             *)

Everywhere == "all series"
Rollup == "all versions"

\* The signals of a cell; a scope or version that is not one signal's is all.
Members(band, side, scope, version) ==
  { i \in DOMAIN log : /\ log[i].band = band
                       /\ log[i].side = side
                       /\ scope \in {Everywhere, log[i].series}
                       /\ version \in {Rollup, log[i].version} }

(* A version's cell too thin to be shown is not written. *)
Cell(band, side, scope, version) ==
  LET n == Cardinality(Members(band, side, scope, version))
  IN IF version # Rollup /\ n < MinSamples THEN 0 ELSE n

-----------------------------------------------------------------------------
(* What is read back: _load_edge_band_calibration.                         *)

(* _latest: the signal's own version where its cell is thick enough. *)
Cohort(s, side, scope) ==
  IF Cell(s.band, side, scope, s.version) >= MinSamples THEN s.version ELSE Rollup

Thick(s, scope) == Cell(s.band, s.side, scope, Cohort(s, s.side, scope)) >= MinSamples

Shown(s) == Thick(s, Everywhere)
Scope(s) == IF Thick(s, s.series) THEN s.series ELSE Everywhere

SameDirection(s) == Cell(s.band, s.side, Scope(s), Cohort(s, s.side, Scope(s)))

(* Every band of the side, in the chosen cell's cohort.                    *)
AllBands(s) ==
  SumFunction([b \in Bands |-> Cell(b, s.side, Scope(s), Cohort(s, s.side, Scope(s)))])

-----------------------------------------------------------------------------
(* The history: _bucketed_history_sample.                                  *)

Changes(h) == Cardinality({ i \in 1..(Len(h) - 1) : h[i].side # h[i + 1].side })

(* A point: one signal shown, standing for the signals from..to. *)
Verbatim(i) == [shown |-> i, covers |-> {i}, changes |-> 0]

Latest == Len(history)
Span == history[Latest].at - history[1].at

(* Which of the equal stretches of time signal i falls in.                 *)
Bucket(i) ==
  LET b == ((history[i].at - history[1].at) * (MaxPoints - 2)) \div Span
  IN IF b < MaxPoints - 2 THEN b ELSE MaxPoints - 3

BucketPoint(b) ==
  LET in == { i \in 2..(Latest - 1) : Bucket(i) = b }
  IN [shown |-> Max(in), covers |-> in,
      changes |-> Changes(SubSeq(history, Min(in), Max(in)))]

Sample ==
  IF Latest <= MaxPoints THEN { Verbatim(i) : i \in 1..Latest }
  ELSE IF Span = 0 THEN { Verbatim(i) : i \in 1..(MaxPoints - 1) \cup {Latest} }
  ELSE {Verbatim(1), Verbatim(Latest)}
       \cup { BucketPoint(b) : b \in { Bucket(i) : i \in 2..(Latest - 1) } }

-----------------------------------------------------------------------------
(* The sources: compute_source_brier_scores.  Shares are in twelfths.      *)

Documents(u) == SumFunction(u.docs)

Share(u, s) == IF Documents(u) = 0 THEN 0 ELSE (12 * u.docs[s]) \div Documents(u)

Error(s) == SumFunction([i \in DOMAIN uses |-> uses[i].loss * Share(uses[i], s)])
Shares(s) == SumFunction([i \in DOMAIN uses |-> Share(uses[i], s)])

-----------------------------------------------------------------------------

(* No signal counts twice in what the assessor is shown, whichever cohort  *)
(* and scope it is taken from: all bands of a side hold no more signals    *)
(* than there are, and no fewer than the signal's own band                 *)
(* (assessment.py:553, "the merge would double-count them").               *)
CountedOnce ==
  \A i \in DOMAIN log :
    LET s == log[i]
    IN Shown(s) =>
         /\ SameDirection(s) >= MinSamples
         /\ AllBands(s) >= SameDirection(s)
         /\ AllBands(s) <= Cardinality({ j \in DOMAIN log :
                             log[j].side = s.side /\ Scope(s) \in {Everywhere, log[j].series} })

(* The sampled history fits its cap and hides nothing: it begins with the  *)
(* first signal, ends with the last, accounts for every one, and a market  *)
(* whose points all face one way with no change counted never faced        *)
(* another ("direction oscillation cannot hide between points",            *)
(* assessment.py:614).                                                     *)
HistoryTold ==
  history # <<>> =>
    /\ Cardinality(Sample) <= MaxPoints
    /\ {Verbatim(1), Verbatim(Latest)} \subseteq Sample
    /\ Span > 0 =>
         /\ UNION { p.covers : p \in Sample } = 1..Latest
         /\ (\A p, q \in Sample : p.changes = 0 /\ history[p.shown].side = history[q.shown].side)
              => Changes(history) = 0

(* The loss shared out among the sources is the loss of the signals that   *)
(* had documents, no more and no less: no source is charged for another's  *)
(* share, and a signal with many documents weighs as one with few.         *)
LossSharedOut ==
  LET with == { i \in DOMAIN uses : Documents(uses[i]) > 0 }
  IN /\ SumFunction([s \in Sources |-> Shares(s)]) = 12 * Cardinality(with)
     /\ SumFunction([s \in Sources |-> Error(s)]) = SumFunction([i \in with |-> 12 * uses[i].loss])

-----------------------------------------------------------------------------
(* What the sources say and the tables refute.                             *)

(* assessment.py:585: "All figures are drawn from the cohort named in      *)
(* cohort_prompt_version".  The other direction chooses its own cohort,    *)
(* and all_directions merges the two.                                      *)
OneCohort ==
  \A i \in DOMAIN log :
    LET s == log[i]
        other == CHOOSE d \in Sides : d # s.side
    IN Shown(s) => Cohort(s, other, Scope(s)) = Cohort(s, s.side, Scope(s))

(* assessment.py:582: "this_direction_all_bands aggregates every band for  *)
(* this signal's traded direction".  A cohort's thin bands were not        *)
(* written.                                                                *)
EveryBandIn ==
  \A i \in DOMAIN log :
    LET s == log[i]
        c == Cohort(s, s.side, Scope(s))
    IN Shown(s) => AllBands(s) =
         SumFunction([b \in Bands |-> Cardinality(Members(b, s.side, Scope(s), c))])
=============================================================================
