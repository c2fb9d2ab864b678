---------------------------- MODULE PhraseCounts ----------------------------
(***************************************************************************)
(* The phrase counts a market about spoken words is traded with            *)
(* (ingestion/fetchers/factbase.py): a row per market, refreshed when it   *)
(* is a day old, and the in-process set of markets that have one, which    *)
(* the strategy reads before it wants a market.  A cycle works through     *)
(* what it loaded when it began, one market at a time, each saved in a     *)
(* session of its own.                                                     *)
(***************************************************************************)
EXTENDS Naturals, FiniteSets

CONSTANTS
  Markets,   \* markets of the series allowlist
  Refresh,   \* _SCHEDULER_REFRESH_HOURS, in cycles
  Asks,      \* bound: questions put to the model that are counted, per market
  Failures   \* bound: cycles that raise, restarts

None == 99

VARIABLES
  listed,    \* markets with status "active"
  up,        \* the phrase API answers
  row,       \* factbase_phrase_frequency: age and what the counts are
  ready,     \* FactbasePhraseCache
  todo,      \* the markets of the cycle that are left, None between cycles
  terms,     \* the market whose terms are known and counts are fetched
  asked,     \* how often the model was asked for a market's terms
  failures

vars == <<listed, up, row, ready, todo, terms, asked, failures>>
world == <<listed, up>>

NoRow == [age |-> None, counts |-> "none"]
HasRow(m) == row[m] # NoRow

Init ==
  /\ listed \in SUBSET Markets /\ up = TRUE
  /\ row = [m \in Markets |-> NoRow]
  /\ ready = {}
  /\ todo = {None} /\ terms = None
  /\ asked = [m \in Markets |-> 0] /\ failures = 0

(* The rows grow older from cycle to cycle, those of markets that are not   *)
(* listed, too.                                                            *)
Aged == [m \in Markets |->
           IF HasRow(m) /\ row[m].age < Refresh THEN [row[m] EXCEPT !.age = @ + 1] ELSE row[m]]

Begin ==
  /\ todo = {None}
  /\ row' = Aged /\ todo' = listed
  /\ UNCHANGED <<world, ready, terms, asked, failures>>

Fresh(m) == HasRow(m) /\ row[m].age < Refresh

At(m) == todo # {None} /\ m \in todo /\ terms = None

(* Case A: the row is fresh. *)
MarkReady(m) ==
  /\ At(m) /\ Fresh(m)
  /\ ready' = ready \cup {m} /\ todo' = todo \ {m}
  /\ UNCHANGED <<world, row, terms, asked, failures>>

(* Case B: the query of the stale row is used again. *)
ReuseTerms(m) ==
  /\ At(m) /\ HasRow(m) /\ ~Fresh(m)
  /\ terms' = m
  /\ UNCHANGED <<world, row, ready, todo, asked, failures>>

(* Case C: the model is asked.  It names terms, or finds none, or fails:    *)
(* the market is left until the next cycle, which asks again.              *)
ExtractTerms(m) ==
  /\ At(m) /\ ~HasRow(m)
  /\ asked' = [asked EXCEPT ![m] = IF @ < Asks THEN @ + 1 ELSE @]
  /\ \/ terms' = m /\ UNCHANGED todo
     \/ terms' = None /\ todo' = todo \ {m}
  /\ UNCHANGED <<world, row, ready, failures>>

(* fetch_phrase_frequency never raises: what came before an error counts,   *)
(* and is saved over what was there.                                       *)
Fetched == IF up THEN "right" ELSE "short"
Saved == /\ row' = [row EXCEPT ![terms] = [age |-> 0, counts |-> Fetched]]
         /\ ready' = ready \cup {terms}
         /\ todo' = todo \ {terms} /\ terms' = None

SaveCounts ==
  /\ terms # None
  /\ Saved
  /\ UNCHANGED <<world, asked, failures>>

End ==
  /\ todo = {}
  /\ todo' = {None}
  /\ UNCHANGED <<world, row, ready, terms, asked, failures>>

(* The save raises: the cycle is over, for the later markets, too.         *)
Raise ==
  /\ todo # {None} /\ failures < Failures
  /\ failures' = failures + 1
  /\ todo' = {None} /\ terms' = None
  /\ UNCHANGED <<world, row, ready, asked>>

(* A new process warms its set from the rows it finds. *)
Restart ==
  /\ failures < Failures /\ failures' = failures + 1
  /\ ready' = {m \in Markets : HasRow(m)}
  /\ todo' = {None} /\ terms' = None
  /\ UNCHANGED <<world, row, asked>>

Turns(m) == /\ listed' = IF m \in listed THEN listed \ {m} ELSE listed \cup {m}
            /\ UNCHANGED <<up, row, ready, todo, terms, asked, failures>>
Outage == /\ up' = ~up
          /\ UNCHANGED <<listed, row, ready, todo, terms, asked, failures>>

Step == \/ Begin \/ SaveCounts \/ End
        \/ \E m \in Markets : MarkReady(m) \/ ReuseTerms(m) \/ ExtractTerms(m)
Next == Step \/ Raise \/ Restart \/ Outage \/ \E m \in Markets : Turns(m)
Spec == Init /\ [][Next]_vars
\* the scheduler catches what a cycle raises
FairSpec == Spec /\ WF_vars(Step)

(***************************************************************************)
(* Properties.                                                             *)
(***************************************************************************)
(* A market is let through to the strategy only with a row behind it, in    *)
(* this process and in the next: the save comes first.                     *)
ReadyHasCounts == \A m \in ready : HasRow(m)

(* Short counts of an outage, saved over good ones as if they were new, are *)
(* put right a day after the API is back, whoever failed in between.       *)
CountsRecover ==
  \A m \in Markets :
    <>[](up /\ m \in listed /\ HasRow(m)) => <>[](row[m].counts = "right")

(* Claim: "Haiku is called at most once per market lifetime".               *)
HaikuOnce == \A m \in Markets : asked[m] <= 1
=============================================================================
