----------------------------- MODULE Fetchers -----------------------------
(***************************************************************************)
(* What the fetchers make of the answers of their sources, and what of it  *)
(* the heartbeats, the backoff rows and so the watchdog get to see.  A     *)
(* cycle of the ingestion loop is one step: the calls it makes to a        *)
(* source, up to the one that ends them.                                   *)
(***************************************************************************)
EXTENDS Naturals, FiniteSets

CONSTANTS
  Sources,   \* fetchers of the ingestion loop, each with a heartbeat
  MaxSkip,   \* _MAX_SKIP_CYCLES
  Stale      \* stale_after_seconds of a fetcher, in cycles

VARIABLES
  dead,      \* how a source fails, "no" when it does not
  rows,      \* fetcher_rate_limits
  beat       \* cycles since last_success_at, up to Stale + 1

vars == <<dead, rows, beat>>

Loops == {Sources}
B == INSTANCE Backoff

(***************************************************************************)
(* Answers are articles, or none that match.  Instead of one there may be  *)
(* no such page, a quota or a rate exceeded, a block, another HTTP error,  *)
(* no connection in time, or a body that does not parse.                   *)
(***************************************************************************)
Answers == {"articles", "none"}
Refusals == {"404", "429", "403", "5xx", "timeout", "garbled"}
Replies == Answers \cup Refusals

(* fetch() raises the error the loop backs off for; every other failure is  *)
(* caught, logged, and an empty list.  A plain-text "too quickly" with      *)
(* status 200 is GDELT's other 429.                                         *)
GdeltLimits == {"429"}
GuardianLimits == {"429"}
NewsAPILimits == {"429"}
TavilyLimits == {"429", "403"}
TVArchiveLimits == {}
\* Mutant: the retired JSON fetcher's way, an error is an empty search.
RedditLimitsOld == {}
RedditLimits == Refusals \ {"404"}

Limits(s) ==
  CASE s = "gdelt" -> GdeltLimits
    [] s = "guardian" -> GuardianLimits
    [] s = "newsapi" -> NewsAPILimits
    [] s = "tavily" -> TavilyLimits
    [] s = "tv_archive" -> TVArchiveLimits
    [] s = "reddit" -> RedditLimits

Init ==
  /\ dead = [s \in Sources |-> "no"]
  /\ B!Init
  /\ beat = [s \in Sources |-> 0]

Dies(s, how) ==
  /\ dead[s] = "no"
  /\ dead' = [dead EXCEPT ![s] = how]
  /\ UNCHANGED <<rows, beat>>
Revives(s) ==
  /\ dead[s] # "no"
  /\ dead' = [dead EXCEPT ![s] = "no"]
  /\ UNCHANGED <<rows, beat>>

(* The answers to the calls of a cycle: a source that lives may fail, too.  *)
(* Two stand for all: what matters is whether any was a limit, and any not. *)
Few == {got \in SUBSET Replies : Cardinality(got) <= 2}
Given(s) == IF dead[s] = "no" THEN Few ELSE {{}, {dead[s]}}

(* A call that does not raise is a success, whatever came of it: it resets  *)
(* the backoff and is the cycle's heartbeat.  One that is limited is the    *)
(* last of the cycle.                                                      *)
After(row, got, s) ==
  LET succeeded == IF got \ Limits(s) = {} THEN row ELSE B!Default
  IN IF got \cap Limits(s) = {} THEN succeeded ELSE B!Trip(succeeded)

Calls(s) ==
  LET ticked == B!Tick(rows, {s})
  IN \E got \in IF B!Waiting(ticked[s]) THEN {{}} ELSE Given(s) :
       /\ rows' = [ticked EXCEPT ![s] = After(@, got, s)]
       /\ beat' = [beat EXCEPT ![s] = IF got \ Limits(s) # {} THEN 0
                                      ELSE IF @ > Stale THEN @ ELSE @ + 1]
       /\ UNCHANGED dead

Next == \E s \in Sources : \/ Calls(s) \/ Revives(s)
                           \/ \E how \in Refusals : Dies(s, how)
Spec == Init /\ [][Next]_vars
\* the loop catches what a cycle raises, and runs the next one
FairSpec == Spec /\ \A s \in Sources : WF_vars(Calls(s))

(***************************************************************************)
(* Properties.                                                             *)
(***************************************************************************)
Shows(s) == beat[s] > Stale

(* An outage of Reddit's shows, whatever its kind, as one of another source *)
(* does that is out of quota: its heartbeat goes stale and stays so, though *)
(* calls are still made when the backoff allows.                           *)
OutageShows ==
  \A s \in Sources : \A how \in IF s = "reddit" THEN Refusals \ {"404"} ELSE {"429"} :
    <>[](dead[s] = how) => <>[]Shows(s)

(* Claim: "a dead source surfaces as stale within a day".                   *)
DeadSourceShows ==
  \A s \in Sources : \A how \in Refusals : <>[](dead[s] = how) => <>[]Shows(s)
=============================================================================
