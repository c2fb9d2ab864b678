------------------------------- MODULE Upkeep -------------------------------
(***************************************************************************)
(* The daily chores of the process: the four refresh jobs that share one   *)
(* database session, the digest, and the changelog monitor, on wall clocks *)
(* and timers that restarts and clock changes disturb.                     *)
(***************************************************************************)
EXTENDS Integers, Sequences, FiniteSets

CONSTANTS Day,          \* hours of a day
          DigestHour,   \* digest_time, the refresh time too; 2 .. Day - 1
          Changes,      \* clock changes that may come: "none", "forward", "back"
          MaxTrouble    \* bound: failures and restarts

Jobs == <<"source_quality", "edge_bands", "series_history", "candles">>
JobNames == {Jobs[i] : i \in DOMAIN Jobs}
\* those that ask the exchange
Remote == {"series_history", "candles"}

VARIABLES
  hour,       \* the wall clock, in the configured zone
  change,     \* the clock change still to come
  digestIn, refreshIn, checkIn,     \* hours until each loop wakes
  digests,    \* digests sent on this day
  checkAge,   \* hours since kalshi_changelog_state.last_checked_at, up to a bound
  checkFailed,\* the last check failed
  at,         \* the job the refresh is at, 0 when it sleeps
  aborted,    \* the session's transaction failed
  unsaved,    \* the jobs whose rows wait for a commit
  saved,      \* the jobs whose rows of this day are in the database
  beat,       \* the last heartbeat of each job on this day
  failed,     \* the jobs that failed of themselves in the last refresh
  dbFailed,   \* one of them in the database
  trouble

vars == <<hour, change, digestIn, refreshIn, checkIn, digests, checkAge,
          checkFailed, at, aborted, unsaved, saved, beat, failed, dbFailed, trouble>>
clock == <<hour, change>>
digest == <<digestIn, digests>>
changelog == <<checkIn, checkAge, checkFailed>>
session == <<aborted, unsaved, saved, beat, failed, dbFailed>>

\* _seconds_until_next: the difference of two times of one zone, which counts
\* wall-clock hours
UntilNext(h) == IF DigestHour > h THEN DigestHour - h ELSE DigestHour + Day - h

Asleep == at = 0
NoBeat == [j \in JobNames |-> "none"]

Init ==
  /\ hour \in 0..(Day - 1) /\ change \in Changes
  /\ digestIn = UntilNext(hour) /\ refreshIn = UntilNext(hour)
  /\ checkIn = 0 /\ checkAge = 2 * Day /\ checkFailed = FALSE
  /\ digests = 0
  /\ at = 1
  /\ aborted = FALSE /\ unsaved = {} /\ saved = {} /\ beat = NoBeat
  /\ failed = {} /\ dbFailed = FALSE
  /\ trouble = 0

(***************************************************************************)
(* Time.  A clock change comes in the first hour of a day.                 *)
(***************************************************************************)
NextHour ==
  CASE hour = 0 /\ change = "forward" -> 2
    [] hour = 0 /\ change = "back" -> 0
    [] OTHER -> (hour + 1) % Day

Hour ==
  /\ Asleep /\ digestIn > 0 /\ refreshIn > 0 /\ checkIn > 0
  /\ hour' = NextHour
  /\ change' = IF hour = 0 THEN "none" ELSE change
  /\ digestIn' = digestIn - 1 /\ refreshIn' = refreshIn - 1 /\ checkIn' = checkIn - 1
  /\ checkAge' = IF checkAge < 3 * Day THEN checkAge + 1 ELSE checkAge
  /\ IF hour' = 0 /\ hour # 0
     THEN digests' = 0 /\ saved' = {} /\ beat' = NoBeat
     ELSE UNCHANGED <<digests, saved, beat>>
  /\ UNCHANGED <<checkFailed, at, aborted, unsaved, failed, dbFailed, trouble>>

(***************************************************************************)
(* run_digest_scheduler.                                                   *)
(***************************************************************************)
Digest ==
  /\ digestIn = 0
  /\ \/ digests' = digests + 1 /\ UNCHANGED trouble
     \/ trouble < MaxTrouble /\ trouble' = trouble + 1 /\ UNCHANGED digests
  /\ digestIn' = UntilNext(hour)
  /\ UNCHANGED <<clock, refreshIn, changelog, at, session>>

(***************************************************************************)
(* run_changelog_monitor: a failed check leaves last_checked_at alone.     *)
(***************************************************************************)
Check ==
  /\ checkIn = 0
  /\ \/ checkAge' = 0 /\ checkFailed' = FALSE /\ UNCHANGED trouble
     \/ trouble < MaxTrouble /\ trouble' = trouble + 1
        /\ checkFailed' = TRUE /\ UNCHANGED checkAge
  /\ checkIn' = Day
  /\ UNCHANGED <<clock, digest, refreshIn, at, session>>

(***************************************************************************)
(* run_source_quality_scheduler._run_refresh.                              *)
(***************************************************************************)
Job == Jobs[at]
\* today's snapshot is there: the two score jobs write nothing, and succeed
Due == Job \notin saved \cup unsaved

Wakes ==
  /\ Asleep /\ refreshIn = 0
  /\ at' = 1
  /\ failed' = {} /\ dbFailed' = FALSE
  /\ UNCHANGED <<clock, digest, refreshIn, changelog, aborted, unsaved, saved, beat, trouble>>

Beats(result) == beat' = [beat EXCEPT ![Job] = result]
Goes == at' = at + 1 /\ UNCHANGED <<clock, digest, refreshIn, changelog>>

\* the candle refresh commits the session it shares after each chunk
Written == IF Job = "candles"
           THEN saved' = saved \cup unsaved \cup {Job} /\ unsaved' = {}
           ELSE /\ unsaved' = IF Due THEN unsaved \cup {Job} ELSE unsaved
                /\ UNCHANGED saved
JobSucceeds ==
  /\ at \in DOMAIN Jobs /\ ~aborted
  /\ Written
  /\ Beats("ok")
  /\ Goes /\ UNCHANGED <<aborted, failed, dbFailed, trouble>>

\* a request fails: the session is as it was, or committed up to a chunk
RequestFails ==
  /\ at \in DOMAIN Jobs /\ Job \in Remote /\ ~aborted /\ trouble < MaxTrouble
  /\ trouble' = trouble + 1
  /\ \/ UNCHANGED <<saved, unsaved>>
     \/ Job = "candles" /\ saved' = saved \cup unsaved /\ unsaved' = {}
  /\ Beats("error") /\ failed' = failed \cup {Job}
  /\ Goes /\ UNCHANGED <<aborted, dbFailed>>

\* a statement fails, and with it the transaction: nothing rolls it back
StatementFails ==
  /\ at \in DOMAIN Jobs /\ ~aborted /\ trouble < MaxTrouble
  /\ trouble' = trouble + 1
  /\ aborted' = TRUE /\ dbFailed' = TRUE
  /\ Beats("error") /\ failed' = failed \cup {Job}
  /\ Goes /\ UNCHANGED <<saved, unsaved>>

\* every later statement of the session fails too
JobBlocked ==
  /\ at \in DOMAIN Jobs /\ aborted
  /\ Beats("error")
  /\ Goes /\ UNCHANGED <<aborted, unsaved, saved, failed, dbFailed, trouble>>

\* Mutant: an error of a job is raised before the commit.
KeptIfAllWell == IF aborted \/ failed # {} THEN {} ELSE unsaved
\* the commit at the end, whatever the jobs raised
Kept == IF aborted THEN {} ELSE unsaved

Commits ==
  /\ at = Len(Jobs) + 1
  /\ saved' = saved \cup Kept
  /\ unsaved' = {} /\ aborted' = FALSE
  /\ at' = 0 /\ refreshIn' = UntilNext(hour)
  /\ UNCHANGED <<clock, digest, changelog, beat, failed, dbFailed, trouble>>

(* A restart: every loop computes its wait anew; the refresh runs at once, *)
(* the changelog check if it is overdue.                                   *)
FirstCheckIn == IF checkAge >= Day THEN 0 ELSE Day

Restart ==
  /\ trouble < MaxTrouble /\ trouble' = trouble + 1
  /\ digestIn' = UntilNext(hour) /\ refreshIn' = UntilNext(hour)
  /\ checkIn' = FirstCheckIn
  /\ at' = 1 /\ aborted' = FALSE /\ unsaved' = {}
  /\ failed' = {} /\ dbFailed' = FALSE
  /\ UNCHANGED <<clock, digests, checkAge, checkFailed, saved, beat>>

Next == \/ Hour \/ Digest \/ Check \/ Wakes \/ JobSucceeds \/ RequestFails
        \/ StatementFails \/ JobBlocked \/ Commits \/ Restart
Spec == Init /\ [][Next]_vars

(***************************************************************************)
(* Properties.                                                             *)
(***************************************************************************)
TypeOK ==
  /\ hour \in 0..(Day - 1) /\ at \in 0..(Len(Jobs) + 1)
  /\ unsaved \subseteq JobNames /\ saved \subseteq JobNames
  /\ digestIn \in 0..(2 * Day) /\ refreshIn \in 0..(2 * Day) /\ checkIn \in 0..Day

\* run_digest_scheduler "Fires once per day": not twice, whatever restarts come
\* around the hour, however often a day has no digest because one failed.  It
\* holds until an hour is repeated.
DigestOncePerDay == digests <= 1

\* As long as the database does its part, a heartbeat tells the truth: the rows
\* of a job that reported success are there when the refresh is over, although
\* the success is reported before the commit, in a session of its own, and
\* another job may have failed in between.
BeatIsSaved ==
  (Asleep /\ ~dbFailed) => \A j \in JobNames: beat[j] = "ok" => j \in saved

\* The changelog is looked at within two days, however restarts fall: a new
\* process that finds the last check recent waits a whole interval, but never
\* twice in a row.
ChangelogWatched == checkAge > 2 * Day => checkFailed

\* Claim: "one failing job never masks or blocks the others".  A failed
\* statement blocks every later job of the session, and undoes the rows of the
\* earlier ones after their heartbeats.
JobsIndependent ==
  Asleep => \A j \in JobNames: /\ beat[j] = "error" => j \in failed
                               /\ beat[j] = "ok" => j \in saved
=============================================================================
