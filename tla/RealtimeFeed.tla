---------------------------- MODULE RealtimeFeed ----------------------------
(***************************************************************************)
(* One followed account of the realtime loop                               *)
(* (ingestion/realtime_scheduler.py): its posts, its cursor and the backoff*)
(* of its service.  A cycle works in one database session from its start to*)
(* its end; what the session has written and not committed is kept in      *)
(* `feed` and is lost when the cycle raises.  record_rate_limit and        *)
(* record_success commit the session early.  The main loop's services are  *)
(* in the table too and move as module Backoff allows.                     *)
(***************************************************************************)
EXTENDS Integers, FiniteSets

CONSTANTS
  Feed,            \* the service of this loop (truthsocial)
  Others,          \* the services of the main loop
  MaxSkip,         \* _MAX_SKIP_CYCLES
  Posts,           \* what the account publishes
  Failures         \* bound: cycles that raise and logins that are refused

Loops == {{Feed}, Others}
Count == Cardinality(Posts)
Never == -1                                  \* no cursor yet
Times == 0 .. Count                          \* a publication is a tick
Unpublished == Count + 1

VARIABLES
  rows,            \* fetcher_rate_limits
  cursor,          \* fetcher_cursors of the account
  stored,          \* posts in the document store
  feed,            \* the cycle and its session
  pub,             \* post -> when it was published
  failures,        \* how many of Failures have happened
  trips, ticks,    \* history: refusals in a row; cycles begun since the last
  missed           \* history: posts an answer left out or an insert failed for

vars == <<rows, cursor, stored, feed, pub, failures, trips, ticks, missed>>
history == <<failures, trips, ticks, missed>>

B == INSTANCE Backoff

Idle == [pc |-> "idle", now |-> 0, row |-> B!Default, ticked |-> FALSE,
         cursor |-> Never, answer |-> {}, stored |-> {}]

Published == {p \in Posts : pub[p] # Unpublished}
Now == Cardinality(Published)

TypeOK ==
  /\ rows \in [B!Services -> B!Row]
  /\ cursor \in Times \cup {Never}
  /\ stored \subseteq Posts
  /\ feed \in [pc : {"idle", "fetch", "store", "end"}, now : Times, row : B!Row,
               ticked : BOOLEAN, cursor : Times \cup {Never},
               answer : SUBSET Posts, stored : SUBSET Posts]
  /\ pub \in [Posts -> 1 .. Unpublished]
  /\ failures \in 0 .. Failures
  /\ trips \in 0 .. Failures /\ ticks \in 0 .. MaxSkip
  /\ missed \subseteq Posts

Init ==
  /\ B!Init
  /\ cursor = Never /\ stored = {} /\ feed = Idle
  /\ pub = [p \in Posts |-> Unpublished]
  /\ failures = 0 /\ trips = 0 /\ ticks = 0 /\ missed = {}

-----------------------------------------------------------------------------
(* The session's writes become the database's.  A tick is history once it  *)
(* is committed; past MaxSkip its number no longer matters.                *)
Commit(session) ==
  /\ rows' = [rows EXCEPT ![Feed] = session.row]
  /\ cursor' = session.cursor
  /\ stored' = session.stored
  /\ feed' = [session EXCEPT !.ticked = FALSE]

CountTick ==
  ticks' = IF feed.ticked THEN B!Min({ticks + 1, MaxSkip}) ELSE ticks

(* tick_and_load: a waiting service's feeds are left out of the cycle.     *)
Ticked == B!Tick(rows, {Feed})[Feed]
SkipsNone(row) == FALSE
Skips(row) == B!Waiting(row)

Begin ==
  LET row == Ticked
  IN /\ feed.pc = "idle"
     /\ feed' = [pc |-> IF Skips(row) THEN "end" ELSE "fetch", now |-> Now,
                 row |-> row, ticked |-> TRUE, cursor |-> cursor,
                 answer |-> {}, stored |-> stored]
     /\ UNCHANGED <<rows, cursor, stored, pub, history>>

(* fetch_account: the posts since the cursor.  Every error but a refused   *)
(* login is turned into an answer without posts.                           *)
Fetch ==
  LET fresh == {p \in Published : pub[p] > feed.cursor}
  IN /\ feed.pc = "fetch"
     /\ \E answer \in {fresh, {}} :
          /\ feed' = [feed EXCEPT !.pc = "store", !.answer = answer]
          /\ missed' = missed \cup (fresh \ answer)
     /\ UNCHANGED <<rows, cursor, stored, pub, failures, trips, ticks>>

(* Each post is stored in a savepoint of its own, whose failure is only    *)
(* logged; then the cursor moves to the start of the cycle and the backoff *)
(* is cleared, which commits when there was any.                           *)
CursorAtEnd == Now
NextCursor == feed.now

Store ==
  /\ feed.pc = "store"
  /\ \E inserted \in SUBSET feed.answer :
       LET written == [feed EXCEPT !.pc = "end", !.cursor = NextCursor,
                                   !.answer = {}, !.stored = @ \cup inserted]
       IN /\ missed' = missed \cup (feed.answer \ inserted)
          /\ IF feed.row = B!Default
               THEN /\ feed' = written
                    /\ UNCHANGED <<rows, cursor, stored, ticks>>
               ELSE /\ Commit([written EXCEPT !.row = B!Default])
                    /\ CountTick
  /\ trips' = 0
  /\ UNCHANGED <<pub, failures>>

(* A refused login is recorded as a rate limit; the account's fetch ends.  *)
LoginRefused ==
  /\ feed.pc = "fetch" /\ failures < Failures
  /\ Commit([feed EXCEPT !.pc = "end", !.row = B!Trip(@)])
  /\ failures' = failures + 1
  /\ trips' = trips + 1 /\ ticks' = 0
  /\ UNCHANGED <<pub, missed>>

End ==
  /\ feed.pc = "end"
  /\ rows' = [rows EXCEPT ![Feed] = feed.row]
  /\ cursor' = feed.cursor
  /\ stored' = feed.stored
  /\ feed' = Idle
  /\ CountTick
  /\ UNCHANGED <<pub, failures, trips, missed>>

(* The cycle raises, or the process restarts: the session is rolled back.  *)
Fail ==
  /\ feed.pc # "idle" /\ failures < Failures
  /\ feed' = Idle
  /\ failures' = failures + 1
  /\ UNCHANGED <<rows, cursor, stored, pub, trips, ticks, missed>>

Publish(p) ==
  /\ pub[p] = Unpublished
  /\ pub' = [pub EXCEPT ![p] = Now + 1]
  /\ UNCHANGED <<rows, cursor, stored, feed, history>>

MainLoop ==
  /\ \/ B!TickLoop(Others)
     \/ B!Outcome(Others)
  /\ UNCHANGED <<cursor, stored, feed, pub, history>>

Cycle == Begin \/ Fetch \/ Store \/ LoginRefused \/ End

Next == Cycle \/ Fail \/ MainLoop \/ \E p \in Posts : Publish(p)

Spec == Init /\ [][Next]_vars

(* run_realtime_scheduler never stops cycling.                             *)
FairSpec == Spec /\ WF_vars(Cycle)

-----------------------------------------------------------------------------
(* The wait after the n-th refusal in a row is min(2^(n-1), MaxSkip) cycles *)
(* of this loop, counted in cycles that were committed: no other loop's     *)
(* tick shortens it and no rolled-back session loses or repeats one.        *)
Doubled[n \in Nat] == IF n = 0 THEN 1 ELSE 2 * Doubled[n - 1]
WaitAfter(n) == IF n = 0 THEN 0 ELSE B!Min({Doubled[n - 1], MaxSkip})

BackoffLaw == rows[Feed].remaining = B!Max({0, WaitAfter(trips) - ticks})

(* The cursor never passes a post that was not stored unless an answer left *)
(* it out or its own insert failed: posts published while a cycle runs, and *)
(* cycles rolled back after their fetch, lose nothing.                      *)
NoPostSkipped ==
  \A p \in Published : pub[p] <= cursor => p \in stored \cup missed

(* Every change this loop makes to the backoff table is one the table's     *)
(* promise allows: its own service's, tick and outcome in order.            *)
BackoffKept == B!Spec

(* Every post is stored in the end, or was missed as above: once logins are *)
(* accepted the wait runs out.                                              *)
PostsArrive == \A p \in Posts : p \in Published ~> p \in stored \cup missed
=============================================================================
