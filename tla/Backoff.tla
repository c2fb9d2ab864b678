------------------------------ MODULE Backoff ------------------------------
(***************************************************************************)
(* The persistent backoff of the ingestion fetchers (ingestion/backoff.py):*)
(* one row of fetcher_rate_limits per service.  A service with no row      *)
(* behaves as one whose row holds the defaults, so the model keeps a row   *)
(* for every service.                                                      *)
(*                                                                         *)
(* Spec is what the table promises to the two loops that write it, whatever*)
(* they do in between: a loop ticks its own services, all of them at once  *)
(* and no other's, and only a service that was not waiting trips.          *)
(***************************************************************************)
EXTENDS Naturals, FiniteSetsExt

CONSTANTS
  Loops,           \* a partition of the services, one set per loop
  MaxSkip          \* _MAX_SKIP_CYCLES

Services == UNION Loops

VARIABLE rows

Row == [remaining : 0 .. MaxSkip, next : 1 .. MaxSkip]
Default == [remaining |-> 0, next |-> 1]

Waiting(row) == row.remaining > 0

(* tick_and_load: the services of the caller wait one cycle less.          *)
Tick(table, scope) ==
  [s \in Services |->
     IF s \in scope /\ Waiting(table[s])
       THEN [table[s] EXCEPT !.remaining = @ - 1]
       ELSE table[s]]

(* record_rate_limit: wait skip_cycles_next cycles, twice as long the next *)
(* time, up to the cap.                                                    *)
Trip(row) ==
  [remaining |-> Min({row.next, MaxSkip}),
   next      |-> Min({2 * row.next, MaxSkip})]

-----------------------------------------------------------------------------
Init == rows = [s \in Services |-> Default]

TickLoop(loop) == rows' = Tick(rows, loop)

(* A commit: what the services of a loop that were not waiting met.        *)
Outcome(loop) ==
  \E tripped, cleared \in SUBSET {s \in loop : ~Waiting(rows[s])} :
    /\ tripped \cap cleared = {}
    /\ rows' = [s \in Services |-> IF s \in tripped THEN Trip(rows[s])
                                   ELSE IF s \in cleared THEN Default
                                   ELSE rows[s]]

(* A loop whose tick and outcome reach the table in one commit.            *)
TickAndOutcome(loop) ==
  \E tripped, cleared \in SUBSET {s \in loop : rows[s].remaining <= 1} :
    /\ tripped \cap cleared = {}
    /\ rows' = [s \in Services |-> IF s \in tripped THEN Trip(rows[s])
                                   ELSE IF s \in cleared THEN Default
                                   ELSE Tick(rows, loop)[s]]

Next == \E loop \in Loops : TickLoop(loop) \/ Outcome(loop) \/ TickAndOutcome(loop)

Spec == Init /\ [][Next]_rows
=============================================================================
