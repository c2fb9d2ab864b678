----------------------------- MODULE Documents -----------------------------
(***************************************************************************)
(* The document store under its two writers, the main ingestion loop (a    *)
(* session per market) and the realtime loop (a session per cycle).        *)
(*                                                                         *)
(* upsert_document looks for the page and for its text, then embeds, then  *)
(* upserts, each time awaiting; a session sees its own writes and what is  *)
(* committed.  A row that another session wrote and has not committed      *)
(* makes an upsert wait, and two that wait for each other are told apart   *)
(* by the database, which fails one statement: the savepoint around it     *)
(* undoes that document and nothing else.                                  *)
(***************************************************************************)
EXTENDS Naturals, FiniteSets

CONSTANTS
  Sessions,    \* the loops that store documents
  Urls,
  Texts,       \* what a page may say
  MaxVersion,  \* bound: how often a page changes, below None
  Failures     \* bound: sessions that raise, restarts

None == 99

VARIABLES
  text,        \* what each version of a page says, fixed
  web,         \* the current version of a page
  table,       \* the version a committed row holds, None without a row
  mine,        \* per session, its uncommitted rows
  todo,        \* per session, what it fetched and has not stored: url -> version
  upsert,      \* per session, the page it embeds, None when there is none
  \* what twins are explained by
  rewritten,   \* pages whose row was updated
  overlapped,  \* pages embedded while another session stored the same text
  failures

vars == <<text, web, table, mine, todo, upsert, rewritten, overlapped,
          failures>>
history == <<rewritten, overlapped>>

Nothing == [u \in Urls |-> None]
Versions == 0 .. MaxVersion
Idle(s) == todo[s] = Nothing /\ mine[s] = Nothing /\ upsert[s] = None

Init ==
  /\ text \in [Urls -> [Versions -> Texts]]
  /\ text[CHOOSE u \in Urls : TRUE][0] = CHOOSE t \in Texts : TRUE  \* names do not matter
  /\ web = [u \in Urls |-> 0]
  /\ table = Nothing
  /\ mine = [s \in Sessions |-> Nothing]
  /\ todo = [s \in Sessions |-> Nothing]
  /\ upsert = [s \in Sessions |-> None]
  /\ rewritten = {} /\ overlapped = {} /\ failures = 0

Publish(u) ==
  /\ web[u] < MaxVersion
  /\ web' = [web EXCEPT ![u] = @ + 1]
  /\ UNCHANGED <<text, table, mine, todo, upsert, history, failures>>

(* A loop has fetched some pages. *)
Fetch(s) ==
  /\ Idle(s)
  /\ \E got \in SUBSET Urls \ {{}} :
       todo' = [todo EXCEPT ![s] = [u \in Urls |-> IF u \in got THEN web[u] ELSE None]]
  /\ UNCHANGED <<text, web, table, mine, upsert, history, failures>>

(***************************************************************************)
(* upsert_document and link_document_to_market, in a savepoint.            *)
(***************************************************************************)
Row(s, u) == IF mine[s][u] # None THEN mine[s][u] ELSE table[u]
Says(u, v) == text[u][v]
RowSays(s, u, t) == Row(s, u) # None /\ Says(u, Row(s, u)) = t

Todo(s, u) == todo[s][u] # None /\ upsert[s] = None
Fetched(s, u) == Says(u, todo[s][u])
Done(s, u) == todo' = [todo EXCEPT ![s][u] = None]

(* DocumentSkipped: the body is empty, or longer than is stored (now, or    *)
(* when it was first fetched in this process).                             *)
Skip(s, u) ==
  /\ Todo(s, u)
  /\ Done(s, u)
  /\ UNCHANGED <<text, web, table, mine, upsert, history, failures>>

(* The rows a fetched page is a copy of: its own, or if it has none, any.  *)
Copies(s, u) == {w \in IF Row(s, u) = None THEN Urls ELSE {u} :
                   RowSays(s, w, Fetched(s, u))}

(* The copy is linked to the market, as a stored page is: its link is in    *)
(* the same savepoint, and goes where the row goes.                         *)
Dedup(s, u) ==
  /\ Todo(s, u)
  /\ Copies(s, u) # {}
  /\ Done(s, u)
  /\ UNCHANGED <<text, web, table, mine, upsert, history, failures>>

Embed(s, u) ==
  /\ Todo(s, u) /\ Copies(s, u) = {}
  /\ upsert' = [upsert EXCEPT ![s] = u]
  /\ UNCHANGED <<text, web, table, mine, todo,
                 history, failures>>

(* Another session stores the same text meanwhile. *)
Meanwhile(s, u) ==
  \E r \in Sessions \ {s}, w \in Urls \ {u} :
    \/ mine[r][w] # None /\ Says(w, mine[r][w]) = Fetched(s, u)
    \/ upsert[r] = w /\ Fetched(r, w) = Fetched(s, u)
    \/ table[w] # None /\ Says(w, table[w]) = Fetched(s, u)

Waits(s) == upsert[s] # None /\ \E r \in Sessions \ {s} : mine[r][upsert[s]] # None

(* INSERT .. ON CONFLICT (source_url) DO UPDATE. *)
Upsert(s) ==
  LET u == upsert[s]
  IN /\ u # None /\ ~Waits(s)
     /\ mine' = [mine EXCEPT ![s][u] = todo[s][u]]
     /\ rewritten' = IF Row(s, u) # None THEN rewritten \cup {u} ELSE rewritten
     /\ overlapped' = IF Meanwhile(s, u) THEN overlapped \cup {u} ELSE overlapped
     /\ Done(s, u) /\ upsert' = [upsert EXCEPT ![s] = None]
     /\ UNCHANGED <<text, web, table, failures>>

(* docs_error. *)
GivesUp(s, u) == Done(s, u)

(* Two sessions that wait for each other: one of them is chosen. *)
Deadlock(s) ==
  /\ Waits(s) /\ \A r \in Sessions : Waits(r)
  /\ GivesUp(s, upsert[s])
  /\ upsert' = [upsert EXCEPT ![s] = None]
  /\ UNCHANGED <<text, web, table, mine, history,
                 failures>>

Cleared(s) ==
  /\ mine' = [mine EXCEPT ![s] = Nothing]

Commit(s) ==
  /\ todo[s] = Nothing /\ ~Idle(s)
  /\ table' = [u \in Urls |-> Row(s, u)]
  /\ Cleared(s)
  /\ UNCHANGED <<text, web, todo, upsert, history, failures>>

(* The cycle raises, or the process dies: its memory goes with it. *)
Raise(s) ==
  /\ ~Idle(s) /\ failures < Failures
  /\ failures' = failures + 1
  /\ Cleared(s)
  /\ todo' = [todo EXCEPT ![s] = Nothing] /\ upsert' = [upsert EXCEPT ![s] = None]
  /\ UNCHANGED <<text, web, table, history>>

Step(s) == \/ \E u \in Urls : Skip(s, u) \/ Dedup(s, u) \/ Embed(s, u)
           \/ Upsert(s) \/ Deadlock(s) \/ Commit(s)
Next == \/ \E u \in Urls : Publish(u)
        \/ \E s \in Sessions : Fetch(s) \/ Step(s) \/ Raise(s)
Spec == Init /\ [][Next]_vars
\* requests time out, and the database detects deadlocks
FairSpec == Spec /\ \A s \in Sessions : WF_vars(Step(s))

(***************************************************************************)
(* Properties.                                                             *)
(***************************************************************************)
TypeOK ==
  /\ table \in [Urls -> Versions \cup {None}]
  /\ mine \in [Sessions -> [Urls -> Versions \cup {None}]]

(* Two rows say the same only if one of them was updated (the search for    *)
(* the text is skipped for a page that has a row), or if two loops stored   *)
(* the text at the same time: no unique constraint stands behind the        *)
(* search.  Anything else the search finds.                                *)
TwinsExplained ==
  \A u, w \in Urls :
    (u # w /\ table[u] # None /\ table[w] # None /\ Says(u, table[u]) = Says(w, table[w]))
      => {u, w} \cap (rewritten \cup overlapped) # {}

(* Two loops that store the same pages in different orders do not wait for  *)
(* each other for ever: a session comes to its end, the failed statement of *)
(* a deadlock costing it one document.                                     *)
SessionsEnd == \A s \in Sessions : ~Idle(s) ~> Idle(s)

(* Claim, "we don't want N copies in the evidence pool": the second address *)
(* of a text gets no row.                                                  *)
NoCopies ==
  \A u, w \in Urls :
    (u # w /\ table[u] # None /\ table[w] # None) => Says(u, table[u]) # Says(w, table[w])

(* Claim: the later fetch of a page wins. *)
NewestKept == [][\A u \in Urls : table[u] # None => table'[u] >= table[u]]_vars
=============================================================================
