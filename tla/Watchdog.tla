------------------------------ MODULE Watchdog ------------------------------
(***************************************************************************)
(* Runtime telemetry: the heartbeats of the long-running services, the     *)
(* position feed's state in memory, and the watchdog that pages when a     *)
(* service makes no progress.                                              *)
(*                                                                         *)
(* Time is counted in steps shorter than every threshold and longer than   *)
(* the watchdog's interval; ages stop growing at Cap.  A pass of the       *)
(* watchdog judges one reading of the rows, then waits for each page and   *)
(* each event row, while the services go on.                               *)
(***************************************************************************)
EXTENDS Integers

CONSTANTS Services,     \* names of the services that write heartbeats
          Loop,         \* the signal loop, idle unless the run state is "running"
          Feed,         \* the position feed, judged by what the process remembers
          Stale,        \* stale_after_seconds, one for all; below Cap
          Cap,          \* ages are counted up to Cap
          MaxTrouble    \* bound: restarts, stops and failed writes together

Never == -1             \* no row, or no message yet

VARIABLES
  row,        \* age of last_success_at in the heartbeat rows
  hung,       \* the services that make no progress
  connected,  \* _websocket_connected: "unset" in a new process
  subscribed, \* whether _websocket_subscribed_markets is positive
  message,    \* age of _websocket_last_message_at
  uptime,
  runState,
  active,     \* active_alerts
  pass,       \* what the pass in progress still has to look at
  passed,     \* a pass has ended since the clock last moved
  trouble,
  \* what the pages are judged by
  told,       \* the services paged about since they last made progress
  excused     \* those seen to progress since, or whose page a restart, a stop of the
              \* run loop or a failed write has made the watchdog forget

vars == <<row, hung, connected, subscribed, message, uptime, runState, active,
          pass, passed, trouble, told, excused>>
feed == <<connected, subscribed, message>>
judged == <<told, excused>>

Resting == [step |-> "resting"]

Init ==
  /\ row = [s \in Services |-> Never]
  /\ hung \in SUBSET Services
  /\ connected = "unset" /\ subscribed = FALSE /\ message = Never
  /\ uptime = 0
  /\ runState = "running"
  /\ active = {} /\ pass = Resting /\ passed = FALSE
  /\ trouble = 0
  /\ told = {} /\ excused = {}

Older(a) == IF a = Never THEN Never ELSE IF a < Cap THEN a + 1 ELSE Cap

Tick ==
  /\ passed
  /\ row' = [s \in Services |-> Older(row[s])]
  /\ message' = Older(message)
  /\ uptime' = Older(uptime)
  /\ passed' = FALSE
  /\ UNCHANGED <<hung, connected, subscribed, runState, active, pass, trouble, judged>>

(***************************************************************************)
(* The services.                                                           *)
(***************************************************************************)
Progress(s) ==
  /\ row' = [row EXCEPT ![s] = 0]
  /\ told' = told \ {s} /\ excused' = excused \ {s}

\* mark_success at the end of a cycle; a stopped signal loop has no cycles
MarkSuccess(s) ==
  /\ s \notin hung \cup {Feed}
  /\ s = Loop => runState # "stopped"
  /\ row[s] # 0
  /\ Progress(s)
  /\ UNCHANGED <<hung, feed, uptime, runState, active, pass, passed, trouble>>

Connect ==
  /\ connected # "yes" /\ Feed \notin hung
  /\ connected' = "yes"
  /\ subscribed' \in BOOLEAN
  /\ UNCHANGED <<row, hung, message, uptime, runState, active, pass, passed,
                 trouble, judged>>
\* a connection that breaks; one that was never made leaves "unset" behind
Disconnect ==
  /\ connected = "yes"
  /\ connected' = "no"
  /\ UNCHANGED <<row, hung, subscribed, message, uptime, runState, active, pass,
                 passed, trouble, judged>>
\* note_websocket_message: remembered at once, persisted every 30 seconds
Message ==
  /\ connected = "yes" /\ Feed \notin hung /\ message # 0
  /\ message' = 0
  /\ Progress(Feed)
  /\ UNCHANGED <<hung, connected, subscribed, uptime, runState, active, pass,
                 passed, trouble>>

Hangs(s) ==
  /\ s \notin hung
  /\ hung' = hung \cup {s}
  /\ UNCHANGED <<row, feed, uptime, runState, active, pass, passed, trouble, judged>>
Recovers(s) ==
  /\ s \in hung
  /\ hung' = hung \ {s}
  /\ UNCHANGED <<row, feed, uptime, runState, active, pass, passed, trouble, judged>>

(***************************************************************************)
(* evaluate_service_states.                                                *)
(***************************************************************************)
FeedStatus ==
  CASE connected = "unset" -> "unknown"
    [] connected = "no" -> "stale"
    [] connected = "yes" /\ ~subscribed -> "idle"
    [] OTHER -> IF message = Never \/ message > Stale THEN "stale" ELSE "ok"
Age(s) == IF s = Feed /\ message # Never THEN message ELSE row[s]
Status(s) ==
  CASE s = Loop /\ runState # "running" -> "idle"
    [] s = Feed -> FeedStatus
    [] OTHER -> IF row[s] = Never THEN "unknown"
                ELSE IF row[s] > Stale THEN "stale" ELSE "ok"

TrulyStale(s) == Status(s) = "stale" /\ Age(s) # Never /\ Age(s) > Stale

InGrace == uptime < Stale

(***************************************************************************)
(* run_stale_service_watchdog.                                             *)
(***************************************************************************)
\* a pass reads the run state and the rows
Reads ==
  /\ pass = Resting /\ ~passed /\ runState = "running"
  /\ pass' = [step |-> "looking", todo |-> Services,
              stale |-> {s \in Services: TrulyStale(s)},
              grace |-> InGrace]
  /\ excused' = excused \cup {s \in told: ~TrulyStale(s)}
  /\ UNCHANGED <<row, hung, feed, uptime, runState, active, passed, trouble, told>>

\* unless the state is "running" it forgets what it paged about
Clears ==
  /\ pass = Resting /\ ~passed /\ runState # "running"
  /\ active' = {}
  /\ excused' = excused \cup told
  /\ passed' = TRUE
  /\ UNCHANGED <<row, hung, feed, uptime, runState, pass, trouble, told>>

\* A service that looks well again is taken from the active alerts.
Quiet(s) == active \ {s}

Looks(s) ==
  /\ pass.step = "looking" /\ s \in pass.todo
  /\ IF s \in pass.stale
     THEN /\ pass.grace \/ s \in active
          /\ UNCHANGED active
     ELSE active' = Quiet(s)
  /\ pass' = [pass EXCEPT !.todo = @ \ {s}]
  /\ UNCHANGED <<row, hung, feed, uptime, runState, passed, trouble, judged>>

\* alert_dispatcher.send: a failing sender is only logged
Pages(s) ==
  /\ pass.step = "looking" /\ s \in pass.todo
  /\ s \in pass.stale /\ ~pass.grace /\ s \notin active
  /\ pass' = [step |-> "recording", about |-> s, todo |-> pass.todo \ {s},
              stale |-> pass.stale, grace |-> pass.grace]
  /\ told' = told \cup {s}
  /\ excused' = excused \ {s}
  /\ UNCHANGED <<row, hung, feed, uptime, runState, active, passed, trouble>>

\* Mutant: the alert is not remembered.
RememberedNot(s) == active
Remembered(s) == active \cup {s}

\* record_event, then active_alerts.add
Records ==
  /\ pass.step = "recording"
  /\ active' = Remembered(pass.about)
  /\ pass' = [step |-> "looking", todo |-> pass.todo, stale |-> pass.stale,
              grace |-> pass.grace]
  /\ UNCHANGED <<row, hung, feed, uptime, runState, passed, trouble, judged>>

\* an event row that cannot be written ends the pass before the add, and
\* another pass comes within the minute
RecordFails ==
  /\ pass.step = "recording" /\ trouble < MaxTrouble
  /\ trouble' = trouble + 1
  /\ excused' = excused \cup told
  /\ pass' = Resting
  /\ UNCHANGED <<row, hung, feed, uptime, runState, active, passed, told>>

EndsPass ==
  /\ pass.step = "looking" /\ pass.todo = {}
  /\ pass' = Resting /\ passed' = TRUE
  /\ UNCHANGED <<row, hung, feed, uptime, runState, active, trouble, told, excused>>

(***************************************************************************)
(* The operator and restarts.                                              *)
(***************************************************************************)
SetRunState(s) ==
  /\ s # runState
  /\ s = "stopped" => trouble < MaxTrouble
  /\ trouble' = IF s = "stopped" THEN trouble + 1 ELSE trouble
  /\ runState' = s
  /\ UNCHANGED <<row, hung, feed, uptime, active, pass, passed, judged>>

Restart ==
  /\ trouble < MaxTrouble
  /\ trouble' = trouble + 1
  /\ connected' = "unset" /\ subscribed' = FALSE /\ message' = Never
  /\ uptime' = 0 /\ active' = {} /\ pass' = Resting
  /\ excused' = excused \cup told
  /\ UNCHANGED <<row, hung, runState, passed, told>>

WatchdogStep == \/ Reads \/ Clears \/ Records \/ EndsPass
                \/ \E s \in Services: Looks(s) \/ Pages(s)
Next ==
  \/ Tick \/ WatchdogStep \/ RecordFails
  \/ \E s \in Services: MarkSuccess(s) \/ Hangs(s) \/ Recovers(s)
  \/ Connect \/ Disconnect \/ Message
  \/ \E s \in {"running", "stopped"}: SetRunState(s)
  \/ Restart

Spec == Init /\ [][Next]_vars
\* the watchdog's loop catches every exception and sleeps a minute
FairSpec == Spec /\ WF_vars(WatchdogStep) /\ WF_vars(Tick)

(***************************************************************************)
(* Properties.                                                             *)
(***************************************************************************)
TypeOK ==
  /\ row \in [Services -> {Never} \cup 0..Cap]
  /\ message \in {Never} \cup 0..Cap /\ uptime \in 0..Cap
  /\ active \subseteq Services /\ told \subseteq Services

\* One outage, one page: a service is paged about again only if it made
\* progress since or a pass saw it do well, or if a restart, a stop of the run
\* loop or an event row that could not be written took the watchdog's memory of
\* the first page.
OncePerOutage == [][\A s \in Services: Pages(s) => s \in excused \/ s \notin told]_vars

\* A service that has a row and hangs for good while the process is running is
\* paged about, this time and every time it hangs again, whatever beats, stops
\* and restarts came before: the judgement of the rows, the grace of a new
\* process and the set of active alerts never add up to silence.
Watched(s) == s \in hung /\ row[s] # Never /\ runState = "running"
              /\ (s = Feed => connected = "no" \/ (connected = "yes" /\ subscribed))
HangsArePaged == \A s \in Services: <>[]Watched(s) => <>[](s \in told)

\* Claim: so is a feed that never connected since its process started.  It is
\* not: connect() raises before anything is remembered, and "unknown" is not
\* alerted, whatever the row says.
FeedIsPaged == <>[](Feed \in hung /\ row[Feed] # Never /\ runState = "running")
                 => <>[](Feed \in told)
=============================================================================
