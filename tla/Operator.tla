------------------------------ MODULE Operator ------------------------------
(***************************************************************************)
(* The operator's side of a running process: the Telegram long-poll loop   *)
(* with its inline-keyboard confirmations, the dashboard's write routes,   *)
(* and the stops and restarts that take the in-memory half of it away.     *)
(*                                                                         *)
(* Telegram keeps every update until a getUpdates call carries a higher    *)
(* offset; the process keeps that offset in memory only.  One task polls   *)
(* and handles a batch one update at a time; a handler may wait (for the   *)
(* keyboard to be sent, for the exchange), and meanwhile only the timers,  *)
(* the dashboard and the position monitor run.                             *)
(***************************************************************************)
EXTENDS Integers, Sequences, FiniteSetsExt

CONSTANTS Positions,    \* the open positions of the process's mode
          MaxSent,      \* bound: updates the operator sends
          MaxCommands,  \* bound: after so many updates the operator only taps
          MaxStops,     \* bound: stops of the process, wanted or not
          Commanded,    \* bound: the run states asked for in Telegram
          Clicked       \* bound: those asked for on the dashboard

ASSUME OperatorAssumption == MaxSent \in Nat

VARIABLES
  mode,       \* "paper" or "live"
  chan,       \* the updates Telegram holds, by their ids
  sent,       \* how many updates were sent
  handled,    \* how often each update was handled
  up,         \* the process runs
  stops,      \* how often it stopped
  offset,     \* TelegramCommandHandler._offset, 0 in a new process
  batch,      \* the updates fetched and not handled yet, by their ids
  doing,      \* what the handler of the last update is waiting for
  prompts,    \* every confirmation prompt ever made
  registry,   \* the prompts whose callbacks are registered
  pos,        \* the rows of the positions
  runState,   \* run_state.state
  lastWord    \* the last run state the operator asked for, by any means, an
              \* update handled again not counted

vars == <<mode, chan, sent, handled, up, stops, offset, batch, doing, prompts,
          registry, pos, runState, lastWord>>
process == <<up, stops>>
telegram == <<chan, sent, offset, batch>>

RunStates == {"running", "paused"}
\* bound: /forceexit all and /shutdown, which do not look at the mode, are sent
\* in live mode only
Commands == [what: {"state"}, arg: Commanded]
              \cup [what: IF mode = "paper" THEN {"exit", "delete"} ELSE {"exit"},
                    arg: Positions]
              \cup (IF mode = "paper" THEN {}
                    ELSE [what: {"exitAll", "shutdown"}, arg: {"none"}])
Taps == [what: {"confirm", "cancel"}, arg: DOMAIN prompts]
Idle == [what |-> "idle"]

Init ==
  /\ mode \in {"paper", "live"}
  /\ chan = <<>> /\ sent = 0
  /\ handled = [u \in 1..MaxSent |-> 0]
  /\ up = TRUE /\ stops = 0
  /\ offset = 0 /\ batch = <<>>
  /\ doing = Idle
  /\ prompts = <<>> /\ registry = {}
  /\ pos = [p \in Positions |-> "open"]
  /\ runState = "running" /\ lastWord = "running"

(***************************************************************************)
(* The operator and Telegram.                                              *)
(***************************************************************************)
Put(u) ==
  /\ sent < MaxSent
  /\ sent' = sent + 1
  /\ chan' = [n \in DOMAIN chan \cup {sent + 1} |-> IF n = sent + 1 THEN u ELSE chan[n]]

SendCommand(c) ==
  /\ sent < MaxCommands
  /\ Put(c)
  /\ UNCHANGED <<mode, handled, process, offset, batch, doing, prompts,
                 registry, pos, runState, lastWord>>

\* a keyboard stays on the screen: a button may be tapped twice, or late
Tap(t) ==
  /\ prompts[t.arg].shown
  /\ Put(t)
  /\ UNCHANGED <<mode, handled, process, offset, batch, doing, prompts,
                 registry, pos, runState, lastWord>>

Unconfirmed == RestrictDomain(chan, LAMBDA n: n >= offset)
\* Mutant: the offset is that of the last update, which is then sent again.
NextOffsetSame(us) == IF us = <<>> THEN offset ELSE Max(DOMAIN us)
\* Mutant: the offset skips the update that comes next.
NextOffsetSkips(us) == IF us = <<>> THEN offset ELSE Max(DOMAIN us) + 2

\* the ids increase: the last update has the highest
NextOffset(us) == IF us = <<>> THEN offset ELSE Max(DOMAIN us) + 1

\* a getUpdates call: it confirms what lies below the offset, even when its
\* answer is lost on the way back
Fetch ==
  /\ up /\ doing = Idle /\ batch = <<>> /\ chan # <<>>
  /\ chan' = Unconfirmed
  /\ \/ batch' = Unconfirmed
     \/ batch' = <<>>
  /\ offset' = NextOffset(batch')
  /\ UNCHANGED <<mode, sent, handled, process, doing, prompts, registry, pos,
                 runState, lastWord>>

(***************************************************************************)
(* _handle_update: one update at a time.                                   *)
(***************************************************************************)
Current == Min(DOMAIN batch)
Update == batch[Current]

Take(whats) ==
  /\ up /\ doing = Idle /\ batch # <<>>
  /\ Update.what \in whats
  /\ batch' = Restrict(batch, DOMAIN batch \ {Current})
  /\ handled' = [handled EXCEPT ![Current] = @ + 1]
  /\ UNCHANGED <<mode, chan, sent, process, offset>>

\* /start, /pause
HandleState ==
  /\ Take({"state"})
  /\ runState' = Update.arg
  /\ lastWord' = IF handled[Current] = 0 THEN Update.arg ELSE lastWord
  /\ UNCHANGED <<doing, prompts, registry, pos>>

Acts(c) == [act |-> c.what, arg |-> c.arg]

\* _require_confirmation: both callbacks are registered, then the keyboard is sent
AsksFirst(c) ==
  \/ c.what \in {"exitAll", "shutdown"}
  \/ c.what = "exit" /\ mode = "live"
  \/ c.what = "delete" /\ mode = "paper"
HandleAsk ==
  /\ Take({"exit", "exitAll", "delete", "shutdown"})
  /\ AsksFirst(Update)
  /\ prompts' = Append(prompts, [does |-> Acts(Update), shown |-> FALSE,
                                 armed |-> FALSE, ran |-> 0, notice |-> FALSE])
  /\ registry' = registry \cup {Len(prompts) + 1}
  /\ doing' = [what |-> "asking", prompt |-> Len(prompts) + 1]
  /\ UNCHANGED <<pos, runState, lastWord>>

\* a single forced exit in paper mode runs at once
HandleAct ==
  /\ Take({"exit"})
  /\ ~AsksFirst(Update)
  /\ doing' = [what |-> "acting", does |-> Acts(Update)]
  /\ UNCHANGED <<prompts, registry, pos, runState, lastWord>>

\* the keyboard arrives, or the send failed; the timer starts either way
Asked ==
  /\ doing.what = "asking"
  /\ \E shown \in BOOLEAN:
       prompts' = [prompts EXCEPT ![doing.prompt].shown = shown,
                                  ![doing.prompt].armed = TRUE]
  /\ doing' = Idle
  /\ UNCHANGED <<mode, telegram, handled, process, registry, pos, runState, lastWord>>

\* on_confirm: the callbacks go first, then the action is awaited
Confirmed(n) ==
  /\ registry' = registry \ {n}
  /\ prompts' = [prompts EXCEPT ![n].ran = @ + 1, ![n].armed = FALSE]
  /\ doing' = [what |-> "acting", does |-> prompts[n].does]

HandleConfirm ==
  /\ Take({"confirm"})
  /\ IF Update.arg \in registry
     THEN Confirmed(Update.arg)
     ELSE UNCHANGED <<registry, prompts, doing>>     \* "Action expired or unknown."
  /\ UNCHANGED <<pos, runState, lastWord>>

HandleCancel ==
  /\ Take({"cancel"})
  /\ Update.arg \in registry
  /\ registry' = registry \ {Update.arg}
  /\ prompts' = [prompts EXCEPT ![Update.arg].notice = TRUE,
                                ![Update.arg].armed = FALSE]
  /\ UNCHANGED <<doing, pos, runState, lastWord>>

HandleLateCancel ==
  /\ Take({"cancel"})
  /\ Update.arg \notin registry
  /\ UNCHANGED <<doing, prompts, registry, pos, runState, lastWord>>

(***************************************************************************)
(* The actions behind a prompt.                                            *)
(***************************************************************************)
IsOpen(p) == pos[p] = "open"

\* force_exit of one position: refused unless its row is open when read (an
\* exit rule, a settlement or the dashboard's route may have closed it); the
\* exchange may refuse it, or fill nothing
ExitsOne(p) ==
  /\ doing.what = "acting" /\ doing.does = [act |-> "exit", arg |-> p]
  /\ \/ IsOpen(p) /\ pos' = [pos EXCEPT ![p] = "closed"]
     \/ pos' = pos
  /\ doing' = Idle
  /\ UNCHANGED <<mode, telegram, handled, process, prompts, registry, runState, lastWord>>

\* /forceexit all: the ids are listed first, then each is closed in turn
ListsAll ==
  /\ doing.what = "acting" /\ doing.does.act = "exitAll"
  /\ doing' = [what |-> "closing", todo |-> {p \in Positions: IsOpen(p)}]
  /\ UNCHANGED <<mode, telegram, handled, process, prompts, registry, pos,
                 runState, lastWord>>
ClosesNext ==
  /\ doing.what = "closing"
  /\ \E p \in doing.todo:
       /\ doing' = [doing EXCEPT !.todo = @ \ {p}]
       /\ \/ IsOpen(p) /\ pos' = [pos EXCEPT ![p] = "closed"]
          \/ pos' = pos
  /\ UNCHANGED <<mode, telegram, handled, process, prompts, registry, runState, lastWord>>
ClosedAll ==
  /\ doing.what = "closing" /\ doing.todo = {}
  /\ doing' = Idle
  /\ UNCHANGED <<mode, telegram, handled, process, prompts, registry, pos,
                 runState, lastWord>>

Deletes(p) ==
  /\ doing.what = "acting" /\ doing.does = [act |-> "delete", arg |-> p]
  /\ pos' = [pos EXCEPT ![p] = "deleted"]
  /\ doing' = Idle
  /\ UNCHANGED <<mode, telegram, handled, process, prompts, registry, runState, lastWord>>

Forgotten ==
  /\ up' = FALSE /\ stops' = stops + 1
  /\ offset' = 0 /\ batch' = <<>> /\ doing' = Idle /\ registry' = {}
  /\ prompts' = [n \in DOMAIN prompts |-> [prompts[n] EXCEPT !.armed = FALSE]]
  /\ UNCHANGED <<mode, chan, sent, handled, pos, runState, lastWord>>

\* SIGTERM cancels every task, the Telegram loop included
ShutsDown ==
  /\ doing.what = "acting" /\ doing.does.act = "shutdown"
  /\ Forgotten

(***************************************************************************)
(* Beside the Telegram loop.                                               *)
(***************************************************************************)
\* _timeout_notify, 30 s after the keyboard was sent: the callbacks are still
\* registered (a timer that finds them gone does nothing, and is dropped from
\* the state with them)
TimerFires(n) ==
  /\ n \in registry /\ prompts[n].armed
  /\ prompts' = [prompts EXCEPT ![n].armed = FALSE, ![n].notice = TRUE]
  /\ registry' = registry \ {n}
  /\ UNCHANGED <<mode, telegram, handled, process, doing, pos, runState, lastWord>>

DashboardState(s) ==
  /\ up /\ s # runState /\ s # lastWord
  /\ runState' = s /\ lastWord' = s
  /\ UNCHANGED <<mode, telegram, handled, process, doing, prompts, registry, pos>>

\* a crash, a SIGTERM from outside, the dashboard's shutdown route
Stops ==
  /\ up /\ stops < MaxStops
  /\ Forgotten

Starts ==
  /\ ~up
  /\ up' = TRUE
  /\ UNCHANGED <<mode, telegram, handled, stops, doing, prompts, registry, pos,
                 runState, lastWord>>

Handler == \/ HandleState \/ HandleAsk \/ HandleAct \/ HandleConfirm \/ HandleCancel
           \/ HandleLateCancel \/ Asked \/ ListsAll \/ ClosesNext \/ ClosedAll
           \/ \E p \in Positions: ExitsOne(p) \/ Deletes(p)
           \/ ShutsDown
Next ==
  \/ \E c \in Commands: SendCommand(c)
  \/ \E t \in Taps: Tap(t)
  \/ Fetch \/ Handler
  \/ \E n \in DOMAIN prompts: TimerFires(n)
  \/ \E s \in Clicked: DashboardState(s)
  \/ Stops \/ Starts

Spec == Init /\ [][Next]_vars

\* The poll loop catches what its request and its handlers raise and goes on;
\* a poll that keeps being made brings an answer one day; every await of a
\* handler is bounded by a timeout; a timer runs out; a stopped process is
\* started again.
Answered == Fetch /\ (batch' # <<>> \/ chan' = <<>>)
Fairness ==
  /\ SF_vars(Answered)
  /\ WF_vars(Handler)
  /\ WF_vars(Starts)
  /\ WF_vars(\E n \in DOMAIN prompts: TimerFires(n))
FairSpec == Spec /\ Fairness

(***************************************************************************)
(* Properties.                                                             *)
(***************************************************************************)
TypeOK ==
  /\ sent \in 0..MaxSent /\ offset \in 0..(MaxSent + 1)
  /\ registry \subseteq DOMAIN prompts
  /\ pos \in [Positions -> {"open", "closed", "deleted"}]
  /\ runState \in RunStates
  /\ ~up => doing = Idle /\ batch = <<>> /\ registry = {}

\* A prompt is acted upon at most once, however often its button is tapped or
\* Telegram redelivers the tap, and nobody is told "Action cancelled" of a
\* prompt whose action runs or ran: on_confirm takes the callbacks away before
\* it awaits the action, and the timer looks at them first.
NoticeTrue ==
  \A n \in DOMAIN prompts: prompts[n].ran + (IF prompts[n].notice THEN 1 ELSE 0) <= 1

\* An update is handled again only when the process stopped in between: the
\* offset is past a batch before the first update of it is handled.
HandledOncePerProcess == \A u \in 1..MaxSent: handled[u] <= 1 + stops

\* Every update the operator sends is handled one day, and every registered
\* prompt is answered, times out or goes with its process: neither a lost
\* answer, nor a stop in the middle of a batch, nor a keyboard that never
\* arrived leaves anything behind.
UpdatesHandled ==
  /\ \A u \in 1..MaxSent: (sent >= u) ~> (handled[u] > 0)
  /\ \A n \in 1..(MaxCommands * (MaxStops + 1)): (n \in registry) ~> (n \notin registry)

\* Claim: once everything sent is handled, the run state is the last one the
\* operator asked for.  It fails when the dashboard is used as well: a /start
\* already handled, its batch not yet confirmed when the process stops, is
\* handled again after a later pause.
LastWordHolds ==
  (up /\ chan = <<>> /\ batch = <<>> /\ doing = Idle) => runState = lastWord
=============================================================================
