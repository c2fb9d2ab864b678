-------------------------- MODULE SignalPipeline --------------------------
(***************************************************************************)
(* SignalPipeline.analyze and its cache (signal/pipeline.py, cache.py) for *)
(* one market, by two tasks at the same time: the signal loop              *)
(* ("scheduled") and an operator at the dashboard or the command line      *)
(* ("manual", forced).  What an analysis asks the LLM is in Extraction;    *)
(* here it takes a while and succeeds or not.                              *)
(*                                                                         *)
(* A signal is what later decisions read of it: the documents it rests on  *)
(* (the retrieval hash), the mid price it was written at, its confidence   *)
(* tier.  Time is counted in ticks, and prices are further apart than the  *)
(* reprice threshold.                                                      *)
(***************************************************************************)
EXTENDS Naturals

CONSTANTS
  Loop, Desk,      \* who analyses
  Docs,            \* documents that may be linked to the market
  Tiers,           \* confidence tiers
  Cooldown,        \* [Tiers -> Nat]: 12 hours, 4 hours, none
  Interval,        \* max_scheduled_interval_hours
  Prices           \* mid prices more than price_move_threshold apart

Analysts == {Loop, Desk}

ASSUME PipelineAssumption ==
  /\ Loop # Desk
  /\ Interval \in Nat /\ Cooldown \in [Tiers -> 0..Interval]
  /\ "none" \notin Tiers /\ "none" \notin Prices

VARIABLES
  evidence,   \* the documents retrieve would return
  price,      \* the mid price in the market's row
  fetched,    \* factbase_phrases.last_fetched_at > last.created_at
  current,    \* the signal that markets.current_signal_id points at
  last,       \* the most recent scheduled signal, and its age
  run,        \* per analyst: where analyze is, and what it has read
  unread      \* history: no scheduled signal has read FactBase as it is now

vars == <<evidence, price, fetched, current, last, run, unread>>

NoSignal == [docs |-> {}, mid |-> "none"]
NoRun    == [at |-> "idle", seen |-> NoSignal, mid |-> "none", docs |-> {}, facts |-> FALSE]

Init ==
  /\ evidence = {} /\ price \in Prices
  /\ fetched = FALSE /\ unread = FALSE
  /\ current = NoSignal
  /\ last = [docs |-> {}, tier |-> "none", age |-> Interval]
  /\ run = [a \in Analysts |-> NoRun]

(* The top of a cycle of signal_loop: the markets are loaded, minutes before *)
(* the turn of this one.                                                   *)
LoadMarket ==
  /\ run[Loop].at = "idle"
  /\ run' = [run EXCEPT ![Loop] = [NoRun EXCEPT !.at = "loaded", !.seen = current, !.mid = price]]
  /\ UNCHANGED <<evidence, price, fetched, current, last, unread>>

\* Mutant: nothing new is nothing new, however long ago the last analysis was.
UnchangedForEver ==
  last.tier # "none" /\ last.docs = evidence /\ ~fetched

(* scheduled_skip_decision. *)
Unchanged ==
  last.tier # "none" /\ last.age < Interval /\ last.docs = evidence /\ ~fetched

(* cooldown_decision. *)
CoolingDown == last.tier # "none" /\ last.age < Cooldown[last.tier]

Skips == evidence = {} \/ Unchanged \/ CoolingDown

(* _clone_at_price: the signal the snapshot named, at the snapshot's price. *)
Reprices == evidence # {} /\ run[Loop].seen # NoSignal /\ run[Loop].mid # run[Loop].seen.mid

Skip ==
  /\ run[Loop].at = "loaded" /\ Skips
  /\ current' = IF Reprices THEN [run[Loop].seen EXCEPT !.mid = run[Loop].mid] ELSE current
  /\ run' = [run EXCEPT ![Loop] = NoRun]
  /\ UNCHANGED <<evidence, price, fetched, last, unread>>

(* retrieve and phrase_row_to_data, before the LLM calls. *)
Asks(mid) == [NoRun EXCEPT !.at = "asks", !.mid = mid, !.docs = evidence, !.facts = TRUE]

Retrieve ==
  /\ run[Loop].at = "loaded" /\ ~Skips
  /\ run' = [run EXCEPT ![Loop] = Asks(run[Loop].mid)]
  /\ UNCHANGED <<evidence, price, fetched, current, last, unread>>

(* An operator's request: the market is loaded for it, and nothing is       *)
(* skipped.                                                                *)
ForceAnalysis ==
  /\ run[Desk].at = "idle"
  /\ run' = [run EXCEPT ![Desk] = Asks(price)]
  /\ UNCHANGED <<evidence, price, fetched, current, last, unread>>

Written(a) == [docs |-> run[a].docs, mid |-> run[a].mid]

\* Mutant: the trigger of a signal is not kept.
WriteSignalUntagged(a) ==
  /\ run[a].at = "asks"
  /\ current' = Written(a)
  /\ \E t \in Tiers : last' = [docs |-> run[a].docs, tier |-> t, age |-> 0]
  /\ fetched' = FALSE /\ unread' = (unread /\ ~run[a].facts)
  /\ run' = [run EXCEPT ![a] = NoRun]
  /\ UNCHANGED <<evidence, price>>

(* _write_signal and its commit.  created_at is the time of this insert. *)
WriteSignal(a) ==
  /\ run[a].at = "asks"
  /\ current' = Written(a)
  /\ IF a = Loop
     THEN /\ \E t \in Tiers : last' = [docs |-> run[a].docs, tier |-> t, age |-> 0]
          /\ fetched' = FALSE /\ unread' = (unread /\ ~run[a].facts)
     ELSE UNCHANGED <<last, fetched, unread>>
  /\ run' = [run EXCEPT ![a] = NoRun]
  /\ UNCHANGED <<evidence, price>>

(* LLMError or an answer that cannot be parsed: None; or an exception; or   *)
(* the process dies.                                                       *)
NoAnalysis(a) ==
  /\ run[a].at # "idle"
  /\ run' = [run EXCEPT ![a] = NoRun]
  /\ UNCHANGED <<evidence, price, fetched, current, last, unread>>

LoopStep == LoadMarket \/ Skip \/ Retrieve \/ WriteSignal(Loop)

(* Ingestion links a document, or a better one pushes it out of the top K.  *)
EvidenceChanges ==
  /\ \E d \in Docs : evidence' \in {evidence \cup {d}, evidence \ {d}}
  /\ UNCHANGED <<price, fetched, current, last, run, unread>>

FactbaseFetched ==
  /\ fetched' = (last.tier # "none") /\ unread' = TRUE
  /\ run' = [a \in Analysts |-> [run[a] EXCEPT !.facts = FALSE]]
  /\ UNCHANGED <<evidence, price, current, last>>

PriceMoves ==
  /\ price' \in Prices
  /\ UNCHANGED <<evidence, fetched, current, last, run, unread>>

Tick ==
  /\ last.age < Interval
  /\ last' = [last EXCEPT !.age = @ + 1]
  /\ UNCHANGED <<evidence, price, fetched, current, run, unread>>

Next ==
  \/ LoopStep \/ ForceAnalysis \/ WriteSignal(Desk)
  \/ \E a \in Analysts : NoAnalysis(a)
  \/ EvidenceChanges \/ FactbaseFetched \/ PriceMoves \/ Tick

Spec == Init /\ [][Next]_vars

(* The signal loop goes on for ever, and time passes. *)
FairSpec == Spec /\ WF_vars(LoopStep) /\ WF_vars(Tick)

-----------------------------------------------------------------------------
(* Each variable has its type. *)
SignalType == [docs: SUBSET Docs, mid: Prices \cup {"none"}]
TypeOK ==
  /\ evidence \subseteq Docs /\ price \in Prices
  /\ fetched \in BOOLEAN /\ unread \in BOOLEAN
  /\ current \in SignalType
  /\ last \in [docs: SUBSET Docs, tier: Tiers \cup {"none"}, age: 0..Interval]
  /\ run \in [Analysts -> [at: {"idle", "loaded", "asks"}, seen: SignalType,
                           mid: Prices \cup {"none"}, docs: SUBSET Docs, facts: BOOLEAN]]

(* The low-confidence cooldown: whoever else writes signals meanwhile, two  *)
(* scheduled analyses are at least the cooldown of the first apart.         *)
CooldownKept ==
  [][last' # last /\ last'.age = 0 /\ last.tier # "none" => last.age >= Cooldown[last.tier]]_vars

(* The market stands still and analyses succeed. *)
Still ==
  /\ UNCHANGED <<evidence, price>> /\ ~FactbaseFetched
  /\ \A a \in Analysts : run'[a] = NoRun => run[a] = NoRun \/ Skip \/ WriteSignal(a)

(* Whatever was skipped, cooling down, overtaken by a manual analysis or    *)
(* refreshed behind the back of a running one: when the market stands still *)
(* the last scheduled signal comes to rest on all that is known of it, and  *)
(* the current one on the documents and the price there are.                *)
Settles ==
  <>[][Still]_vars =>
    <>[](evidence # {} =>
           /\ last.docs = evidence /\ ~unread
           /\ current = [docs |-> evidence, mid |-> price])

(* _clone_at_price: "Clone the current signal at the new market price".     *)
(* What a run clones is the current signal.                                 *)
ClonesCurrent == [][Skip /\ Reprices => run[Loop].seen = current]_vars
=============================================================================
