---------------------------- MODULE RuntimeConfig ----------------------------
(***************************************************************************)
(* The strategy's parameters while the process runs: the overrides the     *)
(* dashboard saves (PUT /api/strategy/config, strategy/config_store.py),   *)
(* the configuration object the tasks read, which the signal loop brings   *)
(* up to date once a cycle, and the start-up that forgets the overrides of *)
(* the strategy run before (cli.py).                                       *)
(*                                                                         *)
(* A strategy is started by a built-in name, or by the path of a file; its *)
(* overrides are kept under the name its configuration has.  `config` is   *)
(* an attribute of the class: loading a built-in again gives the very      *)
(* object the tasks use, loading a file defines a new class.               *)
(***************************************************************************)
EXTENDS Naturals

CONSTANTS Builtin,     \* names of built-in strategies
          File, Name,  \* the path of a strategy file, the name in its configuration
          Fields,      \* mutable fields
          Values,      \* what an edit may set a field to
          Requests     \* edits in progress at once, at most

Strategies == Builtin \cup {File}
Key(s) == IF s = File THEN Name ELSE s
Keys   == Builtin \cup {File, Name}
Default == "default"
Edits   == [Fields -> Values \cup {Default}]
Empty   == [f \in Fields |-> Default]

VARIABLES
  table,    \* runtime_config_overrides: per name the fields overridden
  ran,      \* run_state.strategy_name
  proc,     \* the strategy of the running process, "down" without one
  stage,    \* of the start-up: "reads" run_state, "names" the strategy, "done"
  inForce,  \* the fields of strategy.config as the tasks read them
  put,      \* edits in progress
  entwined  \* an edit has overlapped another, or a start-up

vars == <<table, ran, proc, stage, inForce, put, entwined>>

\* Fields of `b` where it has them, of `a` elsewhere.
Over(a, b) == [f \in Fields |-> IF b[f] # Default THEN b[f] ELSE a[f]]

NoPut == [pc |-> "idle"]
Busy  == {i \in Requests : put[i] # NoPut}
Up    == proc # "down"
Started == Up /\ stage = "done"

\* Loading a built-in strategy yields the object in use, if it is in use.
Shared(s) == s = proc /\ s \in Builtin

-----------------------------------------------------------------------------
(* update_strategy_config.  The strategy of run_state is loaded and its     *)
(* overrides, by the name it was started with, put on its configuration.    *)
PutOpens(i, edit) ==
  /\ Up /\ put[i] = NoPut /\ ran # "none"
  /\ put' = [put EXCEPT ![i] = [pc |-> "read", strategy |-> ran, edit |-> edit]]
  /\ inForce' = IF Shared(ran) THEN Over(inForce, table[ran]) ELSE inForce
  /\ entwined' = (entwined \/ Busy # {} \/ ~Started)
  /\ UNCHANGED <<table, ran, proc, stage>>

(* Saves the fields sent, without those saved before.                       *)
PutReadsNothing(i) ==
  /\ put[i].pc = "read"
  /\ put' = [put EXCEPT ![i] = [pc |-> "save", strategy |-> put[i].strategy,
                                edit |-> put[i].edit]]
  /\ UNCHANGED <<table, ran, proc, stage, inForce, entwined>>

(* existing.update(mutable_updates), by the name in the configuration.      *)
PutReads(i) ==
  /\ put[i].pc = "read"
  /\ put' = [put EXCEPT ![i] = [pc |-> "save", strategy |-> put[i].strategy,
                                edit |-> Over(table[Key(put[i].strategy)], put[i].edit)]]
  /\ UNCHANGED <<table, ran, proc, stage, inForce, entwined>>

(* save_overrides commits; what was merged is put on the configuration.     *)
PutSaves(i) ==
  /\ put[i].pc = "save"
  /\ table' = [table EXCEPT ![Key(put[i].strategy)] = put[i].edit]
  /\ inForce' = IF Shared(put[i].strategy) THEN Over(inForce, put[i].edit) ELSE inForce
  /\ put' = [put EXCEPT ![i] = NoPut]
  /\ UNCHANGED <<ran, proc, stage, entwined>>

(* The database fails, or two edits insert the row of one name.             *)
PutFails(i) ==
  /\ put[i] # NoPut
  /\ put' = [put EXCEPT ![i] = NoPut]
  /\ UNCHANGED <<table, ran, proc, stage, inForce, entwined>>

(* The beginning of a cycle of the signal loop; the loop starts with the    *)
(* other tasks, before the start-up has written run_state.                  *)
LoopReads ==
  /\ Up
  /\ inForce' = Over(inForce, table[Key(proc)])
  /\ UNCHANGED <<table, ran, proc, stage, put, entwined>>

-----------------------------------------------------------------------------
Start(s) ==
  /\ ~Up
  /\ proc' = s /\ stage' = "reads" /\ inForce' = Empty
  /\ UNCHANGED <<table, ran, put, entwined>>

Changed == ran \notin {"none", proc}

(* The overrides of the strategy run before are dropped, by the name it was *)
(* started with; a commit of its own.                                       *)
StartForgets ==
  /\ Up /\ stage = "reads" /\ Changed
  /\ table' = [table EXCEPT ![ran] = Empty] /\ stage' = "names"
  /\ UNCHANGED <<ran, proc, inForce, put, entwined>>

(* set_strategy_name.                                                       *)
StartNames ==
  /\ Up
  /\ stage = "names" \/ (stage = "reads" /\ ~Changed)
  /\ ran' = proc /\ stage' = "done"
  /\ UNCHANGED <<table, proc, inForce, put, entwined>>

Stop ==
  /\ Up
  /\ proc' = "down" /\ stage' = "done" /\ inForce' = Empty
  /\ put' = [i \in Requests |-> NoPut]
  /\ UNCHANGED <<table, ran, entwined>>

Init ==
  /\ table = [k \in Keys |-> Empty] /\ ran = "none"
  /\ proc = "down" /\ stage = "done" /\ inForce = Empty
  /\ put = [i \in Requests |-> NoPut] /\ entwined = FALSE

Next ==
  \/ \E i \in Requests : \/ \E edit \in Edits \ {Empty} : PutOpens(i, edit)
                         \/ PutReads(i) \/ PutSaves(i) \/ PutFails(i)
  \/ LoopReads
  \/ \E s \in Strategies : Start(s)
  \/ StartForgets \/ StartNames \/ Stop

Spec == Init /\ [][Next]_vars

\* The signal loop goes on for as long as the process lives.
Fairness == WF_vars(LoopReads)

-----------------------------------------------------------------------------
(* A restart changes nothing: what the tasks trade by beyond the defaults   *)
(* is saved, for the strategy that runs, if edits came one at a time.       *)
RestartKeeps ==
  Started /\ ~entwined => Over(Empty, table[Key(proc)]) = Over(inForce, table[Key(proc)])

(* A strategy comes back as it was written: of the built-in strategies only *)
(* the one run last has overrides.                                          *)
SwitchForgets ==
  ~entwined => \A s \in Builtin : table[s] # Empty => s = ran

(* What is saved for the strategy that runs is traded by one day, or the    *)
(* process ends.                                                            *)
Lagging == Up /\ Over(inForce, table[Key(proc)]) # inForce
EditsTakeEffect == Lagging ~> ~Lagging

(* Claims that the code refutes.  GET /api/strategy/config shows what the   *)
(* next cycle trades by (the docstring of RuntimeConfigOverrideRow: the     *)
(* overrides are merged "at dashboard startup and whenever the run-loop     *)
(* reloads"): a strategy loaded from a file is shown without its overrides. *)
ShownInForce ==
  Started => Over(IF Shared(ran) THEN inForce ELSE Empty, table[ran])
                     = Over(inForce, table[Key(proc)])

(* The same, of all strategies, as SwitchForgets, and of edits that overlap *)
(* as RestartKeeps.                                                         *)
SwitchForgetsAll == ~entwined => \A s \in Strategies : table[Key(s)] # Empty => s = ran
EditsMerge ==
  Started => Over(Empty, table[Key(proc)]) = Over(inForce, table[Key(proc)])
=============================================================================
