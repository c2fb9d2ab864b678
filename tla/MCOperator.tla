----------------------------- MODULE MCOperator -----------------------------
(***************************************************************************)
(* The operator's side in one specification: Operator and RuntimeConfig.   *)
(* They share no state: a behaviour runs the one that `part` names, the    *)
(* variables of the other do not change.                                   *)
(***************************************************************************)
EXTENDS Operator

CONSTANTS Builtin, File, Name, Fields, Values, Requests   \* of RuntimeConfig

(* The paths and names of strategies are told apart, from each other and    *)
(* from what stands for "no strategy"; no edit sets a field to "default".   *)
ASSUME SettingsAssumption ==
  /\ File \notin Builtin \cup {"none", "down"} /\ Name \notin Builtin \cup {File}
  /\ {"none", "down"} \cap Builtin = {} /\ "default" \notin Values

VARIABLES part, table, ran, proc, stage, inForce, put, entwined

settings == <<table, ran, proc, stage, inForce, put, entwined>>

C == INSTANCE RuntimeConfig

OperatorInit == part \in {"commands", "settings"} /\ Init /\ C!Init
                /\ (part = "settings" => mode = "paper")

OperatorNext == \/ part = "commands" /\ Next   /\ UNCHANGED <<part, settings>>
                \/ part = "settings" /\ C!Next /\ UNCHANGED <<part, vars>>

\* The fairness of the two specifications.
OperatorFairness ==
  /\ SF_vars(part = "commands" /\ Answered)
  /\ WF_vars(part = "commands" /\ Handler)
  /\ WF_vars(part = "commands" /\ Starts)
  /\ WF_vars(part = "commands" /\ \E n \in DOMAIN prompts: TimerFires(n))
  /\ WF_settings(part = "settings" /\ C!LoopReads)

OperatorSpec == OperatorInit /\ [][OperatorNext]_<<part, vars, settings>> /\ OperatorFairness

-----------------------------------------------------------------------------
(* What the operator was told is so: a notice of a confirmation says what   *)
(* happened to it (NoticeTrue), and confirmed settings outlive a restart    *)
(* and end with the strategy they were made for (RestartKeeps,              *)
(* SwitchForgets).                                                          *)
RepliesHold == NoticeTrue /\ C!RestartKeeps /\ C!SwitchForgets

(* What the operator asks for comes about: updates are handled, prompts     *)
(* leave the registry (UpdatesHandled), and saved settings are traded by    *)
(* (EditsTakeEffect).                                                       *)
OperatorHeard == UpdatesHandled /\ C!EditsTakeEffect
=============================================================================
