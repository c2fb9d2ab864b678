----------------------------- MODULE LLMClient -----------------------------
(***************************************************************************)
(* LLMClient.complete and system_one (llm/client.py, llm/audit.py): the    *)
(* daily spend cap, the audit row of every call and the count of           *)
(* consecutive failures, with every await of a call as a step.             *)
(*                                                                         *)
(* The cap is read before a call and the cost is recorded after it; the    *)
(* tasks of the process share one client and nothing reserves a budget.    *)
(* Costs are whole units.  An answer that its caller cannot parse ends     *)
(* like a call that raised LLMError, so both are the outcome "error";      *)
(* "raised" stands for the exceptions that are no LLMError.                *)
(***************************************************************************)
EXTENDS Naturals, FiniteSets

CONSTANTS
  Callers,       \* the tasks that may have a call under way at once
  JevCallers,    \* those of them that call system_one
  SpendCap,      \* max_daily_llm_spend_usd
  MaxCost,       \* bound: the most one call costs
  MaxErrors      \* max_consecutive_errors

VARIABLES
  spent,    \* SUM(cost_usd) of today's llm_queries rows
  errors,   \* _consecutive_errors; counted up to MaxErrors
  call,     \* where each caller's call is
  bill      \* what the answer in hand cost, until its row is committed

clientVars == <<spent, errors, call, bill>>

ClientInit ==
  /\ spent = 0 /\ errors = 0
  /\ call = [c \in Callers |-> "idle"]
  /\ bill = [c \in Callers |-> 0]

\* Mutant: system_one does not look at the cap.
AskUncapped(c) ==
  /\ call[c] = "idle" /\ (spent < SpendCap \/ c \in JevCallers)
  /\ call' = [call EXCEPT ![c] = "sent"]
  /\ UNCHANGED <<spent, errors, bill>>

(* get_daily_spend_usd, then the request is sent. *)
Ask(c) ==
  /\ call[c] = "idle" /\ spent < SpendCap
  /\ call' = [call EXCEPT ![c] = "sent"]
  /\ UNCHANGED <<spent, errors, bill>>

(* LLMBudgetExceededError. *)
Refuse(c) ==
  /\ call[c] = "idle" /\ spent >= SpendCap
  /\ call' = [call EXCEPT ![c] = "raised"]
  /\ UNCHANGED <<spent, errors, bill>>

(* The answer is there and has to be paid for. *)
Reply(c) ==
  /\ call[c] = "sent"
  /\ \E cost \in 1..MaxCost : bill' = [bill EXCEPT ![c] = cost]
  /\ call' = [call EXCEPT ![c] = "paid"]
  /\ errors' = IF c \in JevCallers THEN errors ELSE 0
  /\ UNCHANGED spent

(* log_llm_query and its commit, also of an answer that violates the tool  *)
(* contract or has no text.                                                *)
Audit(c) ==
  /\ call[c] = "paid"
  /\ \E outcome \in {"ok", "error"} : call' = [call EXCEPT ![c] = outcome]
  /\ spent' = spent + bill[c]
  /\ bill' = [bill EXCEPT ![c] = 0]
  /\ UNCHANGED errors

(* The audit row cannot be written: the database's exception leaves the    *)
(* call, and nothing knows what it cost.                                   *)
AuditFails(c) ==
  /\ call[c] = "paid"
  /\ call' = [call EXCEPT ![c] = "raised"]
  /\ bill' = [bill EXCEPT ![c] = 0]
  /\ UNCHANGED <<spent, errors>>

(* The transport fails: a row of cost zero, LLMError, and the exception of *)
(* the MaxErrors-th failure in a row and of those that follow it.          *)
Fail(c) ==
  /\ call[c] = "sent"
  /\ IF c \in JevCallers
     THEN call' = [call EXCEPT ![c] = "raised"] /\ UNCHANGED errors
     ELSE LET n == IF errors < MaxErrors THEN errors + 1 ELSE errors IN
          /\ errors' = n
          /\ call' = [call EXCEPT ![c] = IF n >= MaxErrors THEN "raised" ELSE "error"]
  /\ UNCHANGED <<spent, bill>>

Midnight ==
  /\ spent' = 0
  /\ UNCHANGED <<errors, call, bill>>

(* The caller has what it asked for, or its exception. *)
Return(c) ==
  /\ call[c] \in {"ok", "error", "raised"}
  /\ call' = [call EXCEPT ![c] = "idle"]
  /\ UNCHANGED <<spent, errors, bill>>

(* One step of a call on its way. *)
Answer(c) == Reply(c) \/ Audit(c) \/ AuditFails(c) \/ Fail(c)

ClientNext ==
  \/ \E c \in Callers : Ask(c) \/ Refuse(c) \/ Answer(c) \/ Return(c)
  \/ Midnight

ClientSpec == ClientInit /\ [][ClientNext]_clientVars

-----------------------------------------------------------------------------
(* Each variable has its type. *)
Phases == {"idle", "sent", "paid", "ok", "error", "raised"}
ClientTypeOK ==
  /\ spent \in Nat /\ errors \in 0..MaxErrors
  /\ call \in [Callers -> Phases]
  /\ bill \in [Callers -> 0..MaxCost]

UnderWay == {c \in Callers : call[c] \in {"sent", "paid"}}

(* SPEC.md, budget circuit breaker.  Callers that pass the check together  *)
(* may overshoot the cap, by no more than one call each: what is recorded  *)
(* and what the calls under way may still add stays below the cap plus one *)
(* call per caller.                                                        *)
OvershootBounded ==
  spent + MaxCost * Cardinality(UnderWay) <= SpendCap - 1 + MaxCost * Cardinality(Callers)
=============================================================================
