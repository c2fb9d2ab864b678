---------------------------- MODULE Extraction ----------------------------
(***************************************************************************)
(* The LLM calls of an analysis (signal/extractor.py and the call of       *)
(* SignalPipeline.analyze), over the client of LLMClient: every document   *)
(* not in the cache is extracted, a few at a time, then the market is      *)
(* analysed.  Several analyses of one market run at once, beside other     *)
(* users of the same client.                                               *)
(***************************************************************************)
EXTENDS Naturals, FiniteSets

CONSTANTS
  Analysts,      \* tasks that analyse the market: signal loop, dashboard, CLI
  Loop,          \* the signal loop, one of them
  Docs,          \* the retrieved documents that need an extraction
  Main,          \* stands for the market_analysis call
  Jev,           \* a user of system_one
  Slots,         \* max_concurrency of a batch
  SpendCap, MaxCost, MaxErrors

Callers == (Analysts \X (Docs \cup {Main})) \cup {Jev}

ASSUME ExtractionAssumption ==
  /\ IsFiniteSet(Docs) /\ IsFiniteSet(Analysts) /\ Loop \in Analysts
  /\ Main \notin Docs /\ Slots \in Nat \ {0}
  /\ SpendCap \in Nat \ {0} /\ MaxCost \in Nat \ {0} /\ MaxErrors \in Nat \ {0}

VARIABLES
  spent, errors, call, bill,   \* of LLMClient
  stored,    \* document_extracts rows of the market, for this prompt version
  at,        \* per analyst: idle, extract or main
  todo       \* per analyst: the documents of the batch that were not stored

INSTANCE LLMClient WITH JevCallers <- {Jev}

client == <<spent, errors, call, bill>>
vars   == <<client, stored, at, todo>>

Extracts(a) == {<<a, d>> : d \in todo[a]}
InFlight(a) == {c \in Extracts(a) : call[c] \in {"sent", "paid"}}

Init ==
  /\ ClientInit
  /\ stored = {}
  /\ at = [a \in Analysts |-> "idle"] /\ todo = [a \in Analysts |-> {}]

(* _load_cached. *)
LoadCached(a) ==
  /\ at[a] = "idle"
  /\ at' = [at EXCEPT ![a] = "extract"]
  /\ todo' = [todo EXCEPT ![a] = Docs \ stored]
  /\ UNCHANGED <<client, stored>>

(* extract_document: its request, or the exception of the cap. *)
AskExtract(a, d) ==
  /\ at[a] = "extract" /\ d \in todo[a]
  /\ Cardinality(InFlight(a)) < Slots
  /\ Ask(<<a, d>>) \/ Refuse(<<a, d>>)
  /\ UNCHANGED <<stored, at, todo>>

Forget(calls) == call' = [c \in Callers |-> IF c \in calls THEN "idle" ELSE call[c]]

(* An extraction that failed falls back to an excerpt, which is not stored. *)
Answered(a) == {d \in todo[a] : call[<<a, d>>] = "ok"}

\* Mutant: a batch replaces what is stored.
PersistLast(a) ==
  /\ at[a] = "extract"
  /\ \A c \in Extracts(a) : call[c] \in {"ok", "error"}
  /\ stored' = Answered(a)
  /\ Forget(Extracts(a))
  /\ at' = [at EXCEPT ![a] = "main"] /\ todo' = [todo EXCEPT ![a] = {}]
  /\ UNCHANGED <<spent, errors, bill>>

(* _persist and its commit, on conflict do nothing. *)
Persist(a) ==
  /\ at[a] = "extract"
  /\ \A c \in Extracts(a) : call[c] \in {"ok", "error"}
  /\ stored' = stored \cup Answered(a)
  /\ Forget(Extracts(a))
  /\ at' = [at EXCEPT ![a] = "main"] /\ todo' = [todo EXCEPT ![a] = {}]
  /\ UNCHANGED <<spent, errors, bill>>

(* An exception that is no LLMError leaves asyncio.gather and the analysis. *)
(* The other extractions run on with nobody to take their results; the      *)
(* analyst is back when they are over.                                     *)
BatchRaises(a) ==
  /\ at[a] = "extract"
  /\ \A c \in Extracts(a) : call[c] \in {"ok", "error", "raised"}
  /\ \E c \in Extracts(a) : call[c] = "raised"
  /\ Forget(Extracts(a))
  /\ at' = [at EXCEPT ![a] = "idle"] /\ todo' = [todo EXCEPT ![a] = {}]
  /\ UNCHANGED <<spent, errors, bill, stored>>

AskMain(a) ==
  /\ at[a] = "main"
  /\ Ask(<<a, Main>>) \/ Refuse(<<a, Main>>)
  /\ UNCHANGED <<stored, at, todo>>

(* A signal, None, or an exception: SignalPipeline has what follows. *)
EndAnalysis(a) ==
  /\ at[a] = "main"
  /\ Return(<<a, Main>>)
  /\ at' = [at EXCEPT ![a] = "idle"]
  /\ UNCHANGED <<stored, todo>>

Progress(c) == Answer(c) /\ UNCHANGED <<stored, at, todo>>

JevCalls == (Ask(Jev) \/ Refuse(Jev) \/ Return(Jev)) /\ UNCHANGED <<stored, at, todo>>

NewDay == Midnight /\ UNCHANGED <<stored, at, todo>>

(* The process dies: what its calls cost is not recorded. *)
Restart ==
  /\ errors' = 0
  /\ call' = [c \in Callers |-> "idle"] /\ bill' = [c \in Callers |-> 0]
  /\ at' = [a \in Analysts |-> "idle"] /\ todo' = [a \in Analysts |-> {}]
  /\ UNCHANGED <<spent, stored>>

Batch(a) ==
  \/ LoadCached(a) \/ (\E d \in Docs : AskExtract(a, d)) \/ Persist(a) \/ BatchRaises(a)
  \/ AskMain(a) \/ EndAnalysis(a)

Next ==
  \/ \E a \in Analysts : Batch(a)
  \/ \E c \in Callers : Progress(c)
  \/ JevCalls \/ NewDay \/ Restart

Spec == Init /\ [][Next]_vars

(* The signal loop analyses again and again, a call ends (the HTTP client's *)
(* timeout), and one that is made again and again is answered one day.      *)
FairSpec ==
  /\ Spec
  /\ WF_vars(Batch(Loop))
  /\ \A x \in Docs \cup {Main} : WF_vars(Progress(<<Loop, x>>))
  /\ \A d \in Docs, phase \in {"paid", "ok"} :
       SF_vars(Progress(<<Loop, d>>) /\ call'[<<Loop, d>>] = phase)

-----------------------------------------------------------------------------
(* Each variable has its type. *)
TypeOK ==
  /\ ClientTypeOK
  /\ stored \subseteq Docs
  /\ at \in [Analysts -> {"idle", "extract", "main"}]
  /\ todo \in [Analysts -> SUBSET Docs]

(* _persist: "extracts already paid for must survive rather than roll back  *)
(* and be re-bought on the next pass".  An extraction that was answered and *)
(* can be used leaves its batch only into the cache.                        *)
PaidExtractsKept ==
  [][\A a \in Analysts, d \in Docs :
       call[<<a, d>>] = "ok" /\ call'[<<a, d>>] = "idle" => Restart \/ d \in stored']_vars

(* Fallbacks are not stored, lest "one bad API minute stick": while nothing  *)
(* raises, calls may go on failing and analyses overlapping, and in the end  *)
(* every document is in the cache all the same.                             *)
Raises == \E c \in Callers \ {Jev} : call[c] # "raised" /\ call'[c] = "raised"

AllExtracted == <>[][~Raises /\ ~Restart]_vars => <>[](stored = Docs)
=============================================================================
