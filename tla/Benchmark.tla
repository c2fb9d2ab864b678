----------------------------- MODULE Benchmark ------------------------------
(***************************************************************************)
(* The benchmark (bench/scenarios.py, runner.py, eval_cache.py and         *)
(* scripts/benchmark_signals.py): past signals of resolved markets are put *)
(* to a candidate model, every scenario a number of times, and each answer *)
(* paid for is kept in a file so that the next run takes it from there.    *)
(* A run stops at the spend cap, or is killed, and is started again.       *)
(***************************************************************************)
EXTENDS FiniteSets, Functions, Integers, Sequences

CONSTANTS Markets,     \* markets with signals
          Signals,     \* signals of each market, in time order
          MaxReps,     \* bound: --reps
          MaxCalls,    \* bound: candidate calls in all
          MaxRuns,     \* bound: times the script is started
          Idle         \* no run in progress

VARIABLES kind,        \* what each market is to the benchmark: see Kinds
          cache,       \* prompt -> the answers on file, each a call's number
          rev,         \* the tool schema and parser the calls are made with
          calls,       \* candidate calls made so far: the next call's number
          asked,       \* the largest --reps any run was started with
          runs,        \* times the script was started
          run          \* the run in progress, or Idle

vars == <<kind, cache, rev, calls, asked, runs, run>>

Scenario == Markets \X (1..Signals)

\* Two signals of one minute have the same prompt: the last two of a market.
Prompt(s) == <<s[1], IF s[2] = Signals THEN Signals - 1 ELSE s[2]>>
Prompts == { Prompt(s) : s \in Scenario }

\* Only a finalized market with a yes/no result, closed after the candidate's
\* training cutoff, is scored.
Kinds == {"open", "old", "usable"}

Init == /\ kind \in [Markets -> Kinds]
        /\ cache = [p \in Prompts |-> <<>>]
        /\ rev = 0
        /\ calls = 0
        /\ asked = 0
        /\ runs = 0
        /\ run = Idle

-----------------------------------------------------------------------------
(* The sample.                                                             *)

(* Python's round: halves go to the even neighbour. *)
RoundDiv(a, b) ==
  LET q == a \div b
      r == 2 * (a % b)
  IN IF r > b \/ (r = b /\ q % 2 = 1) THEN q + 1 ELSE q

(* --per-market spread:k: which of n signals are kept.                     *)
Spread(n, k) ==
  IF n <= k THEN 1..n
  ELSE IF k = 1 THEN {n}
  ELSE { 1 + RoundDiv(i * (n - 1), k - 1) : i \in 0..(k - 1) }

SampleModes == ({"all", "first", "last"} \X {0}) \cup ({"spread"} \X (1..Signals))

PerMarket(mode) ==
  CASE mode[1] = "all" -> 1..Signals
    [] mode[1] = "first" -> {1}
    [] mode[1] = "last" -> {Signals}
    [] OTHER -> Spread(Signals, mode[2])

(* build_db_scenarios / build_fixture_scenarios, then filter_contaminated. *)
Usable == { m \in Markets : kind[m] = "usable" }

(* sample_markets and sample_per_market. *)
Sampled(ms, mode) == ms \X PerMarket(mode)

(* Scenarios are run by market and time; nothing below depends on the order. *)
First(todo) == CHOOSE s \in todo : TRUE

-----------------------------------------------------------------------------
(* The run.                                                                *)

(* estimate_run: the calls this run will have to pay for.                  *)
Saved(p, reps) == IF Len(cache[p]) < reps THEN Len(cache[p]) ELSE reps

Estimate(todo, reps) ==
  SumFunction([s \in todo |-> reps - Saved(Prompt(s), reps)])

Start(ms, mode, reps) ==
  /\ run = Idle
  /\ runs < MaxRuns
  /\ LET todo == Sampled(ms, mode)
     IN run' = [todo |-> todo, reps |-> reps, got |-> <<>>,
                onFile |-> IF todo = {} THEN <<>> ELSE cache[Prompt(First(todo))],
                paid |-> 0, estimate |-> Estimate(todo, reps)]
  /\ asked' = IF reps > asked THEN reps ELSE asked
  /\ runs' = runs + 1
  /\ UNCHANGED <<kind, cache, rev, calls>>

Running == run # Idle /\ run.todo # {} /\ Len(run.got) < run.reps
Asked == Prompt(First(run.todo))

(* The answers on file are read once, when the scenario is reached.        *)
Record(i) == run.onFile[i]

Serve == /\ Running
         /\ Len(run.got) < Len(run.onFile)
         /\ run' = [run EXCEPT !.got = Append(@, Record(Len(@) + 1))]
         /\ UNCHANGED <<kind, cache, rev, calls, asked, runs>>

(* A repetition the file has no answer for.  Mutant: every repetition is   *)
(* paid for.                                                               *)
PaysAlways == /\ Running
              /\ calls < MaxCalls
              /\ calls' = calls + 1
Pays == /\ Running
        /\ Len(run.got) >= Len(run.onFile)
        /\ calls < MaxCalls
        /\ calls' = calls + 1

Answer == [call |-> calls + 1, rev |-> rev]

(* EvalCache.append: read, append, write. *)
Appended(p) == Append(cache[p], Answer)

(* _call_candidate: an answer that parses is kept on file. *)
Call == /\ Pays
        /\ run' = [run EXCEPT !.got = Append(@, Answer), !.paid = @ + 1]
        /\ cache' = [cache EXCEPT ![Asked] = Appended(Asked)]
        /\ UNCHANGED <<kind, rev, asked, runs>>

(* An error, or an answer that does not parse: counted, never kept. *)
CallFails == /\ Pays
             /\ run' = [run EXCEPT !.got = Append(@, Answer), !.paid = @ + 1]
             /\ UNCHANGED <<kind, cache, rev, asked, runs>>

(* The next scenario; after the last one the run is scored and over. *)
Advance == /\ run # Idle
           /\ run.todo = {} \/ Len(run.got) = run.reps
           /\ LET left == {s \in run.todo : s # First(run.todo)}
              IN run' = IF left = {} THEN Idle
                        ELSE [run EXCEPT !.todo = left, !.got = <<>>,
                                         !.onFile = cache[Prompt(First(left))]]
           /\ UNCHANGED <<kind, cache, rev, calls, asked, runs>>

(* The spend cap, too many errors in a row, or the operator ends the run;  *)
(* what was kept stays.                                                    *)
Interrupt == /\ Running
             /\ run' = Idle
             /\ UNCHANGED <<kind, cache, rev, calls, asked, runs>>

(* Killed while the file is written: the entry no longer parses, and counts *)
(* as empty.                                                                *)
Killed == /\ Pays
          /\ run' = Idle
          /\ cache' = [cache EXCEPT ![Asked] = <<>>]
          /\ UNCHANGED <<kind, rev, asked, runs>>

(* The tool schema, max_tokens or the response parser is changed. *)
Revise == /\ rev = 0
          /\ run = Idle
          /\ rev' = 1
          /\ UNCHANGED <<kind, cache, calls, asked, runs, run>>

Next == \/ \E ms \in SUBSET Usable, mode \in SampleModes, reps \in 1..MaxReps : Start(ms, mode, reps)
        \/ Serve
        \/ Call
        \/ CallFails
        \/ Advance
        \/ Interrupt
        \/ Killed
        \/ Revise

Spec == Init /\ [][Next]_vars

-----------------------------------------------------------------------------

(* A run never makes more calls than --estimate-only announced, whatever   *)
(* earlier runs left on file, with whatever number of repetitions.         *)
EstimateBounds == run # Idle => run.paid <= run.estimate

(* No answer is counted twice for a scenario: its spread is that of        *)
(* independent repetitions, not of copies (eval_cache.py:12).              *)
RepsDistinct ==
  run # Idle => IsInjective(run.got)

(* However often runs are stopped and repeated, a prompt is never paid for *)
(* more often than the largest number of repetitions asked for, but for    *)
(* the answers a failed parse or a killed write lost.                      *)
FiledOnce == \A p \in Prompts : Len(cache[p]) <= asked

(* A sample spread over two or more signals of a market holds its first    *)
(* and its last, and as many as were asked for.                            *)
SpreadKeepsEnds ==
  \A n \in 1..12 : \A k \in 2..12 :
    /\ {1, n} \subseteq Spread(n, k)
    /\ Spread(n, k) \subseteq 1..n
    /\ Cardinality(Spread(n, k)) = (IF n < k THEN n ELSE k)

-----------------------------------------------------------------------------
(* eval_cache.py:5: "The cache keys on everything that determines a        *)
(* candidate response ... so a hit is guaranteed to be the same            *)
(* experiment".  The tool schema and max_tokens are not in the key, and    *)
(* what is kept is the parser's output.                                    *)
HitIsSameExperiment ==
  run # Idle => \A i \in DOMAIN run.got : run.got[i].rev = rev
=============================================================================
