--------------------------- MODULE OperatorProofs ---------------------------
(***************************************************************************)
(* Proofs about the operator's side, for any number of updates, stops,     *)
(* positions, strategies, fields and edits: what the operator is told of a *)
(* confirmation is so, an update is handled again only by another process, *)
(* and confirmed settings outlive a restart and end with their strategy.   *)
(*                                                                         *)
(* CommandsInv and SettingsInv are the inductive invariants of Operator and*)
(* of RuntimeConfig; OperatorSpec runs either.                             *)
(***************************************************************************)
EXTENDS MCOperator, FiniteSums

Whats == {"state", "exit", "delete", "exitAll", "shutdown", "confirm", "cancel"}
Args == Commanded \cup Positions \cup {"none"} \cup Nat
Message == [what : Whats, arg : Args]
Action == [act : Whats, arg : Args]

Prompt == [does : Action, shown : BOOLEAN, armed : BOOLEAN, ran : Nat, notice : BOOLEAN]

Doing == [what : {"idle"}] \cup [what : {"asking"}, prompt : Nat]
           \cup [what : {"acting"}, does : Action]
           \cup [what : {"closing"}, todo : SUBSET Positions]

(* Updates are numbered as they are sent, and fetched by their numbers.    *)
Numbered ==
  /\ sent \in 0 .. MaxSent /\ offset \in Nat /\ stops \in Nat
  /\ handled \in [1 .. MaxSent -> Nat]
  /\ DOMAIN chan \subseteq 1 .. sent /\ chan \in [DOMAIN chan -> Message]
  /\ DOMAIN batch \subseteq 1 .. sent /\ batch \in [DOMAIN batch -> Message]

(* What the process has fetched lies below its offset; what it has not     *)
(* handled yet was handled at most once by each process before it.         *)
HandledHere ==
  /\ \A u \in DOMAIN batch : u < offset
  /\ \A u \in 1 .. MaxSent :
       /\ handled[u] <= 1 + stops
       /\ u >= offset \/ u \in DOMAIN batch => handled[u] <= stops

(* A prompt whose callbacks are registered has not been answered yet.      *)
Answerable ==
  /\ prompts \in Seq(Prompt) /\ registry \subseteq DOMAIN prompts
  /\ doing \in Doing /\ (doing.what = "asking" => doing.prompt \in DOMAIN prompts)
  /\ \A n \in registry : prompts[n].ran = 0 /\ ~prompts[n].notice

CommandsInv == Numbered /\ HandledHere /\ Answerable /\ NoticeTrue

-----------------------------------------------------------------------------
(* The lowest and the highest of a set of numbers.                         *)
LEMMA IntervalMin ==
  ASSUME NEW N \in Nat, NEW S \in SUBSET (1 .. N), S # {}
  PROVE  Min(S) \in S /\ \A x \in S : Min(S) <= x
<1> DEFINE F == {1 .. k : k \in S}
<1>1. IsFiniteSet(1 .. N)
  BY FS_Interval
<1>2. F \in SUBSET (SUBSET (1 .. N)) /\ F # {}
  <2>1. \A k \in S : 1 .. k \in SUBSET (1 .. N)
    OBVIOUS
  <2> QED
    BY <2>1
<1>3. PICK I \in F : \A J \in F : J \subseteq I => J = I
  <2> DEFINE R == 1 .. N
  <2>1. IsFiniteSet(R) /\ F \in SUBSET (SUBSET R) /\ F # {}
    BY <1>1, <1>2
  <2> HIDE DEF F, R
  <2> QED
    BY <2>1, MinimalSubset
<1>4. PICK m \in S : I = 1 .. m
  BY <1>3
<1>5. ASSUME NEW x \in S, x < m PROVE FALSE
  <2>1. 1 .. x \in F /\ 1 .. x \subseteq 1 .. m /\ m \in 1 .. m /\ m \notin 1 .. x
    BY <1>5
  <2> QED
    BY <1>3, <1>4, <2>1
<1>6. \A x \in S : m <= x
  BY <1>5
<1> QED
  BY <1>6 DEF Min

LEMMA IntervalMax ==
  ASSUME NEW N \in Nat, NEW S \in SUBSET (1 .. N), S # {}
  PROVE  Max(S) \in S /\ \A x \in S : x <= Max(S)
<1> DEFINE F == {k .. N : k \in S}
<1>1. IsFiniteSet(1 .. N)
  BY FS_Interval
<1>2. F \in SUBSET (SUBSET (1 .. N)) /\ F # {}
  <2>1. \A k \in S : k .. N \in SUBSET (1 .. N)
    OBVIOUS
  <2> QED
    BY <2>1
<1>3. PICK I \in F : \A J \in F : J \subseteq I => J = I
  <2> DEFINE R == 1 .. N
  <2>1. IsFiniteSet(R) /\ F \in SUBSET (SUBSET R) /\ F # {}
    BY <1>1, <1>2
  <2> HIDE DEF F, R
  <2> QED
    BY <2>1, MinimalSubset
<1>4. PICK m \in S : I = m .. N
  BY <1>3
<1>5. ASSUME NEW x \in S, m < x PROVE FALSE
  <2>1. x .. N \in F /\ x .. N \subseteq m .. N /\ m \in m .. N /\ m \notin x .. N
    BY <1>5
  <2> QED
    BY <1>3, <1>4, <2>1
<1>6. \A x \in S : x <= m
  BY <1>5
<1> QED
  BY <1>6 DEF Max

(* Of an empty batch nothing is left to handle.                            *)
LEMMA EmptyBatch ==
  ASSUME NEW f, NEW S, f \in [DOMAIN f -> S], DOMAIN f = {}
  PROVE  f = <<>>
<1>1. f \in [{} -> S]
  OBVIOUS
<1> QED
  BY <1>1

(* A prompt is changed where it is.                                        *)
LEMMA PromptSet ==
  ASSUME NEW s \in Seq(Prompt), NEW n \in DOMAIN s, NEW p \in Prompt
  PROVE  /\ [s EXCEPT ![n] = p] \in Seq(Prompt)
         /\ DOMAIN [s EXCEPT ![n] = p] = DOMAIN s
         /\ [s EXCEPT ![n] = p][n] = p
         /\ \A m \in DOMAIN s \ {n} : [s EXCEPT ![n] = p][m] = s[m]
  OBVIOUS

-----------------------------------------------------------------------------
LEMMA CommandsStart == Init => CommandsInv
<1> SUFFICES ASSUME Init PROVE CommandsInv
  OBVIOUS
<1>1. DOMAIN chan = {} /\ DOMAIN batch = {}
  BY DEF Init
<1>2. Numbered
  BY <1>1, OperatorAssumption DEF Init, Numbered
<1>3. HandledHere
  BY <1>1, OperatorAssumption DEF Init, HandledHere
<1>4. Answerable /\ NoticeTrue
  BY DEF Init, Answerable, NoticeTrue, Doing, Idle
<1> QED
  BY <1>2, <1>3, <1>4 DEF CommandsInv

(* A new update has a number of its own.                                   *)
LEMMA PutKept ==
  ASSUME CommandsInv, NEW m \in Message, Put(m),
         UNCHANGED <<handled, stops, offset, batch, doing, prompts, registry>>
  PROVE  CommandsInv'
<1>1. sent \in 0 .. MaxSent /\ sent' = sent + 1 /\ sent' \in 0 .. MaxSent
  BY OperatorAssumption DEF CommandsInv, Numbered, Put
<1>2. DOMAIN chan' \subseteq 1 .. sent' /\ chan' \in [DOMAIN chan' -> Message]
  BY <1>1 DEF CommandsInv, Numbered, Put
<1>3. DOMAIN batch \subseteq 1 .. sent'
  BY <1>1 DEF CommandsInv, Numbered
<1>4. Numbered'
  BY <1>1, <1>2, <1>3 DEF CommandsInv, Numbered
<1> QED
  BY <1>4 DEF CommandsInv, HandledHere, Answerable, NoticeTrue

(* What a fetch returns this process has not handled, and lies below the   *)
(* offset that the fetch leaves.                                           *)
LEMMA FetchKept == ASSUME CommandsInv, Fetch PROVE CommandsInv'
<1>1. CASE batch' = <<>>
  <2>1. DOMAIN batch' = {} /\ offset' = offset
    BY <1>1 DEF Fetch, NextOffset
  <2>2. DOMAIN chan' \subseteq DOMAIN chan /\ chan' \in [DOMAIN chan' -> Message]
    BY DEF Fetch, Unconfirmed, RestrictDomain, Restrict, CommandsInv, Numbered
  <2>3. Numbered'
    BY <1>1, <2>1, <2>2 DEF CommandsInv, Numbered, Fetch, process
  <2> QED
    BY <2>1, <2>3 DEF CommandsInv, HandledHere, Answerable, NoticeTrue, Fetch, process
<1>2. CASE batch' # <<>>
  <2>1. batch' = Unconfirmed /\ chan' = Unconfirmed
    BY <1>2 DEF Fetch
  <2>2. /\ DOMAIN Unconfirmed \subseteq DOMAIN chan /\ Unconfirmed \in [DOMAIN Unconfirmed -> Message]
        /\ \A u \in DOMAIN Unconfirmed : u >= offset
    BY DEF Unconfirmed, RestrictDomain, Restrict, CommandsInv, Numbered
  <2>3. DOMAIN batch' # {}
    BY <1>2, <2>1, <2>2, EmptyBatch
  <2>4. sent \in Nat /\ DOMAIN batch' \subseteq 1 .. sent
    BY <2>1, <2>2 DEF CommandsInv, Numbered
  <2> DEFINE last == Max(DOMAIN batch')
  <2>5. last \in DOMAIN batch' /\ \A u \in DOMAIN batch' : u <= last
    BY <2>3, <2>4, IntervalMax
  <2>6. offset' = last + 1
    BY <1>2 DEF Fetch, NextOffset
  <2>7. last \in 1 .. sent /\ last >= offset
    BY <2>1, <2>2, <2>4, <2>5
  <2> HIDE DEF last
  <2>8. Numbered'
    BY <2>1, <2>2, <2>4, <2>6, <2>7 DEF CommandsInv, Numbered, Fetch, process
  <2>9. HandledHere'
    <3>1. \A u \in DOMAIN batch' : u < offset'
      BY <2>4, <2>5, <2>6, <2>7
    <3>2. ASSUME NEW u \in 1 .. MaxSent
          PROVE  /\ handled[u] <= 1 + stops
                 /\ u >= offset' \/ u \in DOMAIN batch' => handled[u] <= stops
      <4>1. u >= offset' \/ u \in DOMAIN batch' => u >= offset
        BY <2>1, <2>2, <2>6, <2>7, OperatorAssumption DEF CommandsInv, Numbered
      <4> QED
        BY <4>1 DEF CommandsInv, HandledHere
    <3> QED
      BY <3>1, <3>2 DEF HandledHere, Fetch, process
  <2> QED
    BY <2>8, <2>9 DEF CommandsInv, Answerable, NoticeTrue, Fetch
<1> QED
  BY <1>1, <1>2

(* The update that is taken leaves the batch with its first handling.      *)
LEMMA TakeKept ==
  ASSUME CommandsInv, NEW whats, Take(whats)
  PROVE  Numbered' /\ HandledHere' /\ Update \in Message /\ Update.what \in whats
<1>1. DOMAIN batch # {} /\ sent \in Nat /\ DOMAIN batch \subseteq 1 .. sent
  <2>1. batch # <<>>
    BY DEF Take
  <2>2. batch \in [DOMAIN batch -> Message] /\ sent \in Nat /\ DOMAIN batch \subseteq 1 .. sent
    BY DEF CommandsInv, Numbered
  <2> QED
    BY <2>1, <2>2, EmptyBatch
<1>2. Current \in DOMAIN batch
  BY <1>1, IntervalMin DEF Current
<1>3. Update \in Message /\ Update.what \in whats
  BY <1>2 DEF Take, Update, CommandsInv, Numbered
<1>4. Current \in 1 .. MaxSent
  BY <1>1, <1>2, OperatorAssumption DEF CommandsInv, Numbered
<1>5. DOMAIN batch' = DOMAIN batch \ {Current} /\ batch' \in [DOMAIN batch' -> Message]
  BY DEF Take, Restrict, CommandsInv, Numbered
<1>6. handled' = [handled EXCEPT ![Current] = handled[Current] + 1]
  BY DEF Take
<1>7. Numbered'
  <2>1. handled' \in [1 .. MaxSent -> Nat]
    BY <1>4, <1>6 DEF CommandsInv, Numbered
  <2> QED
    BY <1>1, <1>5, <2>1 DEF Take, process, CommandsInv, Numbered
<1>8. HandledHere'
  <2>1. \A u \in DOMAIN batch' : u < offset'
    BY <1>5 DEF Take, CommandsInv, HandledHere
  <2>2. ASSUME NEW u \in 1 .. MaxSent
        PROVE  /\ handled'[u] <= 1 + stops
               /\ u >= offset \/ u \in DOMAIN batch' => handled'[u] <= stops
    <3>1. CASE u = Current
      <4>1. u < offset /\ handled[u] <= stops /\ u \notin DOMAIN batch'
        BY <1>2, <1>5, <3>1 DEF CommandsInv, HandledHere
      <4> QED
        BY <1>6, <3>1, <4>1 DEF CommandsInv, Numbered
    <3>2. CASE u # Current
      BY <1>5, <1>6, <3>2 DEF CommandsInv, Numbered, HandledHere
    <3> QED
      BY <3>1, <3>2
  <2> QED
    BY <2>1, <2>2 DEF HandledHere, Take, process
<1> QED
  BY <1>3, <1>7, <1>8

(* A process that ends forgets its prompts, and the next one starts over.  *)
LEMMA ForgottenKept == ASSUME CommandsInv, Forgotten PROVE CommandsInv'
<1>1. DOMAIN batch' = {} /\ stops' = stops + 1
  BY DEF Forgotten
<1>2. Numbered'
  BY <1>1 DEF Forgotten, CommandsInv, Numbered
<1>3. HandledHere'
  BY <1>1 DEF Forgotten, CommandsInv, Numbered, HandledHere
<1>4. ASSUME NEW n \in DOMAIN prompts
      PROVE  /\ [prompts[n] EXCEPT !.armed = FALSE] \in Prompt
             /\ [prompts[n] EXCEPT !.armed = FALSE].ran = prompts[n].ran
             /\ [prompts[n] EXCEPT !.armed = FALSE].notice = prompts[n].notice
  <2>1. prompts[n] \in Prompt
    BY DEF CommandsInv, Answerable
  <2> QED
    BY <2>1 DEF Prompt
<1>5. prompts' \in Seq(Prompt) /\ DOMAIN prompts' = DOMAIN prompts
  BY <1>4 DEF Forgotten, CommandsInv, Answerable
<1>6. Answerable'
  BY <1>5 DEF Forgotten, Answerable, Doing, Idle
<1>7. NoticeTrue'
  BY <1>4, <1>5 DEF Forgotten, CommandsInv, NoticeTrue
<1> QED
  BY <1>2, <1>3, <1>6, <1>7 DEF CommandsInv

-----------------------------------------------------------------------------
(* The prompts.  A prompt that is not registered any more may be run or    *)
(* announced no further, so every step that does either takes it away.     *)
LEMMA PromptTyped ==
  ASSUME CommandsInv, NEW n \in DOMAIN prompts
  PROVE  /\ prompts[n] \in Prompt
         /\ \A b \in BOOLEAN : [prompts[n] EXCEPT !.shown = b, !.armed = TRUE] \in Prompt
         /\ [prompts[n] EXCEPT !.ran = prompts[n].ran + 1, !.armed = FALSE] \in Prompt
         /\ [prompts[n] EXCEPT !.notice = TRUE, !.armed = FALSE] \in Prompt
<1>1. prompts[n] \in Prompt
  BY DEF CommandsInv, Answerable
<1>2. \A b \in BOOLEAN : [prompts[n] EXCEPT !.shown = b, !.armed = TRUE] \in Prompt
  BY <1>1 DEF Prompt
<1>3. [prompts[n] EXCEPT !.ran = prompts[n].ran + 1, !.armed = FALSE] \in Prompt
  <2>1. prompts[n].ran + 1 \in Nat
    BY <1>1 DEF Prompt
  <2> QED
    BY <1>1, <2>1 DEF Prompt
<1>4. [prompts[n] EXCEPT !.notice = TRUE, !.armed = FALSE] \in Prompt
  BY <1>1 DEF Prompt
<1> QED
  BY <1>1, <1>2, <1>3, <1>4

(* A keyboard is sent, or not; the prompt is as answered as it was.        *)
LEMMA AskedKept == ASSUME CommandsInv, Asked PROVE CommandsInv'
<1> DEFINE n == doing.prompt
<1>1. n \in DOMAIN prompts
  BY DEF Asked, CommandsInv, Answerable
<1>2. PICK b \in BOOLEAN : prompts' = [prompts EXCEPT ![n] = [prompts[n] EXCEPT !.shown = b, !.armed = TRUE]]
  BY DEF Asked
<1> DEFINE p == [prompts[n] EXCEPT !.shown = b, !.armed = TRUE]
<1>3. p \in Prompt /\ p.ran = prompts[n].ran /\ p.notice = prompts[n].notice
  BY <1>1, PromptTyped DEF Prompt
<1> HIDE DEF p, n
<1>4. /\ prompts' \in Seq(Prompt) /\ DOMAIN prompts' = DOMAIN prompts /\ prompts'[n] = p
      /\ \A m \in DOMAIN prompts \ {n} : prompts'[m] = prompts[m]
  BY <1>1, <1>2, <1>3, PromptSet DEF p, CommandsInv, Answerable
<1>5. Answerable'
  BY <1>3, <1>4 DEF Asked, CommandsInv, Answerable, Doing, Idle
<1>6. NoticeTrue'
  BY <1>3, <1>4 DEF CommandsInv, NoticeTrue
<1> QED
  BY <1>5, <1>6 DEF Asked, telegram, process, CommandsInv, Numbered, HandledHere

(* A registered prompt is answered: it is run or announced, and gone.      *)
LEMMA AnsweredOnce ==
  ASSUME CommandsInv, NEW n \in registry, registry' = registry \ {n},
         NEW p \in Prompt, prompts' = [prompts EXCEPT ![n] = p],
         p.ran + (IF p.notice THEN 1 ELSE 0) <= 1,
         doing' \in Doing, doing'.what = "asking" => UNCHANGED doing
  PROVE  Answerable' /\ NoticeTrue'
<1>1. n \in DOMAIN prompts /\ prompts \in Seq(Prompt)
  BY DEF CommandsInv, Answerable
<1>2. /\ prompts' \in Seq(Prompt) /\ DOMAIN prompts' = DOMAIN prompts /\ prompts'[n] = p
      /\ \A m \in DOMAIN prompts \ {n} : prompts'[m] = prompts[m]
  BY <1>1, PromptSet
<1>3. Answerable'
  BY <1>2 DEF CommandsInv, Answerable
<1>4. NoticeTrue'
  BY <1>2 DEF CommandsInv, NoticeTrue
<1> QED
  BY <1>3, <1>4

LEMMA ConfirmAnswers ==
  ASSUME CommandsInv, NEW n \in registry, Confirmed(n)
  PROVE  Answerable' /\ NoticeTrue'
<1>1. n \in DOMAIN prompts /\ prompts[n].ran = 0 /\ ~prompts[n].notice
  BY DEF CommandsInv, Answerable
<1> DEFINE p == [prompts[n] EXCEPT !.ran = prompts[n].ran + 1, !.armed = FALSE]
<1>2. p \in Prompt /\ p.ran = 1 /\ p.notice = FALSE
  <2>1. prompts[n] \in Prompt /\ p \in Prompt
    BY <1>1, PromptTyped
  <2>2. p.ran = prompts[n].ran + 1 /\ p.notice = prompts[n].notice
    BY <2>1 DEF Prompt
  <2> QED
    BY <1>1, <2>1, <2>2 DEF Prompt
<1>3. prompts' = [prompts EXCEPT ![n] = p] /\ registry' = registry \ {n}
  BY DEF Confirmed
<1>4. doing' \in Doing /\ doing'.what = "acting"
  BY <1>1, PromptTyped DEF Confirmed, Doing, Prompt
<1> HIDE DEF p
<1>5. p.ran + (IF p.notice THEN 1 ELSE 0) <= 1
  BY <1>2
<1> QED
  BY <1>2, <1>3, <1>4, <1>5, AnsweredOnce

LEMMA NoticeAnswers ==
  ASSUME CommandsInv, NEW n \in registry, registry' = registry \ {n}, UNCHANGED doing,
         prompts' = [prompts EXCEPT ![n].notice = TRUE, ![n].armed = FALSE]
                 \/ prompts' = [prompts EXCEPT ![n].armed = FALSE, ![n].notice = TRUE]
  PROVE  Answerable' /\ NoticeTrue'
<1>1. n \in DOMAIN prompts /\ prompts[n].ran = 0
  BY DEF CommandsInv, Answerable
<1> DEFINE p == [prompts[n] EXCEPT !.notice = TRUE, !.armed = FALSE]
<1>2. p \in Prompt /\ p.ran = 0 /\ p.notice = TRUE
  BY <1>1, PromptTyped DEF Prompt
<1>3. prompts' = [prompts EXCEPT ![n] = p]
  <2>1. [prompts[n] EXCEPT !.armed = FALSE, !.notice = TRUE] = p
    BY <1>1, PromptTyped DEF Prompt
  <2> QED
    BY <1>1, <2>1 DEF CommandsInv, Answerable
<1>4. doing' \in Doing
  BY DEF CommandsInv, Answerable
<1> HIDE DEF p
<1>5. p.ran + (IF p.notice THEN 1 ELSE 0) <= 1
  BY <1>2
<1> QED
  BY <1>2, <1>3, <1>4, <1>5, AnsweredOnce

(* A new prompt has not been answered.                                     *)
LEMMA AskAnswerable ==
  ASSUME CommandsInv, Update \in Message, HandleAsk
  PROVE  Answerable' /\ NoticeTrue'
<1> DEFINE p == [does |-> Acts(Update), shown |-> FALSE, armed |-> FALSE, ran |-> 0, notice |-> FALSE]
<1>1. p \in Prompt
  BY DEF Message, Acts, Action, Prompt
<1>2. prompts \in Seq(Prompt) /\ registry \subseteq DOMAIN prompts
  BY DEF CommandsInv, Answerable
<1>3. prompts' = Append(prompts, p) /\ registry' = registry \cup {Len(prompts) + 1}
      /\ doing' = [what |-> "asking", prompt |-> Len(prompts) + 1]
  BY DEF HandleAsk
<1> DEFINE k == Len(prompts) + 1
<1>4. /\ prompts' \in Seq(Prompt) /\ DOMAIN prompts' = DOMAIN prompts \cup {k}
      /\ prompts'[k] = p /\ k \notin DOMAIN prompts /\ k \in Nat
      /\ \A m \in DOMAIN prompts : prompts'[m] = prompts[m]
  BY <1>1, <1>2, <1>3
<1>5. p.ran = 0 /\ p.notice = FALSE
  OBVIOUS
<1> HIDE DEF p, k
<1>6. doing' \in Doing /\ doing'.prompt = k
  BY <1>3, <1>4 DEF k, Doing
<1>7. Answerable'
  BY <1>3, <1>4, <1>5, <1>6 DEF k, CommandsInv, Answerable
<1>8. NoticeTrue'
  BY <1>4, <1>5 DEF CommandsInv, NoticeTrue
<1> QED
  BY <1>7, <1>8

(* Whatever the handler of an update does to the prompts, the update has   *)
(* left the batch.                                                         *)
LEMMA HandlerKept == ASSUME CommandsInv, Handler PROVE CommandsInv'
<1>1. CASE HandleState
  BY <1>1, TakeKept DEF HandleState, CommandsInv, Answerable, NoticeTrue
<1>2. CASE HandleAsk
  BY <1>2, TakeKept, AskAnswerable DEF HandleAsk, CommandsInv
<1>3. CASE HandleAct
  <2>1. Numbered' /\ HandledHere' /\ Update \in Message
    BY <1>3, TakeKept DEF HandleAct
  <2>2. doing' \in Doing /\ doing'.what = "acting"
    BY <1>3, <2>1 DEF HandleAct, Doing, Acts, Action, Message
  <2> QED
    BY <1>3, <2>1, <2>2 DEF HandleAct, CommandsInv, Answerable, NoticeTrue
<1>4. CASE HandleConfirm
  <2>1. Numbered' /\ HandledHere'
    BY <1>4, TakeKept DEF HandleConfirm
  <2>2. CASE Update.arg \in registry
    BY <1>4, <2>1, <2>2, ConfirmAnswers DEF HandleConfirm, CommandsInv
  <2>3. CASE Update.arg \notin registry
    BY <1>4, <2>1, <2>3 DEF HandleConfirm, CommandsInv, Answerable, NoticeTrue
  <2> QED
    BY <2>2, <2>3
<1>5. CASE HandleCancel
  <2>1. Numbered' /\ HandledHere'
    BY <1>5, TakeKept DEF HandleCancel
  <2>2. Answerable' /\ NoticeTrue'
    BY <1>5, NoticeAnswers DEF HandleCancel
  <2> QED
    BY <2>1, <2>2 DEF CommandsInv
<1>6. CASE HandleLateCancel
  BY <1>6, TakeKept DEF HandleLateCancel, CommandsInv, Answerable, NoticeTrue
<1>7. CASE Asked
  BY <1>7, AskedKept
<1>8. CASE ListsAll \/ ClosesNext \/ ClosedAll \/ (\E p \in Positions : ExitsOne(p) \/ Deletes(p))
  <2>1. doing' \in Doing /\ doing'.what \in {"idle", "closing"}
    <3>1. CASE ListsAll
      BY <3>1 DEF ListsAll, Doing
    <3>2. CASE ClosesNext
      <4>1. doing \in [what : {"closing"}, todo : SUBSET Positions]
        BY <3>2 DEF ClosesNext, CommandsInv, Answerable, Doing
      <4> QED
        BY <3>2, <4>1 DEF ClosesNext, Doing
    <3>3. CASE doing' = Idle
      BY <3>3 DEF Idle, Doing
    <3> QED
      BY <1>8, <3>1, <3>2, <3>3 DEF ClosedAll, ExitsOne, Deletes
  <2>2. UNCHANGED <<telegram, handled, process, prompts, registry>>
    BY <1>8 DEF ListsAll, ClosesNext, ClosedAll, ExitsOne, Deletes
  <2> QED
    BY <2>1, <2>2 DEF telegram, process, CommandsInv, Numbered, HandledHere, Answerable, NoticeTrue
<1>9. CASE ShutsDown
  BY <1>9, ForgottenKept DEF ShutsDown
<1> QED
  BY <1>1, <1>2, <1>3, <1>4, <1>5, <1>6, <1>7, <1>8, <1>9 DEF Handler

LEMMA CommandsKept == CommandsInv /\ [Next]_vars => CommandsInv'
<1> SUFFICES ASSUME CommandsInv, [Next]_vars PROVE CommandsInv'
  OBVIOUS
<1>1. CASE UNCHANGED vars
  BY <1>1 DEF vars, process, CommandsInv, Numbered, HandledHere, Answerable, NoticeTrue
<1>2. ASSUME NEW c \in Commands, SendCommand(c) PROVE CommandsInv'
  <2>1. c \in Message
    BY DEF Commands, Message, Whats, Args
  <2> QED
    BY <1>2, <2>1, PutKept DEF SendCommand, process
<1>3. ASSUME NEW t \in Taps, Tap(t) PROVE CommandsInv'
  <2>1. t \in Message
    BY DEF Taps, Message, Whats, Args, CommandsInv, Answerable
  <2> QED
    BY <1>3, <2>1, PutKept DEF Tap, process
<1>4. ASSUME NEW n \in DOMAIN prompts, TimerFires(n) PROVE CommandsInv'
  <2>1. Answerable' /\ NoticeTrue'
    BY <1>4, NoticeAnswers DEF TimerFires
  <2> QED
    BY <1>4, <2>1 DEF TimerFires, telegram, process, CommandsInv, Numbered, HandledHere
<1>5. CASE (\E s \in Clicked : DashboardState(s)) \/ Starts
  BY <1>5 DEF DashboardState, Starts, telegram, process, CommandsInv, Numbered, HandledHere,
     Answerable, NoticeTrue
<1>6. CASE Stops
  BY <1>6, ForgottenKept DEF Stops
<1> QED
  BY <1>1, <1>2, <1>3, <1>4, <1>5, <1>6, FetchKept, HandlerKept DEF Next

-----------------------------------------------------------------------------
(* The settings.                                                           *)
Edit == [pc : {"read", "save"}, strategy : C!Strategies, edit : C!Edits]

SettingsTyped ==
  /\ table \in [C!Keys -> C!Edits] /\ inForce \in C!Edits
  /\ ran \in C!Strategies \cup {"none"} /\ proc \in C!Strategies \cup {"down"}
  /\ stage \in {"reads", "names", "done"} /\ entwined \in BOOLEAN
  /\ put \in [Requests -> Edit \cup {C!NoPut}]

(* What is saved for the strategy that runs is field by field.             *)
Saved(f) == table[C!Key(proc)][f] # "default"

(* While no edit overlaps another or a start-up, an edit in progress is the *)
(* only one, is for the strategy that runs, and once it has read what was   *)
(* saved it holds all of it.                                               *)
OneEdit ==
  ~entwined =>
    /\ \A i, j \in C!Busy : i = j
    /\ \A i \in C!Busy :
         /\ C!Started /\ put[i].strategy = proc
         /\ put[i].pc = "save" => \A f \in Fields : Saved(f) => put[i].edit[f] # "default"

(* What the tasks trade by beyond the defaults is saved.                    *)
InForceSaved ==
  C!Up /\ ~entwined => \A f \in Fields : inForce[f] # "default" => Saved(f)

StartedIsNamed == C!Started => ran = proc

(* A start-up that goes on to name its strategy has none of the old ones'  *)
(* overrides left.                                                         *)
NamesForgets == ~entwined /\ C!Up /\ stage = "names" => \A s \in Builtin : table[s] = C!Empty

SettingsInv ==
  SettingsTyped /\ StartedIsNamed /\ OneEdit /\ InForceSaved /\ NamesForgets /\ C!SwitchForgets

(* Merging keeps what either side sets.                                    *)
LEMMA OverSets ==
  ASSUME NEW a \in C!Edits, NEW b \in C!Edits
  PROVE  /\ C!Over(a, b) \in C!Edits
         /\ \A f \in Fields : C!Over(a, b)[f] # "default" <=> a[f] # "default" \/ b[f] # "default"
  BY DEF C!Over, C!Edits, C!Default

LEMMA EmptyIsEdit == C!Empty \in C!Edits /\ \A f \in Fields : C!Empty[f] = "default"
  BY DEF C!Empty, C!Edits, C!Default

(* The overrides of a strategy are not under another strategy's name.      *)
LEMMA KeysApart ==
  ASSUME NEW s \in C!Strategies
  PROVE  /\ C!Key(s) \in C!Keys /\ s \in C!Keys /\ s \notin {"none", "down"}
         /\ s \in Builtin => C!Key(s) = s
         /\ \A t \in C!Strategies : t # s => C!Key(s) # t
         /\ \A t \in Builtin : C!Key(s) = t => s = t
  BY SettingsAssumption DEF C!Strategies, C!Keys, C!Key

(* An edit in progress is one of the requests, and typed.                  *)
LEMMA BusyTyped ==
  ASSUME SettingsTyped, NEW i \in Requests
  PROVE  /\ i \in C!Busy <=> put[i] \in Edit
         /\ put[i].pc \in {"read", "save"} => put[i] \in Edit
         /\ i \notin C!Busy <=> put[i] = C!NoPut
<1>1. \A e \in Edit : e # C!NoPut
  <2> SUFFICES ASSUME NEW e \in Edit, e = C!NoPut PROVE FALSE
    OBVIOUS
  <2>1. e.pc \in {"read", "save"} /\ C!NoPut.pc = "idle"
    BY DEF Edit, C!NoPut
  <2> QED
    BY <2>1
<1>2. C!NoPut.pc = "idle"
  BY DEF C!NoPut
<1> QED
  BY <1>1, <1>2 DEF SettingsTyped, C!Busy

LEMMA SettingsStart == C!Init => SettingsInv
<1> SUFFICES ASSUME C!Init PROVE SettingsInv
  OBVIOUS
<1>1. SettingsTyped
  BY EmptyIsEdit DEF C!Init, SettingsTyped
<1>2. C!Busy = {}
  BY DEF C!Init, C!Busy
<1> QED
  BY <1>1, <1>2 DEF C!Init, SettingsInv, OneEdit, InForceSaved, StartedIsNamed, NamesForgets,
     C!SwitchForgets, C!Up, C!Started, C!Keys

-----------------------------------------------------------------------------
LEMMA OpensKept ==
  ASSUME SettingsInv, NEW i \in Requests, NEW edit \in C!Edits, C!PutOpens(i, edit)
  PROVE  SettingsInv'
<1>1. ran \in C!Strategies /\ put' = [put EXCEPT ![i] = [pc |-> "read", strategy |-> ran, edit |-> edit]]
  BY DEF SettingsInv, SettingsTyped, C!PutOpens
<1>2. table[ran] \in C!Edits /\ inForce \in C!Edits
  BY <1>1, KeysApart DEF SettingsInv, SettingsTyped
<1>3. [pc |-> "read", strategy |-> ran, edit |-> edit] \in Edit
  BY <1>1 DEF Edit
<1>4. inForce' \in C!Edits
  BY <1>2, OverSets DEF C!PutOpens
<1>5. SettingsTyped'
  BY <1>1, <1>3, <1>4 DEF SettingsInv, SettingsTyped, C!PutOpens, C!Busy, C!Started, C!Up
<1>6. ~entwined' => ~entwined /\ C!Busy = {} /\ C!Started /\ ran = proc
  BY DEF SettingsInv, SettingsTyped, StartedIsNamed, C!PutOpens
<1>7. OneEdit'
  <2> SUFFICES ASSUME ~entwined' PROVE OneEdit'
    BY DEF OneEdit
  <2>1. C!Busy' \subseteq {i}
    BY <1>1, <1>6 DEF C!Busy, SettingsInv, SettingsTyped
  <2>2. put'[i].pc = "read" /\ put'[i].strategy = ran
    BY <1>1 DEF SettingsInv, SettingsTyped
  <2> QED
    BY <1>6, <2>1, <2>2 DEF OneEdit, C!Started, C!Up, C!PutOpens
<1>8. InForceSaved'
  <2> SUFFICES ASSUME ~entwined', C!Up', NEW f \in Fields, inForce'[f] # "default" PROVE Saved(f)'
    BY DEF InForceSaved
  <2>1. inForce[f] # "default" \/ (C!Shared(ran) /\ table[ran][f] # "default")
    BY <1>2, OverSets DEF C!PutOpens
  <2>2. C!Shared(ran) => C!Key(proc) = ran
    BY <1>1, KeysApart DEF C!Shared
  <2> QED
    BY <1>6, <2>1, <2>2 DEF SettingsInv, InForceSaved, Saved, C!Up, C!PutOpens
<1> QED
  BY <1>5, <1>6, <1>7, <1>8 DEF SettingsInv, StartedIsNamed, NamesForgets, C!SwitchForgets, C!PutOpens,
     C!Started, C!Up

LEMMA ReadsKept ==
  ASSUME SettingsInv, NEW i \in Requests, C!PutReads(i)
  PROVE  SettingsInv'
<1>1. put[i] \in Edit /\ i \in C!Busy
  BY BusyTyped DEF SettingsInv, C!PutReads
<1> DEFINE merged == C!Over(table[C!Key(put[i].strategy)], put[i].edit)
           e == [pc |-> "save", strategy |-> put[i].strategy, edit |-> merged]
<1>2. put[i].strategy \in C!Strategies /\ put[i].edit \in C!Edits
  BY <1>1 DEF Edit
<1>3. table[C!Key(put[i].strategy)] \in C!Edits
  BY <1>2, KeysApart DEF SettingsInv, SettingsTyped
<1>4. /\ merged \in C!Edits
      /\ \A f \in Fields : table[C!Key(put[i].strategy)][f] # "default" => merged[f] # "default"
  BY <1>2, <1>3, OverSets
<1>5. put' = [put EXCEPT ![i] = e]
  BY DEF C!PutReads
<1> HIDE DEF merged
<1>6. e \in Edit /\ e.strategy = put[i].strategy /\ e.edit = merged
  BY <1>2, <1>4 DEF Edit
<1> HIDE DEF e
<1>7. SettingsTyped'
  BY <1>5, <1>6 DEF SettingsInv, SettingsTyped, C!PutReads
<1>8. put'[i] = e /\ \A j \in Requests \ {i} : put'[j] = put[j]
  BY <1>5 DEF SettingsInv, SettingsTyped
<1>9. C!Busy' \subseteq C!Busy
  BY <1>1, <1>8 DEF C!Busy
<1>10. OneEdit'
  <2> SUFFICES ASSUME ~entwined PROVE OneEdit'
    BY DEF OneEdit, C!PutReads
  <2>1. (\A j \in C!Busy : j = i) /\ C!Started /\ put[i].strategy = proc
    BY <1>1 DEF SettingsInv, OneEdit
  <2> QED
    BY <1>4, <1>6, <1>8, <1>9, <2>1 DEF OneEdit, Saved, C!Started, C!Up, C!PutReads
<1> QED
  BY <1>7, <1>10 DEF SettingsInv, StartedIsNamed, InForceSaved, Saved, NamesForgets, C!SwitchForgets,
     C!PutReads, C!Started, C!Up

LEMMA SavesKept ==
  ASSUME SettingsInv, NEW i \in Requests, C!PutSaves(i)
  PROVE  SettingsInv'
<1>1. put[i] \in Edit /\ i \in C!Busy
  BY BusyTyped DEF SettingsInv, C!PutSaves
<1> DEFINE key == C!Key(put[i].strategy)
           edit == put[i].edit
<1>2. put[i].strategy \in C!Strategies /\ edit \in C!Edits
  BY <1>1 DEF Edit
<1>3. key \in C!Keys
  BY <1>2, KeysApart
<1>4. /\ table' = [table EXCEPT ![key] = edit] /\ put' = [put EXCEPT ![i] = C!NoPut]
      /\ UNCHANGED <<ran, proc, stage, entwined>>
      /\ inForce' = inForce \/ inForce' = C!Over(inForce, edit)
  BY DEF C!PutSaves
<1> HIDE DEF edit, key
<1>5. inForce' \in C!Edits
  BY <1>2, <1>4, OverSets DEF SettingsInv, SettingsTyped
<1>6. SettingsTyped'
  BY <1>2, <1>3, <1>4, <1>5 DEF SettingsInv, SettingsTyped
<1>7. CASE entwined
  BY <1>4, <1>6, <1>7 DEF SettingsInv, StartedIsNamed, OneEdit, InForceSaved, NamesForgets,
     C!SwitchForgets, C!Started, C!Up
<1>8. CASE ~entwined
  <2>1. /\ \A j \in C!Busy : j = i
        /\ C!Started /\ put[i].strategy = proc /\ ran = proc
        /\ \A f \in Fields : Saved(f) => edit[f] # "default"
    BY <1>1, <1>8 DEF SettingsInv, OneEdit, StartedIsNamed, edit, C!PutSaves
  <2>2. key = C!Key(proc) /\ table'[key] = edit /\ \A k \in C!Keys \ {key} : table'[k] = table[k]
    BY <1>2, <1>3, <1>4, <2>1 DEF key, SettingsInv, SettingsTyped
  <2>3. C!Busy' = {}
    BY <1>4, <2>1 DEF C!Busy, SettingsInv, SettingsTyped
  <2>4. InForceSaved'
    <3> SUFFICES ASSUME NEW f \in Fields, inForce'[f] # "default" PROVE edit[f] # "default"
      BY <1>4, <2>2 DEF InForceSaved, Saved
    <3>1. inForce[f] # "default" \/ edit[f] # "default"
      BY <1>2, <1>4, OverSets DEF SettingsInv, SettingsTyped
    <3>2. inForce[f] # "default" => Saved(f)
      BY <1>8, <2>1 DEF SettingsInv, InForceSaved, C!Started
    <3> QED
      BY <2>1, <3>1, <3>2
  <2>5. C!SwitchForgets'
    <3> SUFFICES ASSUME NEW s \in Builtin, table'[s] # C!Empty PROVE s = ran
      BY <1>4 DEF C!SwitchForgets
    <3>1. CASE s = key
      BY <1>2, <2>1, <2>2, <3>1, KeysApart
    <3>2. CASE s # key
      BY <1>8, <2>2, <3>2 DEF SettingsInv, C!SwitchForgets, C!Keys
    <3> QED
      BY <3>1, <3>2
  <2> QED
    BY <1>4, <1>6, <2>1, <2>3, <2>4, <2>5 DEF SettingsInv, StartedIsNamed, OneEdit, NamesForgets,
       C!Started, C!Up
<1> QED
  BY <1>7, <1>8

LEMMA FailsKept ==
  ASSUME SettingsInv, NEW i \in Requests, C!PutFails(i)
  PROVE  SettingsInv'
<1>1. put'[i] = C!NoPut /\ \A j \in Requests \ {i} : put'[j] = put[j]
  BY DEF SettingsInv, SettingsTyped, C!PutFails
<1>2. C!Busy' \subseteq C!Busy /\ i \notin C!Busy'
  BY <1>1 DEF C!Busy
<1>3. SettingsTyped'
  BY DEF SettingsInv, SettingsTyped, C!PutFails
<1>4. OneEdit'
  BY <1>1, <1>2 DEF SettingsInv, OneEdit, Saved, C!Started, C!Up, C!PutFails, C!Busy
<1> QED
  BY <1>3, <1>4 DEF SettingsInv, StartedIsNamed, InForceSaved, Saved, NamesForgets, C!SwitchForgets,
     C!PutFails, C!Started, C!Up

LEMMA LoopKept == ASSUME SettingsInv, C!LoopReads PROVE SettingsInv'
<1>1. proc \in C!Strategies
  BY DEF SettingsInv, SettingsTyped, C!LoopReads, C!Up
<1>2. table[C!Key(proc)] \in C!Edits /\ inForce \in C!Edits
  BY <1>1, KeysApart DEF SettingsInv, SettingsTyped
<1>3. inForce' \in C!Edits
      /\ \A f \in Fields : inForce'[f] # "default" <=> inForce[f] # "default" \/ Saved(f)
  BY <1>2, OverSets DEF C!LoopReads, Saved
<1>4. SettingsTyped'
  BY <1>3 DEF SettingsInv, SettingsTyped, C!LoopReads
<1>5. OneEdit'
  BY DEF SettingsInv, OneEdit, Saved, C!Started, C!Up, C!LoopReads, C!Busy
<1>6. InForceSaved'
  BY <1>3 DEF SettingsInv, InForceSaved, Saved, C!Up, C!LoopReads
<1> QED
  BY <1>4, <1>5, <1>6 DEF SettingsInv, StartedIsNamed, NamesForgets, C!SwitchForgets,
     C!LoopReads, C!Started, C!Up

-----------------------------------------------------------------------------
(* The start-up and the end of a process: no edit is in progress, unless    *)
(* one has been entwined with them.                                        *)
LEMMA NoneBusy ==
  ASSUME SettingsInv, ~entwined, ~C!Started
  PROVE  C!Busy = {}
  BY DEF SettingsInv, OneEdit

LEMMA StartKept == ASSUME SettingsInv, NEW s \in C!Strategies, C!Start(s) PROVE SettingsInv'
<1>1. SettingsTyped'
  BY EmptyIsEdit DEF SettingsInv, SettingsTyped, C!Start
<1>2. ~C!Started /\ ~C!Started'
  BY DEF C!Start, C!Started
<1>3. ~entwined => C!Busy' = {}
  BY <1>2, NoneBusy DEF C!Start, C!Busy
<1>4. InForceSaved'
  BY EmptyIsEdit DEF InForceSaved, C!Start
<1> QED
  BY <1>1, <1>2, <1>3, <1>4 DEF SettingsInv, StartedIsNamed, OneEdit, NamesForgets, C!SwitchForgets,
     C!Start

LEMMA ForgetsKept == ASSUME SettingsInv, C!StartForgets PROVE SettingsInv'
<1>1. ran \in C!Strategies /\ proc \in C!Strategies /\ ran # proc
  BY DEF SettingsInv, SettingsTyped, C!StartForgets, C!Changed, C!Up
<1>2. ran \in C!Keys /\ C!Key(proc) \in C!Keys /\ C!Key(proc) # ran
  BY <1>1, KeysApart
<1>3. table'[ran] = C!Empty /\ \A k \in C!Keys \ {ran} : table'[k] = table[k]
  BY <1>2 DEF SettingsInv, SettingsTyped, C!StartForgets
<1>4. SettingsTyped'
  BY <1>2, EmptyIsEdit DEF SettingsInv, SettingsTyped, C!StartForgets
<1>5. ~C!Started /\ ~C!Started'
  BY DEF C!StartForgets, C!Started
<1>6. ~entwined => C!Busy' = {}
  BY <1>5, NoneBusy DEF SettingsInv, C!StartForgets, C!Busy
<1>7. InForceSaved'
  BY <1>2, <1>3 DEF SettingsInv, InForceSaved, Saved, C!StartForgets, C!Up
<1>8. NamesForgets' /\ C!SwitchForgets'
  BY <1>3 DEF SettingsInv, NamesForgets, C!SwitchForgets, C!StartForgets, C!Keys
<1> QED
  BY <1>4, <1>5, <1>6, <1>7, <1>8 DEF SettingsInv, StartedIsNamed, OneEdit, C!StartForgets

LEMMA NamesKept == ASSUME SettingsInv, C!StartNames PROVE SettingsInv'
<1>1. proc \in C!Strategies
  BY DEF SettingsInv, SettingsTyped, C!StartNames, C!Up
<1>2. SettingsTyped'
  BY <1>1 DEF SettingsInv, SettingsTyped, C!StartNames
<1>3. ~C!Started
  BY DEF C!StartNames, C!Started
<1>4. ~entwined => C!Busy' = {}
  BY <1>3, NoneBusy DEF C!StartNames, C!Busy
<1>5. InForceSaved'
  BY DEF SettingsInv, InForceSaved, Saved, C!StartNames, C!Up
<1>6. C!SwitchForgets'
  <2> SUFFICES ASSUME ~entwined, NEW s \in Builtin, table[s] # C!Empty PROVE s = proc
    BY DEF C!SwitchForgets, C!StartNames
  <2>1. s = ran /\ s # "none"
    BY SettingsAssumption DEF SettingsInv, C!SwitchForgets
  <2>2. stage # "names"
    BY DEF SettingsInv, NamesForgets, C!StartNames
  <2> QED
    BY <2>1, <2>2 DEF C!StartNames, C!Changed
<1> QED
  BY <1>2, <1>4, <1>5, <1>6 DEF SettingsInv, StartedIsNamed, OneEdit, NamesForgets, C!StartNames,
     C!Started

LEMMA StopKept == ASSUME SettingsInv, C!Stop PROVE SettingsInv'
<1>1. SettingsTyped'
  BY EmptyIsEdit DEF SettingsInv, SettingsTyped, C!Stop
<1>2. C!Busy' = {} /\ ~C!Up'
  BY DEF C!Stop, C!Busy, C!Up
<1> QED
  BY <1>1, <1>2 DEF SettingsInv, StartedIsNamed, OneEdit, InForceSaved, NamesForgets, C!SwitchForgets,
     C!Stop, C!Started

LEMMA SettingsKept == SettingsInv /\ [C!Next]_settings => SettingsInv'
<1> SUFFICES ASSUME SettingsInv, [C!Next]_settings PROVE SettingsInv'
  OBVIOUS
<1>1. CASE UNCHANGED settings
  BY <1>1 DEF settings, SettingsInv, SettingsTyped, StartedIsNamed, OneEdit, InForceSaved, Saved,
     NamesForgets, C!SwitchForgets, C!Started, C!Up, C!Busy
<1>2. CASE C!Next
  BY <1>2, OpensKept, ReadsKept, SavesKept, FailsKept, LoopKept, StartKept, ForgetsKept, NamesKept,
     StopKept DEF C!Next
<1> QED
  BY <1>1, <1>2

-----------------------------------------------------------------------------
(* A prompt is acted upon at most once and nobody is told "Action          *)
(* cancelled" of one that was, however often Telegram delivers the tap and *)
(* wherever the timer, the send or the end of the process falls.           *)
THEOREM NoticesAreTrue == Spec => []NoticeTrue
<1>1. CommandsInv => NoticeTrue
  BY DEF CommandsInv
<1> QED
  BY CommandsStart, CommandsKept, <1>1, PTL DEF Spec

(* A process handles an update at most once: only a process that stopped    *)
(* with it unconfirmed leaves it to the next one.                          *)
THEOREM OncePerProcess == Spec => []HandledOncePerProcess
<1>1. CommandsInv => HandledOncePerProcess
  BY DEF CommandsInv, HandledHere, HandledOncePerProcess
<1> QED
  BY CommandsStart, CommandsKept, <1>1, PTL DEF Spec

(* As long as edits come one at a time and not during a start-up, a restart *)
(* changes nothing of what the tasks trade by, and a built-in strategy that *)
(* comes back has none of the overrides it was left with.                  *)
LEMMA SettingsHold == SettingsInv => C!RestartKeeps /\ C!SwitchForgets
<1> SUFFICES ASSUME SettingsInv, C!Started, ~entwined PROVE C!RestartKeeps
  BY DEF C!RestartKeeps, SettingsInv
<1>1. proc \in C!Strategies
  BY DEF SettingsInv, SettingsTyped, C!Started, C!Up
<1>2. table[C!Key(proc)] \in C!Edits /\ inForce \in C!Edits
  BY <1>1, KeysApart DEF SettingsInv, SettingsTyped
<1>3. \A f \in Fields : inForce[f] # "default" => table[C!Key(proc)][f] # "default"
  BY DEF SettingsInv, InForceSaved, Saved, C!Started
<1>4. \A f \in Fields : C!Empty[f] = "default"
  BY EmptyIsEdit
<1>5. C!Over(C!Empty, table[C!Key(proc)]) = C!Over(inForce, table[C!Key(proc)])
  BY <1>3, <1>4 DEF C!Over, C!Default
<1> QED
  BY <1>5 DEF C!RestartKeeps

THEOREM SettingsSurvive == C!Spec => [](C!RestartKeeps /\ C!SwitchForgets)
<1>1. SettingsInv /\ [C!Next]_C!vars => SettingsInv'
  BY SettingsKept DEF settings, C!vars
<1> QED
  BY SettingsStart, <1>1, SettingsHold, PTL DEF C!Spec

(* What the operator was told is so, in the specification the run checks.  *)
THEOREM RepliesAreTrue == OperatorSpec => []RepliesHold /\ []HandledOncePerProcess
<1> DEFINE Inv == CommandsInv /\ SettingsInv
<1>1. OperatorInit => Inv
  BY CommandsStart, SettingsStart DEF OperatorInit
<1>2. Inv /\ [OperatorNext]_<<part, vars, settings>> => Inv'
  <2> SUFFICES ASSUME Inv, [OperatorNext]_<<part, vars, settings>> PROVE Inv'
    OBVIOUS
  <2>1. [Next]_vars /\ [C!Next]_settings
    BY DEF OperatorNext
  <2> QED
    BY <2>1, CommandsKept, SettingsKept
<1>3. Inv => RepliesHold /\ HandledOncePerProcess
  BY SettingsHold DEF CommandsInv, HandledHere, HandledOncePerProcess, RepliesHold
<1> HIDE DEF Inv
<1> QED
  BY <1>1, <1>2, <1>3, PTL DEF OperatorSpec
=============================================================================
