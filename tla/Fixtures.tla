------------------------------ MODULE Fixtures ------------------------------
(***************************************************************************)
(* Replay fixtures (replay/recorder.py, engine.py, fixtures.py,            *)
(* context_parser.py): a signal's prompt is frozen into a file, either     *)
(* from the live tables (`fixtures record`) or, once the market has        *)
(* resolved, by parsing the stored prompt back (`fixtures record-bank`).   *)
(* The test suite replays the committed file and fails on any difference.  *)
(*                                                                         *)
(* Content is "then" (what the signal's prompt showed), "later" (rewritten *)
(* before the market resolved), "outcome" (rewritten after, so that it     *)
(* gives the answer away) or "garbled" (a block the parser misreads).      *)
(* Code texts are version numbers: the templates of the prompt's parts,    *)
(* the system prompt and the tool schema.                                  *)
(***************************************************************************)
EXTENDS Naturals

CONSTANTS Blocks,      \* the optional blocks the signal's prompt had
          Style,       \* how its evidence was rendered: see Styles
          MaxEdits,    \* bound: edits of the code's texts
          None         \* no file, no expectations, no full body

VARIABLES world,       \* what the tables hold now, by part
          settled,     \* the market is finalized with a binary result
          code,        \* [version, text]: the working tree
          files,       \* the committed fixture and the bank's: None or a file
          merged,      \* [code, expect]: what the last green test run let in
          edits

vars == <<world, settled, code, files, merged, edits>>

Styles == {"excerpts",      \* head of each document (before T101)
           "extracts",      \* extracts, every document kept
           "omitting"}      \* extracts, and the unrelated documents left out

\* The parts build_prompt renders; a document's body past the excerpt is not.
Parts == {"market", "evidence"} \cup (Blocks \cap {"series", "phrase"})
Texts == Parts \cup {"system", "tool"}

\* What a fixture file freezes: what each part shows, and the full body.
Content == {"then", "later", "outcome", "garbled"}
Inputs  == [shown : [Parts -> Content], body : Content \cup {None}]

\* The signal's stored raw_context, written by the code of version 0.
RawContext == [p \in Parts |-> <<0, "then">>]

(* build_prompt on a fixture's inputs, with the code's templates. *)
Rendered(c, inputs) == [p \in Parts |-> <<c.text[p], inputs.shown[p]>>]

(* compute_expectations: what the current code makes of the inputs. *)
Expectations(c, inputs) ==
  [version |-> c.version, prompt |-> Rendered(c, inputs), system |-> c.text["system"]]

File(c, inputs) == [inputs |-> inputs, expect |-> Expectations(c, inputs)]

Init == /\ world = [p \in Parts \cup {"body"} |-> "then"]
        /\ settled = FALSE
        /\ code = [version |-> 0, text |-> [t \in Texts |-> 0]]
        /\ files = [live |-> None, bank |-> None]
        /\ merged = [code |-> code, expect |-> None]
        /\ edits = 0

(* The tables move on: documents are upserted, rules amended, counts      *)
(* refreshed.  The evidence is the head of the document's body, so a live *)
(* blog may be rewritten below it and keep its head.                      *)
Drift(p) == /\ world' = [world EXCEPT ![p] = IF settled THEN "outcome" ELSE "later"]
            /\ UNCHANGED <<settled, code, files, merged, edits>>

Settle == /\ ~settled
          /\ settled' = TRUE
          /\ UNCHANGED <<world, code, files, merged, edits>>

(* A programmer changes one text, and bumps PROMPT_VERSION or forgets to. *)
Edit(t, bump) ==
  /\ edits < MaxEdits
  /\ edits' = edits + 1
  /\ code' = [version |-> IF bump THEN code.version + 1 ELSE code.version,
              text |-> [code.text EXCEPT ![t] = @ + 1]]
  /\ UNCHANGED <<world, settled, files, merged>>

(* fixtures record: documents, counts and market row as the tables hold   *)
(* them; differences from the stored prompt are warnings.                 *)
LiveInputs == [shown |-> [p \in Parts |-> world[p]], body |-> world["body"]]

RecordLive == /\ files' = [files EXCEPT !.live = File(code, LiveInputs)]
              /\ UNCHANGED <<world, settled, code, merged, edits>>

(* The full body of a document is carried when its head still renders the *)
(* frozen excerpt; an extract never does.                                 *)
FullBody == IF Style = "excerpts" /\ world["evidence"] = "then" THEN world["body"] ELSE None

(* context_parser: every part is read back from the stored prompt, and a  *)
(* text the block's pattern does not expect (a line break inside a quote  *)
(* or a title) is misread.                                                *)
Parsed == { [shown |-> s, body |-> FullBody] : s \in [Parts -> {"then", "garbled"}] }

(* The hard gate of a frozen recording; a live one is only warned about.   *)
RoundTrips(inputs) == Rendered(code, inputs) = RawContext

(* fixtures record-bank: a resolved market's signal.  The documents named *)
(* in the prompt must be the signal's sources, all of them.               *)
RecordBank(inputs) ==
  /\ settled
  /\ Style # "omitting"
  /\ RoundTrips(inputs)
  /\ files' = [files EXCEPT !.bank = File(code, inputs)]
  /\ UNCHANGED <<world, settled, code, merged, edits>>

(* fixtures replay --update: expectations regenerated from the inputs. *)
Update == /\ files.live # None
          /\ files' = [files EXCEPT !.live = File(code, @.inputs)]
          /\ UNCHANGED <<world, settled, code, merged, edits>>

(* replay_fixture: the prompt under an unchanged version, the version, and *)
(* the system prompt's hash.                                               *)
Green(f) ==
  LET now == Expectations(code, f.inputs)
  IN /\ now.version = f.expect.version
     /\ now.prompt = f.expect.prompt
     /\ now.system = f.expect.system

(* The test suite passes with the committed fixture, and the change is in. *)
Merge == /\ files.live # None
         /\ Green(files.live)
         /\ merged' = [code |-> code, expect |-> files.live.expect]
         /\ UNCHANGED <<world, settled, code, files, edits>>

Next == \/ \E p \in Parts \cup {"body"} : Drift(p)
        \/ Settle
        \/ \E t \in Texts, bump \in BOOLEAN : Edit(t, bump)
        \/ RecordLive
        \/ \E inputs \in Parsed : RecordBank(inputs)
        \/ Update
        \/ Merge

Spec == Init /\ [][Next]_vars

-----------------------------------------------------------------------------

(* Every prompt a bank fixture renders is, part by part, about the world   *)
(* the signal saw: nothing of the outcome, and nothing the parser misread, *)
(* reaches the model being benchmarked (recorder.py, "byte-equality proves *)
(* the reconstruction is exact").                                          *)
BankIsAsOf ==
  files.bank # None =>
    /\ files.bank.inputs \in Inputs
    /\ \A p \in Parts : files.bank.inputs.shown[p] = "then"

(* A change of the prompt's templates or of the system prompt does not get *)
(* past the replay tests unseen: the committed fixture's expectations      *)
(* changed with it, in the same review, or the fixture was recorded anew.  *)
EditsShow ==
  [][/\ merged'.expect # None
     /\ merged.expect # None
     /\ \E t \in Parts \cup {"system"} : merged'.code.text[t] # merged.code.text[t]
     => merged'.expect # merged.expect]_vars

-----------------------------------------------------------------------------
(* What the sources say and these runs refute.                             *)

(* recorder.py: a frozen recording has "no leakage, no drift".  The full   *)
(* body carried for extraction is vouched for by its head alone.           *)
BankHidesOutcome == files.bank # None => files.bank.inputs.body # "outcome"

(* recorder.py: a frozen recording "is mandatory for already-resolved      *)
(* markets"; `fixtures record` never asks whether the market resolved.     *)
LiveHidesOutcome ==
  files.live # None => \A p \in Parts : files.live.inputs.shown[p] # "outcome"

(* docs/DEVELOPMENT.md:77: the replay guards "fail on any unbumped edit"    *)
(* of SYSTEM_PROMPT or build_prompt; --update accepts one under the old    *)
(* version.                                                                *)
UnbumpedEditsCaught ==
  [][ (/\ merged'.expect # None
       /\ merged.expect # None
       /\ \E t \in Parts \cup {"system"} : merged'.code.text[t] # merged.code.text[t])
      => merged'.code.version # merged.code.version ]_vars
=============================================================================
