---------------------------- MODULE SignalAnswer ----------------------------
(***************************************************************************)
(* parse_signal_response (signal/llm.py): the four numbers and the         *)
(* direction of a model's answer, brought to fractions of one, made to     *)
(* agree with one another, or rejected.  Models answer in fractions, in    *)
(* percent, or with a mixture, so an answer is a meaning together with     *)
(* the unit each of its fields was written in.                             *)
(*                                                                         *)
(* Numbers are in ten-thousandths: 4500 is the fraction 0.45, and 450000   *)
(* is "45".                                                                *)
(***************************************************************************)
EXTENDS Integers

CONSTANTS Values,     \* meanings of a number, in ten-thousandths
          Strays      \* raw values that mean nothing: out of every range

VARIABLES answer      \* [meant, unit, raw]: by field; direction

Fields == {"prior", "posterior", "probability", "confidence"}
Directions == {"YES", "NO", "SKIP", "other"}
One == 10000
Half == 5000
Percent == 100

(* Assumed by MCReviews. *)
UnitsAssumption == Values \subseteq 0..One /\ Strays \subseteq Int

Written(v, unit) == IF unit = "percent" THEN Percent * v ELSE v

(* A model's answer.  Its probability may differ from its posterior. *)
Init == \E meant \in [Fields -> Values], unit \in [Fields -> {"fraction", "percent"}],
           dir \in Directions, stray \in Fields \cup {"no field"}, odd \in Strays :
          answer = [meant |-> meant, unit |-> unit, direction |-> dir,
                    raw |-> [f \in Fields |-> IF f = stray THEN odd
                                              ELSE Written(meant[f], unit[f])],
                    sound |-> stray = "no field"]

Next == UNCHANGED answer
Spec == Init /\ [][Next]_answer

-----------------------------------------------------------------------------

(* _as_unit_fraction.                                                      *)
Fraction(v) == IF v > One THEN v \div Percent ELSE v

Clamp(v) == IF v < 0 THEN 0 ELSE IF v > One THEN One ELSE v

Distance(a, b) == IF a > b THEN a - b ELSE b - a

(* The posterior is trusted when the two differ by more than 0.01. *)
Settled(n) ==
  IF Distance(n["probability"], n["posterior"]) > 100
  THEN [n EXCEPT !["probability"] = n["posterior"]]
  ELSE n

Numbers(raw) == [f \in Fields |-> Clamp(Fraction(raw[f]))]

(* The side and the probability must agree.                                *)
Agrees(dir, raw) ==
  LET p == Settled(Numbers(raw))["probability"]
  IN /\ dir \in {"YES", "NO", "SKIP"}
     /\ dir = "YES" => p >= Half
     /\ dir = "NO" => p <= Half

Accepted == Agrees(answer.direction, answer.raw)
Parsed == Settled(Numbers(answer.raw))

-----------------------------------------------------------------------------

(* What the pipeline trades on is never at odds with itself: the side, the *)
(* probability and the posterior of an accepted answer agree, so an edge   *)
(* is not fabricated from a number the model did not conclude.             *)
SideMatchesNumbers ==
  Accepted =>
    /\ \A f \in Fields : Parsed[f] \in 0..One
    /\ Distance(Parsed["probability"], Parsed["posterior"]) <= 100
    /\ answer.direction = "YES" => Parsed["probability"] >= Half
    /\ answer.direction = "NO" => Parsed["probability"] <= Half

(* An answer written in either unit, or in both, is understood as it was   *)
(* meant or it is rejected, when every number in percent is above "1".     *)
Understood ==
  answer.sound /\ (\A f \in Fields : answer.unit[f] = "percent" => answer.meant[f] > Percent) =>
    \A f \in Fields \ {"probability"} : Parsed[f] = answer.meant[f]

(* llm.py:683: a value above 1 is a percentage, "so rescale it rather than *)
(* clamp it".  "1" is one percent too, and is taken for certainty.         *)
UnderstoodDownToOnePercent ==
  Accepted /\ answer.sound /\ (\A f \in Fields : answer.unit[f] = "percent"
                                                  => answer.meant[f] >= Percent) =>
    \A f \in Fields \ {"probability"} : Parsed[f] = answer.meant[f]
=============================================================================
