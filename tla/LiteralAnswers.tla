---------------------------- MODULE LiteralAnswers ----------------------------
(***************************************************************************)
(* What a scan decides about a detector's literals before the detector has *)
(* looked at the text, and when that is right (the header of               *)
(* detectors/prefilter.rs).  DetectorPrefilter has the matcher and the     *)
(* scans that decide.                                                      *)
(***************************************************************************)
EXTENDS Integers, Sequences

CONSTANT Nil       \* nothing
VARIABLE answer    \* what was just decided about some literals, or Nil

(* Where a literal is in a text.                                           *)
OccursAt(literal, text, at) ==
  /\ at + Len(literal) - 1 <= Len(text)
  /\ \A k \in DOMAIN literal : text[at + k - 1] = literal[k]
Occurs(literal, text) == \E at \in DOMAIN text : OccursAt(literal, text, at)

(* A detector is skipped, or a literal ruled out, only when none of its    *)
(* literals occurs in the text it was handed; and by the matcher exactly   *)
(* then (prefilter.rs:18-20).                                              *)
SkipsNothingFound ==
  answer # Nil =>
    LET occurs == \E l \in answer.literals : Occurs(l, answer.text) IN
    /\ answer.ruledOut => ~occurs
    /\ answer.exact => answer.ruledOut = ~occurs
=============================================================================
