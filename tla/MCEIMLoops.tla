----------------------------- MODULE MCEIMLoops -----------------------------
(* EIMLoops on two keys: every diff on k1, whole records only on k2. *)
EXTENDS EIMLoops

CONSTANTS k1, k2, f, g, v, w

MCKey == {k1, k2}
MCField == {f, g}
MCValue == {v, w}
MCOperand ==
  {d \in Diff : d.inc[k2] \in {Blank, [x \in Field |-> v]}}
=============================================================================
