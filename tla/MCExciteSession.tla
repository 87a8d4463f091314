--------------------------- MODULE MCExciteSession ---------------------------
(***************************************************************************)
(* Values for TLC: a plan of two or three samples on an arm whose tip      *)
(* moves with its joint.                                                   *)
(***************************************************************************)
EXTENDS ExciteSession

Angles == 0..2
Pair == 0..1
Still == {0}
StraightTip == [q \in JointAngles |-> [position |-> q, rotation |-> 0]]
ShortPlan == <<0, 1>>
=============================================================================
