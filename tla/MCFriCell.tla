------------------------------ MODULE MCFriCell ------------------------------
(***************************************************************************)
(* Values for TLC: an arm of two joints that stands in one of three        *)
(* configurations, and what its operator may find active: the torque       *)
(* controller it switches to takes over from the other one.                *)
(***************************************************************************)
EXTENDS FriCell

CARTESIAN == "cartesian_impedance_controller"
JOINT     == "joint_impedance_controller"

OneOverlay  == {CARTESIAN}
TwoOverlays == {CARTESIAN, JOINT}

RestOrArmed == {Rest, Armed(JOINT)}

Upright == <<0, 0>>
OnALine == {<<0, 0>>, <<1, 1>>, <<2, 2>>}
=============================================================================
