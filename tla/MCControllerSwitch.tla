------------------------- MODULE MCControllerSwitch -------------------------
(***************************************************************************)
(* Values for TLC: who operates, which names they may give to --switch,    *)
(* and what the first of them finds active.                                *)
(***************************************************************************)
EXTENDS ControllerSwitch, TLC

CARTESIAN == "cartesian_impedance_controller"
JOINT     == "joint_impedance_controller"

OneOverlay  == {CARTESIAN}
TwoOverlays == {CARTESIAN, JOINT}
TwoAndTrajectory == {CARTESIAN, JOINT, TRAJECTORY}

\* What the launch files start, and what switching by hand can leave.
BeforeBringup == {{WRENCH}}
RestOrArmed == {Rest, Armed(CARTESIAN)}

\* Operators differ only in name.
People == Permutations(Operators \ {Launcher})
=============================================================================
