------------------------------- MODULE ArmCell -------------------------------
(***************************************************************************)
(* Who commands the arm, whoever switches and whenever a request lands:    *)
(* the position command and the torque on top of it each have one owner    *)
(* or none, and change hands only by these steps.  The arm is held at      *)
(* rest, where trajectories run, or armed; only crisp_py's switcher and an *)
(* adapter that gives up leave it with less.  What is promised of a        *)
(* trajectory and a torque holds until crisp_py's switcher has been used   *)
(* beside other work.  ControllerSwitch implements it.                     *)
(***************************************************************************)
VARIABLES
    position,   \* "trajectory", "passthrough" or "nobody"
    effort,     \* "overlay", "zero" or "nobody"
    moving,     \* a trajectory runs
    crossed     \* crisp_py's switcher has been used beside other work

vars == <<position, effort, moving, crossed>>

\* Not a torque under a trajectory, nor the pair that holds nothing.
Orderly ==
    /\ ~(position = "trajectory" /\ effort = "overlay")
    /\ ~(position = "passthrough" /\ effort = "zero")

Init ==
    /\ position \in {"trajectory", "passthrough", "nobody"}
    /\ effort \in {"overlay", "zero", "nobody"}
    /\ Orderly
    /\ ~moving /\ ~crossed

\* The launch file's spawner claims what is free, before anything is armed.
BringUp ==
    /\ effort = "nobody" /\ position \in {"trajectory", "nobody"}
    /\ \/ position = "nobody" /\ position' = "trajectory" /\ UNCHANGED effort
       \/ effort' = "zero" /\ UNCHANGED position
    /\ UNCHANGED moving

\* Both commands change hands at once, unless an adapter fails as it takes
\* over; a trajectory ends with its owner.
Arm ==
    /\ position = "trajectory" /\ effort = "zero"
    /\ position' \in {"passthrough", "nobody"} /\ effort' = "overlay" /\ ~moving'

Disarm ==
    /\ position = "passthrough" /\ effort # "zero"
    /\ position' = "trajectory" /\ effort' \in {"zero", "nobody"}
    /\ UNCHANGED moving

\* crisp_py's switcher keeps the passthrough and never raises zero effort.
\* Used alone, it is used on an armed arm only.
Swap ==
    /\ ~crossed => position # "trajectory" /\ effort # "zero"
    /\ position' \in {"trajectory", "passthrough", "nobody"}
    /\ position = "passthrough" => position' = "passthrough"
    /\ effort' \in {"overlay", "nobody"} \/ effort' = effort
    /\ moving' = (moving /\ position' = "trajectory")

\* The position command alone is taken for a move, from the pair that holds
\* nothing, which only a crossed switch leaves behind.
TakeOver ==
    /\ crossed
    /\ position = "passthrough" /\ position' = "trajectory"
    /\ UNCHANGED <<effort, moving>>

\* An adapter that cannot read or write.
Fail ==
    /\ \/ position = "passthrough" /\ position' = "nobody" /\ UNCHANGED effort
       \/ effort = "zero" /\ effort' = "nobody" /\ UNCHANGED position
    /\ UNCHANGED moving

MoveBegins ==
    /\ position = "trajectory"
    /\ ~crossed => effort # "overlay"
    /\ moving' = TRUE
    /\ UNCHANGED <<position, effort>>

MoveEnds ==
    /\ moving' = FALSE
    /\ UNCHANGED <<position, effort>>

Idle == UNCHANGED <<position, effort, moving>>

Next ==
    /\ \/ BringUp \/ Arm \/ Disarm \/ Swap \/ TakeOver \/ Fail
       \/ MoveBegins \/ MoveEnds \/ Idle
    /\ crossed' \in BOOLEAN /\ (crossed => crossed')

Spec == Init /\ [][Next]_vars
=============================================================================
