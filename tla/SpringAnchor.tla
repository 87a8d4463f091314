---------------------------- MODULE SpringAnchor ----------------------------
(***************************************************************************)
(* What the teleop bridge promises the arm, whoever sends and whatever is  *)
(* sent: the point the controller's spring is anchored at either stays,    *)
(* or begins where the arm was last measured, or follows within the error  *)
(* bound of the newest measurement and no further outside the workspace    *)
(* box than the arm is.  HaplyBridge implements it.                        *)
(***************************************************************************)
EXTENDS TeleopEnvelope

VARIABLES
    anchor,     \* the latched target pose
    measured,   \* the newest measurement, None before the first
    following   \* somebody steers

vars == <<anchor, measured, following>>

Init == anchor = None /\ measured = None /\ following = FALSE

Measure ==
    /\ measured' \in Pose
    /\ UNCHANGED <<anchor, following>>

\* Also in the middle of an engagement, when the sender begins another.
Begin ==
    /\ measured # None
    /\ anchor' = measured
    /\ following' = TRUE
    /\ UNCHANGED measured

WithinReach(pose) ==
    /\ Distance(pose.position, measured.position) <= MaxErr
    /\ Distance(pose.rotation, measured.rotation) <= MaxErrRot
    /\ Outside(pose.position) <= Outside(measured.position)

Follow ==
    /\ following
    /\ anchor' \in Pose /\ WithinReach(anchor')
    /\ UNCHANGED <<measured, following>>

\* A release, a refusal, the watchdog, or the end of the process.
LetGo ==
    /\ following' = FALSE
    /\ measured' \in {measured, None}
    /\ UNCHANGED anchor

Next == Measure \/ Begin \/ Follow \/ LetGo

Spec == Init /\ [][Next]_vars
=============================================================================
