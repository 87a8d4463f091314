--------------------------- MODULE TeleopEnvelope ---------------------------
(***************************************************************************)
(* The arithmetic of the teleop bridge's safety envelope: what             *)
(* scripts/haply_teleop_bridge.py does to one requested pose and to one    *)
(* requested nullspace anchor.  No state lives here; HaplyBridge applies   *)
(* these operators inside its tick.                                        *)
(*                                                                         *)
(* Data abstraction.  A position is one coordinate along the line the tip  *)
(* moves on and a rotation is one angle about a fixed axis, both integers  *)
(* in arbitrary units; all seven joints are clamped element by element, so *)
(* one joint stands for each of them.  On a line the code's vector         *)
(* scaling `prev + step * (max / dist)` is exactly Toward below.           *)
(***************************************************************************)
EXTENDS Integers

CONSTANTS
    None,           \* Python's None: no value yet
    AnchorTol,      \* --anchor-tol-m
    AnchorTolRot,   \* --anchor-tol-deg
    MaxStep,        \* --max-speed-m-s / --rate: translation allowed per tick
    MaxRot,         \* --max-rot-deg-s / --rate: rotation allowed per tick
    BoxMin, BoxMax, \* --workspace-min, --workspace-max
    MaxErr,         \* --max-error-m
    MaxErrRot,      \* --max-error-deg
    JointLimit,     \* JOINT_LIMITS
    JointMargin,    \* --joint-margin-rad
    MaxJointStep,   \* --max-joint-deg-s / --rate: anchor travel per tick
    CloseAbs,       \* numpy.allclose's atol
    CloseRel        \* 1 / numpy.allclose's rtol

ASSUME EnvelopeAssumption ==
    /\ {AnchorTol, AnchorTolRot, MaxStep, MaxRot, MaxErr, MaxErrRot,
        JointLimit, JointMargin, MaxJointStep, CloseAbs} \subseteq Nat
    /\ CloseRel \in Nat \ {0}
    /\ BoxMin \in Int /\ BoxMax \in Int /\ BoxMin <= BoxMax
    /\ JointMargin <= JointLimit
    /\ None \notin Int

\* A tip pose, as the bridge stores it in current_pose and commanded.
Pose == [position: Int, rotation: Int]

Distance(a, b) == IF a < b THEN b - a ELSE a - b

\* numpy.allclose: the tolerance grows with the second argument.
AllClose(a, b) == Distance(a, b) <= CloseAbs + Distance(b, 0) \div CloseRel

\* numpy.clip.
Clip(x, lo, hi) == IF x < lo THEN lo ELSE IF x > hi THEN hi ELSE x

\* The point at most `reach` from `from` on the way to `to`: every slew and
\* error clamp of the bridge scales the same displacement down to its limit.
Toward(from, to, reach) == from + Clip(to - from, -reach, reach)

\* The engage-edge test: is the request already where the arm is measured?
Anchored(request, measured) ==
    /\ Distance(request.position, measured.position) <= AnchorTol
    /\ Distance(request.rotation, measured.rotation) <= AnchorTolRot

(***************************************************************************)
(* Bridge._limit.  The order is the code's: slew from the previous         *)
(* command, then the workspace box, then the error bound about the         *)
(* measured pose (rotation has no box).  Here and in HaplyBridge, an       *)
(* operator named for a slip (..Forgotten, ..Unchecked) is a plausible     *)
(* mistake in the definition after it; no behaviour uses it.               *)
(***************************************************************************)
SlewForgotten(request, previous) == request.position

SlewedPosition(request, previous) ==
    Toward(previous.position, request.position, MaxStep)

BoxForgotten(request, previous) == SlewedPosition(request, previous)

BoxedPosition(request, previous) ==
    Clip(SlewedPosition(request, previous), BoxMin, BoxMax)

RotationSlewForgotten(request, previous) == request.rotation

SlewedRotation(request, previous) ==
    Toward(previous.rotation, request.rotation, MaxRot)

\* Slips: the error bound taken about the previous command, or in
\* translation only.
LimitAboutCommand(request, previous, measured) ==
    [position |-> Toward(previous.position, BoxedPosition(request, previous), MaxErr),
     rotation |-> Toward(measured.rotation, SlewedRotation(request, previous), MaxErrRot)]

LimitTranslationOnly(request, previous, measured) ==
    [position |-> Toward(measured.position, BoxedPosition(request, previous), MaxErr),
     rotation |-> SlewedRotation(request, previous)]

Limit(request, previous, measured) ==
    [position |-> Toward(measured.position, BoxedPosition(request, previous), MaxErr),
     rotation |-> Toward(measured.rotation, SlewedRotation(request, previous), MaxErrRot)]

\* The counters _limit raises: one per guard that changed what it was given.
\* The slew and the error bound test their own limit; a box clamp counts only
\* beyond numpy.allclose's tolerance.
SlewCountersOnly(request, previous, measured) ==
    {c \in {"clamped_lin", "clamped_rot"} :
        \/ c = "clamped_lin" /\ SlewedPosition(request, previous) # request.position
        \/ c = "clamped_rot" /\ SlewedRotation(request, previous) # request.rotation}

LimitCounters(request, previous, measured) ==
    LET limited == Limit(request, previous, measured)
    IN  {c \in {"clamped_lin", "clamped_rot", "clamped_box", "clamped_err"} :
            \/ c = "clamped_lin" /\ SlewedPosition(request, previous) # request.position
            \/ c = "clamped_rot" /\ SlewedRotation(request, previous) # request.rotation
            \/ c = "clamped_box" /\ ~AllClose(BoxedPosition(request, previous),
                                               SlewedPosition(request, previous))
            \/ c = "clamped_err" /\ \/ limited.position # BoxedPosition(request, previous)
                                    \/ limited.rotation # SlewedRotation(request, previous)}

(***************************************************************************)
(* Bridge._limit_joints.  `requested` is the packet's `joints` field: an   *)
(* integer, None when the packet carries none, or unreadable, which the    *)
(* code treats as "no update" (requested \notin Int covers both).          *)
(***************************************************************************)
JointRange == JointLimit - JointMargin

MarginWidens(requested) ==
    Clip(requested, -(JointLimit + JointMargin), JointLimit + JointMargin)

ClippedJoints(requested) == Clip(requested, -JointRange, JointRange)

JointShapeUnchecked(requested, previous) ==
    IF requested = None THEN previous
    ELSE IF requested \notin Int THEN requested
    ELSE IF previous = None THEN ClippedJoints(requested)
    ELSE Toward(previous, ClippedJoints(requested), MaxJointStep)

JointSlewForgotten(requested, previous) ==
    IF requested \notin Int THEN previous ELSE ClippedJoints(requested)

LimitJoints(requested, previous) ==
    IF requested \notin Int THEN previous
    ELSE IF previous = None THEN ClippedJoints(requested)
    ELSE Toward(previous, ClippedJoints(requested), MaxJointStep)

\* clamped_joint counts range and slew clamps alike.
JointCounters(requested, previous) ==
    IF /\ requested \in Int
       /\ \/ ~AllClose(ClippedJoints(requested), requested)
          \/ /\ previous # None
             /\ ~AllClose(LimitJoints(requested, previous) - previous,
                          ClippedJoints(requested) - previous)
    THEN {"clamped_joint"} ELSE {}

\* How far a position lies outside the workspace box; 0 inside it.
Outside(position) == Distance(position, Clip(position, BoxMin, BoxMax))
=============================================================================
