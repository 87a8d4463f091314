------------------------ MODULE TeleopEnvelopeProofs ------------------------
(***************************************************************************)
(* What the envelope's arithmetic guarantees for every setting of its      *)
(* limits.  HaplyBridgeProofs cites these by name.                         *)
(***************************************************************************)
EXTENDS TeleopEnvelope, TLAPS

(* A point moved toward another lands within reach of where it started:    *)
(* the bound each slew and error clamp of _limit is there to give.         *)
LEMMA TowardWithinReach ==
    ASSUME NEW from \in Int, NEW to \in Int, NEW reach \in Nat
    PROVE  /\ Toward(from, to, reach) \in Int
           /\ Distance(Toward(from, to, reach), from) <= reach
BY DEF Toward, Clip, Distance

(* A point moved toward another never leaves the segment between the two,  *)
(* so a clamp neither overshoots nor turns round.                          *)
LEMMA TowardStaysBetween ==
    ASSUME NEW from \in Int, NEW to \in Int, NEW reach \in Nat
    PROVE  \/ from <= Toward(from, to, reach) /\ Toward(from, to, reach) <= to
           \/ to <= Toward(from, to, reach) /\ Toward(from, to, reach) <= from
BY DEF Toward, Clip

(* numpy.clip returns a value between its bounds.                          *)
LEMMA ClipInRange ==
    ASSUME NEW x \in Int, NEW lo \in Int, NEW hi \in Int, lo <= hi
    PROVE  Clip(x, lo, hi) \in lo..hi
BY DEF Clip

(* A point on the segment between the box and a measured position is no    *)
(* further outside the box than the measurement.                           *)
LEMMA BetweenIsNoFurtherOut ==
    ASSUME NEW inside \in BoxMin..BoxMax, NEW measured \in Int, NEW x \in Int,
           \/ measured <= x /\ x <= inside
           \/ inside <= x /\ x <= measured
    PROVE  Outside(x) <= Outside(measured)
BY EnvelopeAssumption DEF Outside, Clip, Distance

-----------------------------------------------------------------------------
(* _limit returns a pose, within the error bound of the measured one in    *)
(* translation and in rotation, no further outside the box than it.        *)
THEOREM LimitIsSafe ==
    ASSUME NEW request \in Pose, NEW previous \in Pose, NEW measured \in Pose
    PROVE  LET limited == Limit(request, previous, measured)
           IN  /\ limited \in Pose
               /\ Distance(limited.position, measured.position) <= MaxErr
               /\ Distance(limited.rotation, measured.rotation) <= MaxErrRot
               /\ Outside(limited.position) <= Outside(measured.position)
<1> DEFINE slewed == SlewedPosition(request, previous)
           boxed  == BoxedPosition(request, previous)
           turned == SlewedRotation(request, previous)
           limited == Limit(request, previous, measured)
<1>1. slewed \in Int /\ turned \in Int
  BY TowardWithinReach, EnvelopeAssumption DEF Pose, SlewedPosition, SlewedRotation
<1>2. boxed \in BoxMin..BoxMax
  BY <1>1, ClipInRange, EnvelopeAssumption DEF BoxedPosition
<1>3. boxed \in Int /\ measured.position \in Int /\ measured.rotation \in Int
  BY <1>2, EnvelopeAssumption DEF Pose
<1>4. /\ limited.position = Toward(measured.position, boxed, MaxErr)
      /\ limited.rotation = Toward(measured.rotation, turned, MaxErrRot)
      /\ limited = [position |-> limited.position, rotation |-> limited.rotation]
  BY DEF Limit
<1> HIDE DEF slewed, boxed, turned, limited
<1>5. /\ limited.position \in Int /\ limited.rotation \in Int
      /\ Distance(limited.position, measured.position) <= MaxErr
      /\ Distance(limited.rotation, measured.rotation) <= MaxErrRot
  <2>1. MaxErr \in Nat /\ MaxErrRot \in Nat
    BY EnvelopeAssumption
  <2> QED
    BY <1>1, <1>3, <1>4, <2>1, TowardWithinReach
<1>6. limited \in Pose
  BY <1>4, <1>5 DEF Pose
<1>7. \/ measured.position <= limited.position /\ limited.position <= boxed
      \/ boxed <= limited.position /\ limited.position <= measured.position
  BY <1>3, <1>4, TowardStaysBetween, EnvelopeAssumption
<1>8. Outside(limited.position) <= Outside(measured.position)
  BY <1>2, <1>3, <1>5, <1>7, BetweenIsNoFurtherOut
<1> QED
  BY <1>5, <1>6, <1>8 DEF limited

(* Without a counted box or error clamp, _limit moves the command by one   *)
(* tick's slew, give or take what numpy.allclose takes for equal.          *)
THEOREM UnclampedLimitIsSlewed ==
    ASSUME NEW request \in Pose, NEW previous \in Pose, NEW measured \in Pose,
           LimitCounters(request, previous, measured)
             \cap {"clamped_box", "clamped_err"} = {}
    PROVE  LET limited == Limit(request, previous, measured)
           IN  /\ \E step \in -MaxStep..MaxStep :
                      AllClose(limited.position, previous.position + step)
               /\ Distance(limited.rotation, previous.rotation) <= MaxRot
<1> DEFINE limited == Limit(request, previous, measured)
           step    == SlewedPosition(request, previous) - previous.position
<1>1. /\ limited.position = BoxedPosition(request, previous)
      /\ AllClose(BoxedPosition(request, previous), SlewedPosition(request, previous))
      /\ limited.rotation = SlewedRotation(request, previous)
  BY DEF LimitCounters
<1>2. /\ SlewedPosition(request, previous) \in Int /\ previous.position \in Int
      /\ Distance(SlewedPosition(request, previous), previous.position) <= MaxStep
      /\ Distance(SlewedRotation(request, previous), previous.rotation) <= MaxRot
  BY TowardWithinReach, EnvelopeAssumption DEF SlewedPosition, SlewedRotation, Pose
<1>3. step \in -MaxStep..MaxStep /\ SlewedPosition(request, previous) = previous.position + step
  BY <1>2, EnvelopeAssumption DEF Distance
<1> QED
  BY <1>1, <1>2, <1>3

(* If none of _limit's counters moved, the command is the request, give or *)
(* take what numpy.allclose takes for equal.                               *)
THEOREM UncountedLimitIsRequest ==
    ASSUME NEW request \in Pose, NEW previous \in Pose, NEW measured \in Pose,
           LimitCounters(request, previous, measured) = {}
    PROVE  LET limited == Limit(request, previous, measured)
           IN  /\ AllClose(limited.position, request.position)
               /\ limited.rotation = request.rotation
<1> DEFINE limited == Limit(request, previous, measured)
<1>1. /\ SlewedPosition(request, previous) = request.position
      /\ SlewedRotation(request, previous) = request.rotation
      /\ AllClose(BoxedPosition(request, previous), SlewedPosition(request, previous))
      /\ limited.position = BoxedPosition(request, previous)
      /\ limited.rotation = SlewedRotation(request, previous)
  BY DEF LimitCounters
<1> QED
  BY <1>1

(* _limit_joints keeps a nullspace anchor that is inside the joint limits  *)
(* inside them, whatever the packet's `joints` field held.                 *)
THEOREM LimitJointsInRange ==
    ASSUME NEW requested, NEW previous \in (-JointLimit..JointLimit) \cup {None}
    PROVE  LimitJoints(requested, previous) \in (-JointLimit..JointLimit) \cup {None}
<1>1. CASE requested \notin Int
  BY <1>1 DEF LimitJoints
<1>2. CASE requested \in Int
  <2>1. ClippedJoints(requested) \in -JointLimit..JointLimit
    BY <1>2, EnvelopeAssumption DEF ClippedJoints, JointRange, Clip
  <2>2. CASE previous = None
    BY <1>2, <2>1, <2>2 DEF LimitJoints
  <2>3. CASE previous # None
    <3>1. previous \in -JointLimit..JointLimit /\ JointLimit \in Nat /\ MaxJointStep \in Nat
      BY <2>3, EnvelopeAssumption
    <3>2. Toward(previous, ClippedJoints(requested), MaxJointStep) \in -JointLimit..JointLimit
      <4> DEFINE anchor == ClippedJoints(requested)
                 moved  == Toward(previous, anchor, MaxJointStep)
      <4>1. anchor \in Int /\ previous \in Int
        BY <2>1, <3>1
      <4>2. moved \in Int
        BY <3>1, <4>1, TowardWithinReach
      <4>3. \/ previous <= moved /\ moved <= anchor
            \/ anchor <= moved /\ moved <= previous
        BY <3>1, <4>1, TowardStaysBetween
      <4> HIDE DEF anchor, moved
      <4>4. anchor \in -JointLimit..JointLimit
        BY <2>1 DEF anchor
      <4>5. moved \in -JointLimit..JointLimit
        BY <3>1, <4>1, <4>2, <4>3, <4>4
      <4> QED
        BY <4>5 DEF moved, anchor
    <3> QED
      BY <1>2, <2>3, <3>2 DEF LimitJoints
  <2> QED
    BY <2>2, <2>3
<1> QED
  BY <1>1, <1>2

(* An anchor that exists moves by at most one tick's joint slew.           *)
THEOREM LimitJointsSlewed ==
    ASSUME NEW requested, NEW previous \in Int
    PROVE  /\ LimitJoints(requested, previous) \in Int
           /\ Distance(LimitJoints(requested, previous), previous) <= MaxJointStep
<1>1. CASE requested \notin Int
  BY <1>1, EnvelopeAssumption DEF LimitJoints, Distance
<1>2. CASE requested \in Int
  <2>1. ClippedJoints(requested) \in Int
    BY <1>2, EnvelopeAssumption DEF ClippedJoints, JointRange, Clip
  <2>2. previous # None /\ MaxJointStep \in Nat
    BY EnvelopeAssumption
  <2> QED
    BY <1>2, <2>1, <2>2, TowardWithinReach DEF LimitJoints
<1> QED
  BY <1>1, <1>2
=============================================================================
