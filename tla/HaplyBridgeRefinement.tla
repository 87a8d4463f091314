------------------------ MODULE HaplyBridgeRefinement ------------------------
(***************************************************************************)
(* The teleop bridge implements SpringAnchor, for every set of poses,      *)
(* limits and ids and a socket buffer of any capacity: every step of the   *)
(* bridge and of the world around it is a step of the promise, or none.    *)
(***************************************************************************)
EXTENDS HaplyBridgeProofs

LEMMA InitRefines == Init => Promise!Init
BY DEF Init, FreshSession, Promise!Init

(* A step that leaves the anchor alone: the measurement is renewed, lost   *)
(* with the process, or stays; an engagement can only end without it.      *)
LEMMA StillRefines ==
    ASSUME IInv, [Next]_vars, UNCHANGED target, engaged' /\ ~DryRun => engaged
    PROVE  [Promise!Next]_Promise!vars
<1>1. \/ UNCHANGED current_pose
      \/ /\ current_pose' \in Pose /\ engaged' = engaged
      \/ /\ current_pose' = None /\ engaged' = FALSE
  <2>1. CASE OnPose
    <3>1. arm.pose \in Pose
      BY BridgeAssumption DEF IInv, TypeOK, Arm, ArmPose, Pose
    <3> QED
      BY <2>1, <3>1 DEF OnPose
  <2>2. CASE Signalled \/ TickRaises
    BY <2>2 DEF Signalled, TickRaises, ProcessEnds
  <2>3. CASE ~OnPose /\ ~Signalled /\ ~TickRaises
    BY <2>3 DEF Next, vars, session, Send, SenderDies, Elapse, OnJoints, Tick,
                TickWithPacket, TickWithoutPacket, Start
  <2> QED
    BY <2>1, <2>2, <2>3
<1>2. engaged \in BOOLEAN /\ engaged' \in BOOLEAN /\ DryRun \in BOOLEAN
  BY BridgeAssumption, NextKeepsIInv DEF IInv, TypeOK
<1>3. CASE current_pose' \in Pose /\ engaged' = engaged
  BY <1>3 DEF Promise!Next, Promise!Measure, Promise!Pose, Pose
<1>4. CASE current_pose' = None /\ engaged' = FALSE
  BY <1>4 DEF Promise!Next, Promise!LetGo
<1>5. CASE UNCHANGED current_pose
  BY <1>2, <1>5 DEF Promise!Next, Promise!LetGo, Promise!vars
<1> QED
  BY <1>1, <1>3, <1>4, <1>5

(* The engage edge publishes the measured pose.                            *)
LEMMA NextRefines == IInv /\ [Next]_vars => [Promise!Next]_Promise!vars
<1> SUFFICES ASSUME IInv, [Next]_vars PROVE [Promise!Next]_Promise!vars
  OBVIOUS
<1>1. CASE UNCHANGED target /\ (engaged' /\ ~DryRun => engaged)
  BY <1>1, StillRefines
<1>2. CASE engaged' /\ ~DryRun /\ (target' # target \/ ~engaged)
  <2>1. TickWithPacket
    BY <1>2 DEF Next, vars, session, latched, Send, SenderDies, Elapse, OnPose, OnJoints,
                Signalled, ProcessEnds, Start, Tick, TickWithoutPacket, TickRaises, Publish,
                IInv, LatchedIsCommanded
  <2>2. PICK i \in DOMAIN inbox : IsNewest(i) /\ ~Raises(inbox[i]) /\ Consume(inbox[i])
    BY <2>1 DEF TickWithPacket
  <2>3. inbox[i] \in Packet
    BY <2>2, NewestIsPacket
  <2>4. /\ target' = commanded' /\ current_pose' = current_pose
        /\ current_pose # None /\ current_pose \in Pose
    BY <1>2, <2>1, <2>2, <2>3, ConsumeDecides DEF TickWithPacket, Publish, IInv, TypeOK
  <2>5. Engaged(inbox[i]) \/ Followed(inbox[i])
    BY <1>2, <2>2, <2>4
       DEF Consume, Released, Ignored, Refused, StillEngaged, IInv, LatchedIsCommanded
  <2>6. CASE Engaged(inbox[i])
    BY <1>2, <2>4, <2>6 DEF Engaged, Promise!Next, Promise!Begin
  <2>7. CASE Followed(inbox[i])
    <3>1. engaged /\ commanded \in Pose /\ inbox[i].pose \in Pose
      BY <2>2, <2>3, <2>7, EngagedOrContinues, PacketFields
         DEF Followed, StillEngaged, Raises, Readable
    <3>2. target' = Limit(inbox[i].pose, commanded, current_pose)
      BY <2>4, <2>7 DEF Followed
    <3>3. /\ target' \in Pose
          /\ Distance(target'.position, current_pose.position) <= MaxErr
          /\ Distance(target'.rotation, current_pose.rotation) <= MaxErrRot
          /\ Outside(target'.position) <= Outside(current_pose.position)
      BY <2>4, <3>1, <3>2, LimitIsSafe
    <3>4. Promise!WithinReach(target')
      BY <3>3 DEF Promise!WithinReach, Promise!Distance, Promise!Outside, Promise!Clip,
                  Distance, Outside, Clip
    <3> QED
      BY <1>2, <2>4, <3>1, <3>3, <3>4 DEF Promise!Next, Promise!Follow, Promise!Pose, Pose
  <2> QED
    BY <2>5, <2>6, <2>7
<1>3. target' # target => engaged' /\ ~DryRun
  BY TargetMoves DEF latched
<1> QED
  BY <1>1, <1>2, <1>3

(* The promise, as a theorem about every behaviour of the bridge.          *)
THEOREM BridgeKeepsPromise == Spec => KeepsPromise
BY InitRefines, IInvHolds, NextRefines, PTL DEF Spec, KeepsPromise, Promise!Spec
=============================================================================
