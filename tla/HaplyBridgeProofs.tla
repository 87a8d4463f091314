-------------------------- MODULE HaplyBridgeProofs --------------------------
(***************************************************************************)
(* Safety of the teleop bridge for every set of poses, joint angles, ids   *)
(* and limits, and for a socket buffer of any capacity.  (InboxCap and the *)
(* age cap are bounds of the model; no proof step uses their values.)      *)
(***************************************************************************)
EXTENDS HaplyBridge, TeleopEnvelopeProofs

JointBounds == (-JointLimit..JointLimit) \cup {None}

(* The strengthening JointAnchorInRange needs: the slew is taken from the  *)
(* anchor held in commanded_joints, so that one must be in range too.      *)
AnchorsInRange == commanded_joints \in JointBounds /\ joint_target \in JointBounds

IInv == TypeOK /\ AssertionsHold /\ LatchedIsCommanded /\ AnchorsInRange

LEMMA PacketFields ==
    ASSUME NEW packet \in Packet
    PROVE  /\ packet.engaged \in BOOLEAN
           /\ packet.engage_id \in EngageIds \cup {None}
           /\ packet.pose \in Pose \cup {Bad, NonFinite}
           /\ packet.engaged = FALSE => packet = Release
<1>1. ArmPose \subseteq Pose
  BY BridgeAssumption DEF ArmPose, Pose
<1>2. CASE packet = Release
  BY <1>2 DEF Release
<1>3. CASE packet # Release
  <2>1. packet \in [engaged: {TRUE}, engage_id: EngageIds \cup {None},
                    pose: ArmPose \cup {Bad, NonFinite}, joints: JointRequests]
    BY <1>3 DEF Packet
  <2>2. /\ packet.engaged = TRUE
        /\ packet.engage_id \in EngageIds \cup {None}
        /\ packet.pose \in ArmPose \cup {Bad, NonFinite}
    BY <2>1
  <2> QED
    BY <1>1, <2>2
<1> QED
  BY <1>2, <1>3

LEMMA NewestIsPacket ==
    ASSUME IInv, NEW i, IsNewest(i)
    PROVE  i \in DOMAIN inbox /\ inbox[i] \in Packet
BY DEF IsNewest, IInv, TypeOK, Datagram

LEMMA PoseIsProper == None \notin Pose /\ Bad \notin Pose /\ NonFinite \notin Pose
BY BridgeAssumption

LEMMA EmptyInbox == <<>> \in Seq(Datagram)
OBVIOUS

LEMMA AppendIsNotEmpty ==
    ASSUME NEW s \in Seq(Datagram), NEW d \in Datagram
    PROVE  Append(s, d) # <<>>
<1>1. Len(Append(s, d)) = Len(s) + 1 /\ Len(s) \in Nat /\ Len(<<>>) = 0
  OBVIOUS
<1> QED
  BY <1>1

LEMMA InitIInv == Init => IInv
<1> SUFFICES ASSUME Init PROVE IInv
  OBVIOUS
<1>1. TypeOK
  BY EmptyInbox DEF Init, FreshSession, TypeOK, Counters
<1>2. AssertionsHold /\ LatchedIsCommanded /\ AnchorsInRange
  BY DEF Init, FreshSession, AssertionsHold, LatchedIsCommanded, AnchorsInRange,
         JointBounds
<1> QED
  BY <1>1, <1>2 DEF IInv

-----------------------------------------------------------------------------
(* Whatever way a packet takes through _consume, it leaves a session the   *)
(* publisher may act on: a command if engaged, an anchor in range.         *)
LEMMA ConsumeDecides ==
    ASSUME IInv, NEW packet \in Packet, ~Raises(packet), Consume(packet)
    PROVE  /\ engaged' \in BOOLEAN
           /\ engage_id' \in EngageIds \cup {None}
           /\ commanded' \in Pose \cup {None}
           /\ commanded_joints' \in JointBounds
           /\ raised' \in SUBSET Counters
           /\ engaged' => commanded' # None /\ current_pose # None
<1> USE DEF IInv, TypeOK, AssertionsHold, AnchorsInRange
<1>1. CASE Released(packet)
  BY <1>1 DEF Released, Counters
<1>2. CASE Ignored(packet)
  BY <1>2, PacketFields DEF Ignored, AdoptEngageId, StillEngaged, Counters
<1>3. CASE Refused(packet)
  BY <1>3, PacketFields DEF Refused, AdoptEngageId, Counters
<1>4. CASE Engaged(packet)
  <2>1. commanded' = current_pose /\ current_pose \in Pose /\ current_pose # None
    BY <1>4 DEF Engaged, Readable
  <2>2. commanded_joints' \in JointBounds
    BY <1>4, BridgeAssumption DEF Engaged, JointBounds
  <2> QED
    BY <1>4, <2>1, <2>2, PacketFields DEF Engaged, AdoptEngageId, Counters
<1>5. CASE Followed(packet)
  <2>1. /\ current_pose \in Pose /\ commanded \in Pose
        /\ current_pose # None
        /\ packet.pose \in Pose
    BY <1>5, PacketFields DEF Followed, Readable, StillEngaged, Raises
  <2>2. commanded' \in Pose
    BY <1>5, <2>1, LimitIsSafe DEF Followed
  <2>3. commanded_joints' \in JointBounds
    BY <1>5, LimitJointsInRange DEF Followed, JointBounds
  <2>4. raised' \in SUBSET Counters
    BY <1>5 DEF Followed, LimitCounters, JointCounters, Counters
  <2> QED
    BY <1>5, <2>1, <2>2, <2>3, <2>4, PacketFields, PoseIsProper DEF Followed, AdoptEngageId
<1> QED
  BY <1>1, <1>2, <1>3, <1>4, <1>5 DEF Consume

(* Publishing a decided session restores the agreement between the bridge  *)
(* and what the controller latched.                                        *)
LEMMA PublishLatches ==
    ASSUME IInv, Publish, engaged' \in BOOLEAN,
           commanded' \in Pose \cup {None}, commanded_joints' \in JointBounds,
           engaged' => commanded' # None
    PROVE  /\ target' \in Pose \cup {None}
           /\ joint_target' \in JointBounds
           /\ LatchedIsCommanded'
<1> USE DEF IInv, TypeOK, AnchorsInRange, LatchedIsCommanded, Publish, latched
<1>1. CASE engaged' /\ ~DryRun
  BY <1>1
<1>2. CASE ~(engaged' /\ ~DryRun)
  BY <1>2
<1> QED
  BY <1>1, <1>2

(* A session whose fields, latches and engagement are left alone keeps the *)
(* invariant parts that speak of them.                                     *)
LEMMA SessionUntouched ==
    ASSUME IInv, UNCHANGED <<engaged, commanded, commanded_joints, latched>>,
           engaged => current_pose' # None
    PROVE  AssertionsHold' /\ LatchedIsCommanded' /\ AnchorsInRange'
BY DEF IInv, AssertionsHold, LatchedIsCommanded, AnchorsInRange, latched

-----------------------------------------------------------------------------
LEMMA TickWithPacketKeepsIInv ==
    ASSUME IInv, TickWithPacket
    PROVE  IInv'
<1> USE DEF IInv, TypeOK
<1>1. PICK i \in DOMAIN inbox : IsNewest(i) /\ ~Raises(inbox[i]) /\ Consume(inbox[i])
  BY DEF TickWithPacket
<1>2. inbox[i] \in Packet
  BY <1>1, NewestIsPacket
<1>3. /\ engaged' \in BOOLEAN
      /\ engage_id' \in EngageIds \cup {None}
      /\ commanded' \in Pose \cup {None}
      /\ commanded_joints' \in JointBounds
      /\ raised' \in SUBSET Counters
      /\ engaged' => commanded' # None /\ current_pose # None
  BY <1>1, <1>2, ConsumeDecides
<1>4. target' \in Pose \cup {None} /\ joint_target' \in JointBounds /\ LatchedIsCommanded'
  BY <1>3, PublishLatches DEF TickWithPacket
<1>5. reply' \in [pose: Pose, joints: JointAngles \cup {None}, engaged: BOOLEAN]
                    \cup {None}
  BY <1>3 DEF TickWithPacket, Reply
<1>6. inbox' \in Seq(Datagram) /\ packet_age' \in 0..Watchdog + 1
  BY EmptyInbox, BridgeAssumption DEF TickWithPacket
<1>7. /\ UNCHANGED <<process, current_pose, joint_positions, arm, sending>>
  BY DEF TickWithPacket
<1>8. TypeOK'
  BY <1>3, <1>4, <1>5, <1>6, <1>7 DEF JointBounds
<1>9. AssertionsHold' /\ AnchorsInRange'
  BY <1>3, <1>4, <1>7 DEF AssertionsHold, AnchorsInRange
<1> QED
  BY <1>4, <1>8, <1>9

LEMMA TickWithoutPacketKeepsIInv ==
    ASSUME IInv, TickWithoutPacket
    PROVE  IInv'
<1> USE DEF IInv, TypeOK
<1>1. /\ UNCHANGED <<process, engage_id, current_pose, joint_positions, commanded,
                     commanded_joints, packet_age, arm, sending>>
      /\ engaged' \in BOOLEAN /\ (engaged' => engaged)
      /\ raised' = {} /\ reply' = None
      /\ inbox' \in Seq(Datagram)
  BY DEF TickWithoutPacket, NoOutput
<1>2. AssertionsHold'
  BY <1>1 DEF AssertionsHold
<1>3. target' \in Pose \cup {None} /\ joint_target' \in JointBounds /\ LatchedIsCommanded'
  BY <1>1, PublishLatches DEF TickWithoutPacket, AssertionsHold, AnchorsInRange
<1>4. AnchorsInRange'
  BY <1>1, <1>3 DEF AnchorsInRange
<1>5. TypeOK'
  BY <1>1, <1>3 DEF JointBounds, Counters
<1> QED
  BY <1>2, <1>3, <1>4, <1>5

LEMMA ProcessEndsKeepsIInv ==
    ASSUME IInv, NEW how \in {"stopped", "raised", "undecodable"}, ProcessEnds(how)
    PROVE  IInv'
<1>1. TypeOK'
  BY EmptyInbox DEF IInv, TypeOK, ProcessEnds, NoOutput, Counters, latched
<1>2. AssertionsHold' /\ LatchedIsCommanded' /\ AnchorsInRange'
  BY DEF IInv, ProcessEnds, AssertionsHold, LatchedIsCommanded, AnchorsInRange,
         JointBounds, latched
<1> QED
  BY <1>1, <1>2 DEF IInv

LEMMA ElapseKeepsIInv ==
    ASSUME IInv, Elapse
    PROVE  IInv'
<1>1. packet_age' \in (0..Watchdog + 1) \cup {None}
  <2>1. CASE packet_age = None
    BY <2>1 DEF Elapse
  <2>2. CASE packet_age # None
    <3>1. packet_age \in Int /\ Watchdog \in Nat
      BY <2>2, BridgeAssumption DEF IInv, TypeOK
    <3>2. packet_age' = Clip(packet_age + 1, 0, Watchdog + 1)
      BY <2>2 DEF Elapse
    <3>3. Clip(packet_age + 1, 0, Watchdog + 1) \in 0..Watchdog + 1
      BY <3>1 DEF Clip
    <3> QED
      BY <3>2, <3>3
  <2> QED
    BY <2>1, <2>2
<1>2. TypeOK'
  BY <1>1 DEF IInv, TypeOK, Elapse, NoOutput, Counters, latched
<1>3. AssertionsHold' /\ LatchedIsCommanded' /\ AnchorsInRange'
  BY SessionUntouched DEF Elapse, IInv, AssertionsHold
<1> QED
  BY <1>2, <1>3 DEF IInv

(* The invariant is inductive: one step per action of the specification.   *)
LEMMA NextKeepsIInv == IInv /\ [Next]_vars => IInv'
<1> SUFFICES ASSUME IInv, [Next]_vars PROVE IInv'
  OBVIOUS
<1>1. ASSUME NEW datagram \in Datagram, Send(datagram) PROVE IInv'
  <2>1. inbox' \in Seq(Datagram)
    BY <1>1 DEF Send, IInv, TypeOK
  <2>2. TypeOK'
    BY <1>1, <2>1 DEF Send, IInv, TypeOK, NoOutput, Counters, session, latched
  <2>3. AssertionsHold' /\ LatchedIsCommanded' /\ AnchorsInRange'
    BY <1>1, SessionUntouched DEF Send, IInv, AssertionsHold, session
  <2> QED
    BY <2>2, <2>3 DEF IInv
<1>2. CASE SenderDies
  <2>1. TypeOK'
    BY <1>2 DEF SenderDies, IInv, TypeOK, NoOutput, Counters, session, latched
  <2>2. AssertionsHold' /\ LatchedIsCommanded' /\ AnchorsInRange'
    BY <1>2, SessionUntouched DEF SenderDies, IInv, AssertionsHold, session
  <2> QED
    BY <2>1, <2>2 DEF IInv
<1>3. CASE Elapse
  BY <1>3, ElapseKeepsIInv
<1>4. CASE OnPose
  <2>1. arm.pose \in Pose
    BY BridgeAssumption DEF IInv, TypeOK, Arm, ArmPose, Pose
  <2>2. TypeOK'
    BY <1>4, <2>1 DEF OnPose, IInv, TypeOK, NoOutput, Counters, latched
  <2>3. AssertionsHold' /\ LatchedIsCommanded' /\ AnchorsInRange'
    BY <1>4, <2>1, PoseIsProper, SessionUntouched DEF OnPose
  <2> QED
    BY <2>2, <2>3 DEF IInv
<1>5. CASE OnJoints
  <2>1. arm.joints \in JointAngles
    BY DEF IInv, TypeOK, Arm
  <2>2. TypeOK'
    BY <1>5, <2>1 DEF OnJoints, IInv, TypeOK, NoOutput, Counters, latched
  <2>3. AssertionsHold' /\ LatchedIsCommanded' /\ AnchorsInRange'
    BY <1>5, SessionUntouched DEF OnJoints, IInv, AssertionsHold
  <2> QED
    BY <2>2, <2>3 DEF IInv
<1>6. CASE Tick
  <2>1. CASE TickRaises
    <3>1. ProcessEnds("raised") \/ ProcessEnds("undecodable")
      BY <2>1 DEF TickRaises
    <3> QED
      BY <3>1, ProcessEndsKeepsIInv
  <2> QED
    BY <1>6, <2>1, TickWithPacketKeepsIInv, TickWithoutPacketKeepsIInv DEF Tick
<1>7. CASE Signalled
  BY <1>7, ProcessEndsKeepsIInv DEF Signalled
<1>8. CASE Start
  <2>1. TypeOK'
    BY <1>8 DEF Start, IInv, TypeOK, NoOutput, Counters, session, latched
  <2>2. AssertionsHold' /\ LatchedIsCommanded' /\ AnchorsInRange'
    BY <1>8, SessionUntouched DEF Start, IInv, AssertionsHold, session
  <2> QED
    BY <2>1, <2>2 DEF IInv
<1>9. CASE UNCHANGED vars
  <2>1. TypeOK'
    BY <1>9 DEF vars, session, latched, IInv, TypeOK
  <2>2. AssertionsHold' /\ LatchedIsCommanded' /\ AnchorsInRange'
    BY <1>9, SessionUntouched DEF vars, session, IInv, AssertionsHold
  <2> QED
    BY <2>1, <2>2 DEF IInv
<1> QED
  BY <1>1, <1>2, <1>3, <1>4, <1>5, <1>6, <1>7, <1>8, <1>9 DEF Next

THEOREM IInvHolds == Spec => []IInv
BY InitIInv, NextKeepsIInv, PTL DEF Spec

-----------------------------------------------------------------------------
(***************************************************************************)
(* What the invariant gives, as theorems about every behaviour.            *)
(***************************************************************************)

(* The bridge's fields only ever hold what the code may put there.         *)
THEOREM TypeSafe == Spec => []TypeOK
BY IInvHolds, PTL DEF IInv

(* The assertions in _limit and _report never fire.                        *)
THEOREM AssertionsNeverFire == Spec => []AssertionsHold
BY IInvHolds, PTL DEF IInv

(* While engaged, the controller's spring is anchored where the bridge     *)
(* believes it is.                                                         *)
THEOREM LatchedTargetIsCommanded == Spec => []LatchedIsCommanded
BY IInvHolds, PTL DEF IInv

(* The nullspace anchor never leaves the joint limits.                     *)
THEOREM JointAnchorSafe == Spec => []JointAnchorInRange
<1>1. IInv => JointAnchorInRange
  BY EnvelopeAssumption
     DEF IInv, AnchorsInRange, JointBounds, JointAnchorInRange, Distance
<1> QED
  BY <1>1, IInvHolds, PTL

-----------------------------------------------------------------------------
(* Only an engaged, readable packet moves the target: the step is a tick   *)
(* that engages with the newest packet, or follows it.                     *)
LEMMA TargetMoves ==
    ASSUME IInv, [Next]_vars, latched' # latched
    PROVE  /\ \E i \in DOMAIN inbox :
                 /\ IsNewest(i)
                 /\ inbox[i] \in Packet /\ inbox[i].engaged
                 /\ inbox[i].pose \in Pose
                 /\ Engaged(inbox[i]) \/ Followed(inbox[i])
           /\ current_pose \in Pose /\ current_pose' = current_pose
           /\ ~DryRun /\ engaged'
           /\ target' = commanded'
           /\ joint_target' = IF commanded_joints' # None
                              THEN commanded_joints' ELSE joint_target
<1>1. Tick
  BY DEF Next, vars, Send, SenderDies, Elapse, OnPose, OnJoints, Signalled,
         ProcessEnds, Start
<1>2. CASE TickRaises
  BY <1>2 DEF TickRaises, ProcessEnds
<1>3. CASE TickWithoutPacket
  BY <1>3 DEF TickWithoutPacket, Publish, IInv, LatchedIsCommanded, latched
<1>4. CASE TickWithPacket
  <2>1. PICK i \in DOMAIN inbox : IsNewest(i) /\ ~Raises(inbox[i]) /\ Consume(inbox[i])
    BY <1>4 DEF TickWithPacket
  <2>2. inbox[i] \in Packet
    BY <2>1, NewestIsPacket
  <2>3. /\ engaged' /\ ~DryRun /\ target' = commanded'
        /\ joint_target' = IF commanded_joints' # None
                           THEN commanded_joints' ELSE joint_target
    BY <1>4 DEF TickWithPacket, Publish
  <2>4. ~Released(inbox[i]) /\ ~Refused(inbox[i])
    BY <2>3 DEF Released, Refused
  <2>5. ~Ignored(inbox[i])
    <3>1. SUFFICES ASSUME Ignored(inbox[i]) PROVE FALSE
      OBVIOUS
    <3>2. engaged /\ commanded' = commanded /\ commanded_joints' = commanded_joints
      BY <2>3, <3>1 DEF Ignored, StillEngaged
    <3> QED
      BY <2>3, <3>2 DEF IInv, LatchedIsCommanded, latched
  <2>6. Engaged(inbox[i]) \/ Followed(inbox[i])
    BY <2>1, <2>4, <2>5 DEF Consume
  <2>7. inbox[i].engaged /\ Readable(inbox[i]) /\ current_pose \in Pose
    BY <2>6 DEF Engaged, Followed, Readable, IInv, TypeOK
  <2>8. inbox[i].pose \in Pose
    BY <2>1, <2>2, <2>7, PacketFields DEF Raises, Readable
  <2> QED
    BY <1>4, <2>1, <2>2, <2>3, <2>6, <2>7, <2>8 DEF TickWithPacket
<1> QED
  BY <1>1, <1>2, <1>3, <1>4 DEF Tick

(* A packet that opens an engagement does not continue the previous one:   *)
(* the engage edge and the slew apply to different steps.                  *)
LEMMA EngagedOrContinues ==
    ASSUME IInv, NEW packet \in Packet
    PROVE  /\ Engaged(packet) => ~Continues /\ commanded' = current_pose
                                 /\ commanded_joints' = joint_positions
           /\ Followed(packet) => Continues /\ commanded \in Pose
                                 /\ (~DryRun => target = commanded)
<1>1. ASSUME Engaged(packet) PROVE ~Continues
  BY <1>1, PacketFields DEF Engaged, StillEngaged, NamesNewEngage, AdoptEngageId, Continues
<1>2. ASSUME Followed(packet) PROVE Continues /\ commanded \in Pose
  BY <1>2 DEF Followed, StillEngaged, AdoptEngageId, Continues, IInv, TypeOK,
              AssertionsHold
<1>3. ASSUME Followed(packet), ~DryRun PROVE target = commanded
  BY <1>3 DEF Followed, StillEngaged, IInv, LatchedIsCommanded
<1> QED
  BY <1>1, <1>2, <1>3 DEF Engaged

(* Every target that is not the continuation of an engagement starts where *)
(* the arm was last measured.                                              *)
THEOREM SteeringSafe == Spec => SteeringStartsAtArm
<1>1. ASSUME IInv, [Next]_vars, target' # target, ~Continues
      PROVE  target' = current_pose
  <2>1. latched' # latched
    BY <1>1 DEF latched
  <2> QED
    BY <1>1, <2>1, TargetMoves, EngagedOrContinues
<1>2. IInv /\ [Next]_vars => [target' # target /\ ~Continues => target' = current_pose]_vars
  BY <1>1
<1> QED
  BY <1>2, IInvHolds, PTL DEF Spec, SteeringStartsAtArm

(* Every new target is within the error bound of the newest measurement.   *)
THEOREM ErrorIsCapped == Spec => ErrorCapped
<1>1. ASSUME IInv, [Next]_vars, target' # target
      PROVE  /\ Distance(target'.position, current_pose.position) <= MaxErr
             /\ Distance(target'.rotation, current_pose.rotation) <= MaxErrRot
  <2>1. PICK i \in DOMAIN inbox :
             /\ inbox[i] \in Packet /\ inbox[i].pose \in Pose
             /\ Engaged(inbox[i]) \/ Followed(inbox[i])
    BY <1>1, TargetMoves DEF latched
  <2>2. current_pose \in Pose /\ target' = commanded'
    BY <1>1, TargetMoves DEF latched
  <2>3. CASE Engaged(inbox[i])
    BY <2>2, <2>3, EnvelopeAssumption DEF Engaged, Distance, Pose
  <2>4. CASE Followed(inbox[i])
    <3>1. commanded \in Pose
      BY <1>1, <2>1, <2>4, EngagedOrContinues
    <3>2. target' = Limit(inbox[i].pose, commanded, current_pose)
      BY <2>2, <2>4 DEF Followed
    <3> QED
      BY <2>1, <2>2, <3>1, <3>2, LimitIsSafe
  <2> QED
    BY <2>1, <2>3, <2>4
<1> QED
  BY <1>1, IInvHolds, PTL DEF Spec, ErrorCapped

(* The bridge never sends the arm further outside the box than it is.      *)
THEOREM BoxNeverWorsens == Spec => NeverFurtherOutside
<1>1. ASSUME IInv, [Next]_vars, target' # target
      PROVE  Outside(target'.position) <= Outside(current_pose.position)
  <2>1. PICK i \in DOMAIN inbox :
             /\ inbox[i] \in Packet /\ inbox[i].pose \in Pose
             /\ Engaged(inbox[i]) \/ Followed(inbox[i])
    BY <1>1, TargetMoves DEF latched
  <2>2. current_pose \in Pose /\ target' = commanded'
    BY <1>1, TargetMoves DEF latched
  <2>3. CASE Engaged(inbox[i])
    BY <2>2, <2>3, EnvelopeAssumption DEF Engaged, Outside, Distance, Clip, Pose
  <2>4. CASE Followed(inbox[i])
    <3>1. commanded \in Pose
      BY <1>1, <2>1, <2>4, EngagedOrContinues
    <3>2. target' = Limit(inbox[i].pose, commanded, current_pose)
      BY <2>2, <2>4 DEF Followed
    <3> QED
      BY <2>1, <2>2, <3>1, <3>2, LimitIsSafe
  <2> QED
    BY <2>1, <2>3, <2>4
<1> QED
  BY <1>1, IInvHolds, PTL DEF Spec, NeverFurtherOutside

(* Within an engagement, a step longer than the slew is always counted as  *)
(* a box or an error clamp.                                                *)
THEOREM LungesAreCounted == Spec => LungeIsCounted
<1>1. ASSUME IInv, [Next]_vars, target' # target, Continues,
             raised' \cap {"clamped_box", "clamped_err"} = {}
      PROVE  /\ \E step \in -MaxStep..MaxStep :
                    AllClose(target'.position, target.position + step)
             /\ Distance(target'.rotation, target.rotation) <= MaxRot
  <2>1. PICK i \in DOMAIN inbox :
             /\ inbox[i] \in Packet /\ inbox[i].pose \in Pose
             /\ Engaged(inbox[i]) \/ Followed(inbox[i])
    BY <1>1, TargetMoves DEF latched
  <2>2. current_pose \in Pose /\ target' = commanded' /\ ~DryRun
    BY <1>1, TargetMoves DEF latched
  <2>3. Followed(inbox[i]) /\ commanded \in Pose /\ target = commanded
    BY <1>1, <2>1, <2>2, EngagedOrContinues
  <2>4. /\ target' = Limit(inbox[i].pose, commanded, current_pose)
        /\ LimitCounters(inbox[i].pose, commanded, current_pose)
             \cap {"clamped_box", "clamped_err"} = {}
    BY <1>1, <2>2, <2>3 DEF Followed
  <2> QED
    BY <2>1, <2>2, <2>3, <2>4, UnclampedLimitIsSlewed
<1>2. IInv /\ [Next]_vars =>
        [target' # target /\ Continues =>
            \/ raised' \cap {"clamped_box", "clamped_err"} # {}
            \/ /\ \E step \in -MaxStep..MaxStep :
                      AllClose(target'.position, target.position + step)
               /\ Distance(target'.rotation, target.rotation) <= MaxRot]_vars
  BY <1>1
<1> QED
  BY <1>2, IInvHolds, PTL DEF Spec, LungeIsCounted

(* Within an engagement the nullspace anchor is rate-limited, but for the  *)
(* first request of an engagement that began without one; after that there *)
(* is an anchor for as long as the engagement lasts.                       *)
THEOREM JointAnchorIsSlewed == Spec => JointAnchorStepsOnce
<1>1. ASSUME IInv, [Next]_vars, joint_target' # joint_target, Continues,
             commanded_joints # None
      PROVE  Distance(joint_target', joint_target) <= MaxJointStep
  <2>1. PICK i \in DOMAIN inbox :
             inbox[i] \in Packet /\ (Engaged(inbox[i]) \/ Followed(inbox[i]))
    BY <1>1, TargetMoves DEF latched
  <2>2. /\ ~DryRun
        /\ joint_target' = IF commanded_joints' # None
                           THEN commanded_joints' ELSE joint_target
    BY <1>1, TargetMoves DEF latched
  <2>3. Followed(inbox[i])
    BY <1>1, <2>1, EngagedOrContinues
  <2>4. commanded_joints \in Int /\ joint_target = commanded_joints
    BY <1>1, <2>2 DEF IInv, TypeOK, LatchedIsCommanded, Continues
  <2>5. commanded_joints' = LimitJoints(inbox[i].joints, commanded_joints)
    BY <2>3 DEF Followed
  <2> QED
    BY <1>1, <2>2, <2>4, <2>5, LimitJointsSlewed
<1>2. ASSUME IInv, [Next]_vars, Continues, engaged', commanded_joints # None
      PROVE  commanded_joints' # None
  <2>1. CASE TickWithPacket
    <3>1. PICK i \in DOMAIN inbox : IsNewest(i) /\ Consume(inbox[i])
      BY <2>1 DEF TickWithPacket
    <3>2. inbox[i] \in Packet
      BY <1>2, <3>1, NewestIsPacket
    <3>3. ~Engaged(inbox[i])
      BY <1>2, <3>2, EngagedOrContinues
    <3>4. CASE Followed(inbox[i])
      <4>1. commanded_joints \in Int
        BY <1>2 DEF IInv, TypeOK
      <4>2. commanded_joints' \in Int
        BY <3>4, <4>1, LimitJointsSlewed DEF Followed
      <4> QED
        BY <4>2, EnvelopeAssumption
    <3>5. CASE ~Followed(inbox[i])
      BY <1>2, <3>1, <3>3, <3>5 DEF Consume, Released, Ignored, Refused
    <3> QED
      BY <3>4, <3>5
  <2>2. CASE ~TickWithPacket
    BY <1>2, <2>2 DEF Next, vars, session, Send, SenderDies, Elapse, OnPose, OnJoints, Tick,
       TickWithoutPacket, TickRaises, Signalled, ProcessEnds, Start
  <2> QED
    BY <2>1, <2>2
<1>3. IInv /\ [Next]_vars =>
        [Continues /\ engaged' =>
            /\ joint_target' # joint_target =>
                  \/ commanded_joints = None
                  \/ Distance(joint_target', joint_target) <= MaxJointStep
            /\ commanded_joints # None => commanded_joints' # None]_vars
  BY <1>1, <1>2
<1> QED
  BY <1>3, IInvHolds, PTL DEF Spec, JointAnchorStepsOnce

(* Every row the arm is not told as it was asked is counted in the same    *)
(* tick, but for the row that begins an engagement.                        *)
THEOREM SaturationCounted == Spec => SaturationIsCounted
<1> DEFINE Asked(k) == /\ IsNewest(k) /\ inbox[k].engaged /\ Readable(inbox[k])
                       /\ inbox' = <<>> /\ process' = "up"
           Shown(k) == \/ raised' \ {"clamped_joint"} # {}
                       \/ /\ AllClose(commanded'.position, inbox[k].pose.position)
                          /\ commanded'.rotation = inbox[k].pose.rotation
                       \/ /\ ~Continues /\ Anchored(inbox[k].pose, current_pose)
                          /\ commanded' = current_pose
<1>1. ASSUME IInv, [Next]_vars, NEW k \in DOMAIN inbox, Asked(k)
      PROVE  Shown(k)
  <2>1. inbox # <<>> /\ inbox[k] \in Packet /\ inbox[k] \notin {Garbage, Mangled}
    BY <1>1, NewestIsPacket DEF IsNewest
  <2>2. TickWithPacket
    <3>1. ~NothingDecodes
      BY <1>1, <2>1 DEF NothingDecodes
    <3> QED
      BY <1>1, <2>1, <3>1, AppendIsNotEmpty DEF IInv, TypeOK, Next, vars, Send, SenderDies, Elapse, OnPose,
         OnJoints, Tick, TickWithoutPacket, TickRaises, Signalled, ProcessEnds, Start
  <2>3. PICK i \in DOMAIN inbox : IsNewest(i) /\ ~Raises(inbox[i]) /\ Consume(inbox[i])
    BY <2>2 DEF TickWithPacket
  <2>4. i = k
    <3>1. i \in Int /\ k \in Int
      BY <1>1 DEF IInv, TypeOK
    <3> QED
      BY <1>1, <2>3, <3>1 DEF IsNewest
  <2>5. CASE Engaged(inbox[k])
    BY <1>1, <2>1, <2>5, EngagedOrContinues DEF Engaged
  <2>6. ASSUME Followed(inbox[k]), raised' \ {"clamped_joint"} = {}
        PROVE  /\ AllClose(commanded'.position, inbox[k].pose.position)
               /\ commanded'.rotation = inbox[k].pose.rotation
    <3>1. current_pose \in Pose /\ commanded \in Pose /\ inbox[k].pose \in Pose
      <4>1. current_pose \in Pose /\ inbox[k].pose # Bad /\ inbox[k].pose # NonFinite
        BY <1>1, <2>3, <2>4 DEF Readable, Raises, IInv, TypeOK
      <4> QED
        BY <1>1, <2>1, <2>6, <4>1, PacketFields, EngagedOrContinues
    <3>2. LimitCounters(inbox[k].pose, commanded, current_pose) = {}
      <4>1. LimitCounters(inbox[k].pose, commanded, current_pose) \subseteq raised'
        BY <2>6 DEF Followed
      <4>2. "clamped_joint" \notin LimitCounters(inbox[k].pose, commanded, current_pose)
        BY DEF LimitCounters
      <4> QED
        BY <2>6, <4>1, <4>2
    <3>3. commanded' = Limit(inbox[k].pose, commanded, current_pose)
      BY <2>6 DEF Followed
    <3> QED
      BY <3>1, <3>2, <3>3, UncountedLimitIsRequest
  <2>7. CASE Refused(inbox[k])
    BY <2>7 DEF Refused
  <2>8. ~Released(inbox[k]) /\ ~Ignored(inbox[k])
    BY <1>1 DEF Released, Ignored
  <2> QED
    BY <2>3, <2>4, <2>5, <2>6, <2>7, <2>8 DEF Consume
<1> HIDE DEF Asked, Shown
<1>2. IInv /\ [Next]_vars => [\A i \in DOMAIN inbox : Asked(i) => Shown(i)]_vars
  BY <1>1
<1>3. Spec => [][\A i \in DOMAIN inbox : Asked(i) => Shown(i)]_vars
  BY <1>2, IInvHolds, PTL DEF Spec
<1> QED
  BY <1>3, PTL DEF SaturationIsCounted, Asked, Shown

(* Only the newest packet steers, and a release that is last in the buffer *)
(* overrides whatever is queued before it.                                 *)
THEOREM NewestRules == Spec => NewestPacketRules
<1>1. ASSUME IInv, [Next]_vars, target' # target
      PROVE  /\ \E i \in DOMAIN inbox : inbox[i] \in Packet /\ inbox[i].engaged
             /\ inbox[Len(inbox)] # Release
  <2>1. PICK i \in DOMAIN inbox : IsNewest(i) /\ inbox[i] \in Packet /\ inbox[i].engaged
    BY <1>1, TargetMoves DEF latched
  <2>2. ASSUME inbox[Len(inbox)] = Release PROVE FALSE
    <3>1. inbox \in Seq(Datagram) /\ i \in 1..Len(inbox)
      BY <1>1, <2>1 DEF IInv, TypeOK
    <3>2. Release \notin {Garbage, Mangled}
      BY DatagramAssumption DEF Packet
    <3>3. Len(inbox) \in DOMAIN inbox
      BY <3>1
    <3>4. i \in Int /\ Len(inbox) \in Int /\ i <= Len(inbox)
      BY <3>1
    <3>5. i = Len(inbox)
      BY <2>1, <2>2, <3>2, <3>3, <3>4 DEF IsNewest
    <3> QED
      BY <2>1, <2>2, <3>5 DEF Release
  <2> QED
    BY <2>1, <2>2 DEF IsNewest
<1> QED
  BY <1>1, IInvHolds, PTL DEF Spec, NewestPacketRules
=============================================================================
