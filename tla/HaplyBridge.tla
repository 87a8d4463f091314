----------------------------- MODULE HaplyBridge -----------------------------
(***************************************************************************)
(* scripts/haply_teleop_bridge.py, class Bridge: the process between the   *)
(* teleop sender (a Haply operator, or the excitation player) and the      *)
(* /lbr/target_pose and /lbr/target_joint topics.                          *)
(*                                                                         *)
(* The node runs under rclpy.spin, a single-threaded executor, so each     *)
(* callback is one atomic action: OnPose, OnJoints and Tick.  The rest of  *)
(* the world moves between callbacks: the sender puts datagrams into the   *)
(* socket buffer, time passes, the arm moves, the process is stopped and   *)
(* started again.  Nothing forces a tick to be punctual: an executor that  *)
(* stalls is an Elapse that happens before the next Tick.                  *)
(***************************************************************************)
EXTENDS TeleopEnvelope, Sequences

CONSTANTS
    Positions, Rotations, JointAngles,  \* where the arm can be
    JointRequests,  \* what a packet's `joints` field may hold
    EngageIds,      \* the ids a sender numbers its engagements with
    Bad,            \* a field that is absent, of the wrong shape or not numeric
    NonFinite,      \* a pose whose quaternion is all zero or has a non-finite entry
    Garbage,        \* a datagram json.loads rejects
    Mangled,        \* a datagram json.loads cannot even decode: no UTF-8
    DryRun,         \* --dry-run
    Watchdog,       \* --watchdog-ms, in units of Elapse
    ArmStep,        \* how far the arm can move in one unit of time
    InboxCap        \* bound: datagrams the socket buffer holds

ASSUME BridgeAssumption ==
    /\ Positions \subseteq Int /\ Rotations \subseteq Int
    /\ JointAngles \subseteq -JointLimit..JointLimit
    /\ JointRequests \subseteq Int \cup {None, Bad}
    /\ Watchdog \in Nat /\ ArmStep \in Nat /\ InboxCap \in Nat \ {0}
    /\ DryRun \in BOOLEAN
    /\ None \notin Pose \cup EngageIds
    /\ Bad \notin Pose \cup Int \cup {None}
    /\ NonFinite \notin Pose \cup {Bad}

ArmPose == [position: Positions, rotation: Rotations]

(***************************************************************************)
(* A datagram: what a sender puts in a packet, or noise.  A release is     *)
(* read no further than its `engaged` field, so one stands for all.  Bad   *)
(* is a pose that is missing, misshapen or has a non-finite position: the  *)
(* bridge treats them alike.                                               *)
(***************************************************************************)
Release == [engaged |-> FALSE, engage_id |-> None, pose |-> Bad, joints |-> None]

Packet == {Release} \cup
          [engaged: {TRUE}, engage_id: EngageIds \cup {None},
           pose: ArmPose \cup {Bad, NonFinite}, joints: JointRequests]

ASSUME DatagramAssumption == Garbage # Mangled /\ {Garbage, Mangled} \cap Packet = {}

Datagram == Packet \cup {Garbage, Mangled}

VARIABLES
    process,          \* "up", "stopped" by a signal, or ended by an exception:
                      \* "raised" in _consume, "undecodable" in _drain
    engaged,          \* self.engaged
    engage_id,        \* self.engage_id
    current_pose,     \* self.current_pose: the last pose message delivered
    joint_positions,  \* self.joint_positions
    commanded,        \* self.commanded
    commanded_joints, \* self.commanded_joints
    packet_age,       \* now - self.last_packet_s, None before any packet
    raised,           \* the counters the latest step incremented
    reply,            \* the datagram the latest step sent back, if it sent one
    inbox,            \* the socket buffer, oldest first
    target,           \* latched by the controller from /lbr/target_pose
    joint_target,     \* latched by the controller from /lbr/target_joint
    arm,              \* where the arm really is
    sending           \* the sender process is alive

session == <<engaged, engage_id, current_pose, joint_positions, commanded,
             commanded_joints, packet_age>>
latched == <<target, joint_target>>
vars == <<process, session, raised, reply, inbox, latched, arm, sending>>

Arm == [pose: ArmPose, joints: JointAngles]

(***************************************************************************)
(* Bridge.__init__: every field starts empty, and so does a socket that    *)
(* has just been bound.                                                    *)
(***************************************************************************)
FreshSession ==
    /\ engaged = FALSE
    /\ engage_id = None
    /\ current_pose = None
    /\ joint_positions = None
    /\ commanded = None
    /\ commanded_joints = None
    /\ packet_age = None

Init ==
    /\ FreshSession
    /\ process = "up"
    /\ raised = {}
    /\ reply = None
    /\ inbox = <<>>
    /\ target = None
    /\ joint_target = None
    /\ arm \in Arm
    /\ sending = TRUE

-----------------------------------------------------------------------------
(***************************************************************************)
(* The world outside the bridge.                                           *)
(***************************************************************************)
\* A step that counts nothing and answers nobody.
NoOutput == raised' = {} /\ reply' = None

Send(datagram) ==
    /\ sending
    /\ process = "up"
    /\ Len(inbox) < InboxCap
    /\ inbox' = Append(inbox, datagram)
    /\ NoOutput
    /\ UNCHANGED <<process, session, latched, arm, sending>>

\* The sender exits or is killed: no datagram follows.
SenderDies ==
    /\ sending
    /\ sending' = FALSE
    /\ NoOutput
    /\ UNCHANGED <<process, session, inbox, latched, arm>>

\* A unit of time passes; the arm follows, sags or is pushed meanwhile.
Elapse ==
    /\ packet_age' = IF packet_age = None THEN None
                     ELSE Clip(packet_age + 1, 0, Watchdog + 1)
    /\ arm' \in Arm
    /\ Distance(arm'.pose.position, arm.pose.position) <= ArmStep
    /\ Distance(arm'.pose.rotation, arm.pose.rotation) <= ArmStep
    /\ Distance(arm'.joints, arm.joints) <= ArmStep
    /\ NoOutput
    /\ UNCHANGED <<process, engaged, engage_id, current_pose, joint_positions,
                   commanded, commanded_joints, inbox, latched, sending>>

-----------------------------------------------------------------------------
(***************************************************************************)
(* The two subscriptions.                                                  *)
(***************************************************************************)
OnPose ==
    /\ process = "up"
    /\ current_pose' = arm.pose
    /\ NoOutput
    /\ UNCHANGED <<process, engaged, engage_id, joint_positions, commanded,
                   commanded_joints, packet_age, inbox, latched, arm, sending>>

OnJoints ==
    /\ process = "up"
    /\ joint_positions' = arm.joints
    /\ NoOutput
    /\ UNCHANGED <<process, engaged, engage_id, current_pose, commanded,
                   commanded_joints, packet_age, inbox, latched, arm, sending>>

-----------------------------------------------------------------------------
(***************************************************************************)
(* _drain: the whole buffer is read, the newest packet that decodes is     *)
(* kept and everything older is discarded.  Only JSONDecodeError is        *)
(* caught: one datagram that is no UTF-8, wherever it is queued, ends it.  *)
(***************************************************************************)
Drains == \A i \in DOMAIN inbox : inbox[i] # Mangled

IsOldest(i) ==
    /\ i \in DOMAIN inbox
    /\ inbox[i] \notin {Garbage, Mangled}
    /\ \A j \in DOMAIN inbox : j < i => inbox[j] = Garbage

IsNewest(i) ==
    /\ i \in DOMAIN inbox
    /\ inbox[i] \notin {Garbage, Mangled}
    /\ \A j \in DOMAIN inbox : j > i => inbox[j] = Garbage

NothingDecodes == \A i \in DOMAIN inbox : inbox[i] = Garbage

(***************************************************************************)
(* _consume, one operator per way through it.  `still` is self.engaged     *)
(* after the engage_id comparison, which disengages on a new id.           *)
(***************************************************************************)
NamesNewEngage(packet) == packet.engage_id # None /\ packet.engage_id # engage_id

NewIdForgotten(packet) == engaged

StillEngaged(packet) == engaged /\ ~NamesNewEngage(packet)

AdoptEngageId(packet) ==
    engage_id' = IF NamesNewEngage(packet) THEN packet.engage_id ELSE engage_id

Readable(packet) == current_pose # None /\ packet.pose # Bad

Released(packet) ==
    /\ ~packet.engaged
    /\ engaged' = FALSE
    /\ raised' = {}
    /\ UNCHANGED <<engage_id, commanded, commanded_joints>>

\* Slip: the clutch is believed before the packet is validated.
EngagedUnvalidated(packet) ==
    /\ packet.engaged /\ ~Readable(packet)
    /\ AdoptEngageId(packet)
    /\ engaged' = TRUE
    /\ raised' = {}
    /\ UNCHANGED <<commanded, commanded_joints>>

\* No measured pose yet, or a malformed packet: nothing but the id changes.
Ignored(packet) ==
    /\ packet.engaged /\ ~Readable(packet)
    /\ AdoptEngageId(packet)
    /\ engaged' = StillEngaged(packet)
    /\ raised' = {}
    /\ UNCHANGED <<commanded, commanded_joints>>

Refused(packet) ==
    /\ packet.engaged /\ Readable(packet)
    /\ ~StillEngaged(packet) /\ ~Anchored(packet.pose, current_pose)
    /\ AdoptEngageId(packet)
    /\ engaged' = FALSE
    /\ raised' = {"refusals"}
    /\ UNCHANGED <<commanded, commanded_joints>>

\* Slip: the command starts at the request, which is within the tolerance.
EngagedAtRequest(packet) ==
    /\ packet.engaged /\ Readable(packet)
    /\ ~StillEngaged(packet) /\ Anchored(packet.pose, current_pose)
    /\ AdoptEngageId(packet)
    /\ engaged' = TRUE
    /\ raised' = {}
    /\ commanded' = packet.pose
    /\ commanded_joints' = joint_positions

\* The engage edge: the command starts at the measured pose and joints,
\* whatever the packet asked for inside the tolerance.
Engaged(packet) ==
    /\ packet.engaged /\ Readable(packet)
    /\ ~StillEngaged(packet) /\ Anchored(packet.pose, current_pose)
    /\ AdoptEngageId(packet)
    /\ engaged' = TRUE
    /\ raised' = {}
    /\ commanded' = current_pose
    /\ commanded_joints' = joint_positions

Followed(packet) ==
    /\ packet.engaged /\ Readable(packet)
    /\ StillEngaged(packet)
    /\ AdoptEngageId(packet)
    /\ engaged' = TRUE
    /\ raised' = LimitCounters(packet.pose, commanded, current_pose)
                   \cup JointCounters(packet.joints, commanded_joints)
    /\ commanded' = Limit(packet.pose, commanded, current_pose)
    /\ commanded_joints' = LimitJoints(packet.joints, commanded_joints)

\* A readable packet with a quaternion Rotation.from_quat rejects: the
\* ValueError leaves the timer callback and ends rclpy.spin.
Raises(packet) == packet.engaged /\ Readable(packet) /\ packet.pose = NonFinite

Consume(packet) ==
    \/ Released(packet)
    \/ Ignored(packet)
    \/ Refused(packet)
    \/ Engaged(packet)
    \/ Followed(packet)

\* Slip: the anchor of a new engagement is not published.
PublishPoseOnly ==
    /\ target' = IF engaged' /\ commanded' # None /\ ~DryRun THEN commanded' ELSE target
    /\ UNCHANGED joint_target

\* _publish: the pose, and the nullspace anchor whenever there is one.
Publish ==
    IF engaged' /\ commanded' # None /\ ~DryRun
    THEN /\ target' = commanded'
         /\ joint_target' = IF commanded_joints' # None
                            THEN commanded_joints' ELSE joint_target
    ELSE UNCHANGED latched

\* Slip: the guard for a pose that was not measured yet is dropped.
ReplyUnmeasured ==
    reply' = [pose |-> current_pose, joints |-> joint_positions, engaged |-> engaged']

\* _reply: the arm's own state back to whoever sent last.
Reply ==
    reply' = IF current_pose = None THEN None
             ELSE [pose |-> current_pose, joints |-> joint_positions,
                   engaged |-> engaged']

(***************************************************************************)
(* _tick with a packet: it refreshes the watchdog before it is looked at,  *)
(* so the watchdog cannot fire in this tick.                               *)
(***************************************************************************)
TickWithPacket ==
    /\ process = "up"
    /\ Drains
    /\ \E i \in DOMAIN inbox :
         /\ IsNewest(i)
         /\ ~Raises(inbox[i])
         /\ Consume(inbox[i])
    /\ packet_age' = 0
    /\ Publish
    /\ Reply
    /\ inbox' = <<>>
    /\ UNCHANGED <<process, current_pose, joint_positions, arm, sending>>

\* _tick without one: the watchdog lets go, or the command is sent once more.
WatchdogForgotten == FALSE

SilentTooLong == packet_age # None /\ packet_age > Watchdog

TickWithoutPacket ==
    /\ process = "up"
    /\ NothingDecodes
    /\ UNCHANGED <<process, engage_id, current_pose, joint_positions, commanded,
                   commanded_joints, packet_age, arm, sending>>
    /\ engaged' = (engaged /\ ~SilentTooLong)
    /\ Publish
    /\ inbox' = <<>>
    /\ NoOutput

\* What is left when the process ends: the controller keeps the last target.
ProcessEnds(how) ==
    /\ process' = how
    /\ engaged' = FALSE
    /\ engage_id' = None
    /\ current_pose' = None
    /\ joint_positions' = None
    /\ commanded' = None
    /\ commanded_joints' = None
    /\ packet_age' = None
    /\ inbox' = <<>>
    /\ NoOutput
    /\ UNCHANGED <<latched, arm, sending>>

TickRaises ==
    /\ process = "up"
    /\ \/ /\ Drains
          /\ \E i \in DOMAIN inbox : IsNewest(i) /\ Raises(inbox[i])
          /\ ProcessEnds("raised")
       \/ ~Drains /\ ProcessEnds("undecodable")

Tick == TickWithPacket \/ TickWithoutPacket \/ TickRaises

(***************************************************************************)
(* main(): SIGINT or SIGTERM ends the spin; the operator starts the        *)
(* bridge again, possibly while the sender still holds the clutch.         *)
(***************************************************************************)
Signalled == process = "up" /\ ProcessEnds("stopped")

Start ==
    /\ process # "up"
    /\ process' = "up"
    /\ NoOutput
    /\ UNCHANGED <<session, inbox, latched, arm, sending>>

-----------------------------------------------------------------------------
Next ==
    \/ \E datagram \in Datagram : Send(datagram)
    \/ SenderDies
    \/ Elapse
    \/ OnPose
    \/ OnJoints
    \/ Tick
    \/ Signalled
    \/ Start

Spec == Init /\ [][Next]_vars

\* Time passes, and the 200 Hz timer keeps firing while the process is up.
Fairness == WF_vars(Elapse) /\ WF_vars(Tick)

FairSpec == Spec /\ Fairness
-----------------------------------------------------------------------------
(***************************************************************************)
(* Properties that hold.                                                   *)
(***************************************************************************)
Counters == {"refusals", "clamped_lin", "clamped_rot", "clamped_box",
             "clamped_err", "clamped_joint"}

(* Every field holds what __init__, the callbacks and the tick may give it. *)
TypeOK ==
    /\ process \in {"up", "stopped", "raised", "undecodable"}
    /\ engaged \in BOOLEAN
    /\ engage_id \in EngageIds \cup {None}
    /\ current_pose \in Pose \cup {None}
    /\ joint_positions \in JointAngles \cup {None}
    /\ commanded \in Pose \cup {None}
    /\ commanded_joints \in Int \cup {None}
    /\ packet_age \in (0..Watchdog + 1) \cup {None}
    /\ raised \in SUBSET Counters
    /\ reply \in [pose: Pose, joints: JointAngles \cup {None}, engaged: BOOLEAN]
                   \cup {None}
    /\ inbox \in Seq(Datagram)
    /\ target \in Pose \cup {None}
    /\ joint_target \in Int \cup {None}
    /\ arm \in Arm
    /\ sending \in BOOLEAN

(* The assertions of _report and _limit never fire: an engaged bridge has  *)
(* a command and a measured pose, whatever came over the socket in         *)
(* whatever order.                                                         *)
AssertionsHold ==
    engaged => commanded # None /\ current_pose # None

\* The engagement of this step is the one that was already under way.
Continues == engaged /\ engage_id' = engage_id

(* A target that moves outside a running engagement starts from the        *)
(* measured pose: after a watchdog hold, a release, a refusal, a restart   *)
(* or a new engage_id the arm is never handed a pose it is not at.         *)
SteeringStartsAtArm ==
    [][target' # target /\ ~Continues => target' = current_pose]_vars

(* Every new target is within the error bound of the newest measurement,   *)
(* in translation and in rotation: the bound on the impedance force.       *)
ErrorCapped ==
    [][target' # target =>
        /\ Distance(target'.position, current_pose.position) <= MaxErr
        /\ Distance(target'.rotation, current_pose.rotation) <= MaxErrRot]_vars

(* The box clamp runs before the error clamp, so a target can lie outside  *)
(* the workspace box; it never lies further outside than the arm itself.   *)
NeverFurtherOutside ==
    [][target' # target =>
        Outside(target'.position) <= Outside(current_pose.position)]_vars

(* A target that moves further than one tick's slew within an engagement   *)
(* does so only in a tick that counted a box or an error clamp, or by as   *)
(* little as numpy.allclose lets the box clamp move it uncounted.          *)
LungeIsCounted ==
    [][target' # target /\ Continues =>
        \/ raised' \cap {"clamped_box", "clamped_err"} # {}
        \/ /\ \E step \in -MaxStep..MaxStep :
                  AllClose(target'.position, target.position + step)
           /\ Distance(target'.rotation, target.rotation) <= MaxRot]_vars

(* A recorder reading the status counters sees every row that is not told  *)
(* to the arm as it was asked, also one pinned where the command already   *)
(* is: a tick whose packet asks for a readable pose either counts, or the  *)
(* command is the request give or take numpy.allclose's tolerance.  The    *)
(* one row it cannot see is the engage edge, which is told the measured    *)
(* pose, within the anchor tolerance of the request, and counts nothing.   *)
SaturationIsCounted ==
    [][\A i \in DOMAIN inbox :
        (/\ IsNewest(i) /\ inbox[i].engaged /\ Readable(inbox[i])
         /\ inbox' = <<>> /\ process' = "up") =>
            \/ raised' \ {"clamped_joint"} # {}
            \/ /\ AllClose(commanded'.position, inbox[i].pose.position)
               /\ commanded'.rotation = inbox[i].pose.rotation
            \/ /\ ~Continues /\ Anchored(inbox[i].pose, current_pose)
               /\ commanded' = current_pose]_vars

(* Only the newest packet steers: a target moves under an engaged packet,  *)
(* and a release that is the last datagram in the buffer overrides every   *)
(* engaged packet queued before it.                                        *)
NewestPacketRules ==
    [][target' # target =>
        /\ \E i \in DOMAIN inbox : inbox[i] \in Packet /\ inbox[i].engaged
        /\ inbox[Len(inbox)] # Release]_vars

(* What the controller latched is what the bridge holds as commanded for   *)
(* as long as it is engaged, so the envelope of the next tick is measured  *)
(* from where the spring anchor really is.                                 *)
LatchedIsCommanded ==
    engaged /\ ~DryRun =>
        /\ target = commanded
        /\ commanded_joints # None => joint_target = commanded_joints

(* The nullspace anchor stays inside the joint limits whatever arrives,    *)
(* even when the engage edge copied a measured angle from the margin band. *)
JointAnchorInRange ==
    joint_target # None => Distance(joint_target, 0) <= JointLimit

(* The nullspace anchor steps at most once in an engagement.  It is        *)
(* rate-limited as soon as there is one; an engagement that began before   *)
(* any joint state has none, takes the first request whole, and from then  *)
(* on has one for good.  (_limit_joints' docstring, lines 357-358, says    *)
(* the anchor is rate-limited exactly as the pose is: not that request.)   *)
JointAnchorStepsOnce ==
    [][Continues /\ engaged' =>
        /\ joint_target' # joint_target =>
              \/ commanded_joints = None
              \/ Distance(joint_target', joint_target) <= MaxJointStep
        /\ commanded_joints # None => commanded_joints' # None]_vars

(* A sender that dies is noticed: the bridge lets go for good, although    *)
(* the controller itself has no timeout.  (A dead sender stays dead.)      *)
SilenceDisengages == <>[](sending \/ ~engaged)

-----------------------------------------------------------------------------
(***************************************************************************)
(* What all this promises the arm.                                         *)
(***************************************************************************)
Promise == INSTANCE SpringAnchor WITH
    anchor <- target, measured <- current_pose, following <- engaged /\ ~DryRun

(* The bridge implements SpringAnchor: the controller's anchor stays,      *)
(* begins at the measured pose or follows within reach, whatever order     *)
(* packets, measurements, silences and restarts come in.                   *)
KeepsPromise == Promise!Spec

-----------------------------------------------------------------------------
(***************************************************************************)
(* A statement of the source that the code does not keep.                  *)
(***************************************************************************)
(* A packet that is not a finite pose is one the bridge reports and        *)
(* ignores; it does not end the process.                                   *)
NonFinitePacketIgnored == process # "raised"
=============================================================================
