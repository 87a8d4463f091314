------------------------- MODULE ExciteSessionProofs -------------------------
(***************************************************************************)
(* An excitation session ends by the player's release and never by the     *)
(* bridge's watchdog, for every plan, arm, envelope and timing of the two  *)
(* processes, if two late iterations of the player fit in the watchdog.    *)
(***************************************************************************)
EXTENDS ExciteSession, HaplyBridgeRefinement

(* The bound the defaults keep: a period of 5 ms, a watchdog of 100 ms.    *)
TwoStallsFit == 2 * MaxStall <= Watchdog

(* Until its first packet the player has only probed.                      *)
NothingSent ==
    \/ stage \in {"probing", "prompt"}
    \/ stage = "streaming" /\ (sample = None \/ Rehearse)

(* From its first release on it sends nothing else.                        *)
Releasing ==
    \/ stage = "releasing" /\ left < Releases
    \/ stage = "exited"

(* Between the last packet of the plan and the first one after it the      *)
(* player has spent one stall and waits for the next iteration.            *)
Between ==
    \/ stage = "pinning" /\ left = PinFor
    \/ stage = "releasing" /\ left = Releases

SinceSent == IF Between THEN MaxStall + waited ELSE waited

Engaging == {<<Player!Command(q)>> : q \in JointAngles}

(* What the bridge has heard: nothing yet; or the end; or a packet no      *)
(* older than the last one the player sent, unless one is still unread.    *)
Heard ==
    /\ NothingSent => ~engaged /\ inbox \notin Engaging
    /\ Releasing => inbox \notin Engaging /\ (engaged => inbox = <<Release>>)
    /\ engaged /\ inbox = <<>> /\ ~NothingSent /\ ~Releasing => packet_age <= SinceSent

(* A bridge that is down holds nothing; one engaged is so by this player.  *)
BridgeSide ==
    /\ process # "up" => ~engaged /\ inbox = <<>>
    /\ inbox \in {<<>>, <<Release>>} \cup Engaging
    /\ engaged \in BOOLEAN
    /\ engaged => engage_id = EngageId /\ packet_age # None
    /\ packet_age \in 0..(Watchdog + 1) \cup {None}
    /\ current_pose \in ArmPose \cup {None}
    /\ joint_positions \in JointAngles \cup {None}
    /\ arm \in Arm

Reading == [pose: ArmPose, joints: JointAngles \cup {None}]

PlayerSide ==
    /\ stage \in {"probing", "prompt", "streaming", "pinning", "releasing", "exited"}
    /\ waited \in 0..MaxStall /\ clock \in Nat /\ elapsed \in Nat
    /\ left \in Nat
    /\ stage = "pinning" => held \in JointAngles
    /\ stage = "releasing" => left \in 1..Releases
    /\ measured_q \in JointAngles \cup {None}
    /\ answers \in Seq(Reading)

SInv == PlayerSide /\ BridgeSide /\ Heard

-----------------------------------------------------------------------------
LEMMA Numbers ==
    /\ Ramp \in Nat \ {0} /\ PinFor \in Nat \ {0} /\ Releases \in Nat \ {0}
    /\ MaxStall \in Nat \ {0} /\ AnswersCap \in Nat \ {0} /\ Watchdog \in Nat
    /\ Plan \in Seq(JointAngles) /\ Len(Plan) \in Nat \ {0}
    /\ None \notin Int /\ JointAngles \subseteq Int
<1>1. Plan \in Seq(JointAngles) /\ Plan # <<>>
  BY SessionAssumption
<1>2. Len(Plan) \in Nat \ {0}
  BY <1>1
<1>3. JointAngles \subseteq Int
  BY BridgeAssumption, EnvelopeAssumption
<1> QED
  BY <1>1, <1>2, <1>3, SessionAssumption, BridgeAssumption, EnvelopeAssumption

LEMMA CommandIsPacket ==
    ASSUME NEW q \in JointAngles
    PROVE  /\ Player!Command(q) \in Packet
           /\ Player!Command(q).engaged = TRUE
           /\ Player!Command(q).engage_id = EngageId
           /\ EngageId # None
BY SessionAssumption, BridgeAssumption DEF Player!Command, Packet

(* The three kinds of datagram in the buffer are told apart.               *)
LEMMA Datagrams ==
    /\ <<Release>> \notin Engaging /\ <<>> \notin Engaging /\ <<Release>> # <<>>
    /\ Release \in Packet /\ Release.engaged = FALSE /\ Player!Probe = Release
    /\ Garbage \notin Packet
<1>1. Release.engaged = FALSE /\ Release \in Packet
  BY DEF Release, Packet
<1>2. \A q \in JointAngles : <<Player!Command(q)>> # <<Release>>
  <2> SUFFICES ASSUME NEW q \in JointAngles, <<Player!Command(q)>> = <<Release>>
               PROVE  FALSE
    OBVIOUS
  <2>1. Player!Command(q) = Release
    <3>1. <<Player!Command(q)>>[1] = <<Release>>[1]
      OBVIOUS
    <3> QED
      BY <3>1
  <2> QED
    BY <1>1, <2>1, CommandIsPacket
<1>3. \A q \in JointAngles : <<Player!Command(q)>> # <<>>
  OBVIOUS
<1> QED
  BY <1>1, <1>2, <1>3, SessionAssumption, DatagramAssumption DEF Engaging

LEMMA InitSInv == SessionInit => SInv
<1> SUFFICES ASSUME SessionInit PROVE SInv
  OBVIOUS
<1>1. <<>> \in Seq(Reading)
  OBVIOUS
<1>2. PlayerSide
  BY <1>1, Numbers DEF SessionInit, Player!FreshPlayer, PlayerSide
<1>3. BridgeSide
  BY DEF SessionInit, Init, FreshSession, BridgeSide, Arm
<1>4. Heard
  BY Datagrams DEF SessionInit, Init, FreshSession, Player!FreshPlayer, Heard, NothingSent,
                   Releasing
<1> QED
  BY <1>2, <1>3, <1>4 DEF SInv

-----------------------------------------------------------------------------
(***************************************************************************)
(* The bridge's steps.                                                     *)
(***************************************************************************)
(* A tick finds nothing, a release, or a packet of this engagement.        *)
LEMMA TickDecides ==
    ASSUME BridgeSide, TickWithPacket \/ TickWithoutPacket
    PROVE  /\ inbox' = <<>> /\ process' = process /\ process = "up"
           /\ \/ /\ inbox = <<>> /\ packet_age' = packet_age /\ engage_id' = engage_id
                 /\ engaged' = (engaged /\ ~SilentTooLong)
              \/ inbox = <<Release>> /\ ~engaged' /\ packet_age' = 0
              \/ /\ inbox \in Engaging /\ packet_age' = 0
                 /\ engaged => engaged'
                 /\ engaged' => engage_id' = EngageId
           /\ engaged' \in BOOLEAN
<1>1. inbox' = <<>> /\ process' = process /\ process = "up"
  BY DEF TickWithPacket, TickWithoutPacket
<1>2. CASE inbox = <<>>
  <2>1. ~TickWithPacket
    BY <1>2 DEF TickWithPacket, IsNewest
  <2> QED
    BY <1>1, <1>2, <2>1 DEF TickWithoutPacket, BridgeSide
<1>3. CASE inbox = <<Release>>
  <2>1. DOMAIN inbox = {1} /\ inbox[1] = Release
    BY <1>3
  <2>2. ~TickWithoutPacket
    BY <2>1, Datagrams DEF TickWithoutPacket, NothingDecodes
  <2>3. Consume(Release) /\ packet_age' = 0
    BY <2>1, <2>2 DEF TickWithPacket, IsNewest
  <2>4. engaged' = FALSE
    BY <2>3, Datagrams DEF Consume, Released, Ignored, Refused, Engaged, Followed
  <2> QED
    BY <1>1, <1>3, <2>3, <2>4
<1>4. CASE inbox \in Engaging
  <2>1. PICK q \in JointAngles : inbox = <<Player!Command(q)>>
    BY <1>4 DEF Engaging
  <2> DEFINE packet == Player!Command(q)
  <2>2. DOMAIN inbox = {1} /\ inbox[1] = packet
    BY <2>1
  <2>3. packet # Garbage /\ packet.engaged = TRUE /\ packet.engage_id = EngageId
    BY CommandIsPacket, Datagrams
  <2> HIDE DEF packet
  <2>4. ~TickWithoutPacket
    BY <2>2, <2>3 DEF TickWithoutPacket, NothingDecodes
  <2>5. Consume(packet) /\ packet_age' = 0
    BY <2>2, <2>4 DEF TickWithPacket, IsNewest
  <2>6. StillEngaged(packet) <=> engaged
    BY <2>3 DEF StillEngaged, NamesNewEngage, BridgeSide
  <2>7. AdoptEngageId(packet) => engage_id' = EngageId
    BY <2>3, SessionAssumption, BridgeAssumption DEF AdoptEngageId, NamesNewEngage
  <2>8. engaged' \in BOOLEAN /\ (engaged => engaged') /\ (engaged' => engage_id' = EngageId)
    <3>1. CASE Ignored(packet)
      BY <2>6, <2>7, <3>1 DEF Ignored, StillEngaged
    <3>2. CASE Refused(packet)
      BY <2>6, <3>2 DEF Refused
    <3>3. CASE Engaged(packet) \/ Followed(packet)
      BY <2>7, <3>3 DEF Engaged, Followed
    <3> QED
      BY <2>3, <2>5, <3>1, <3>2, <3>3 DEF Consume, Released
  <2> QED
    BY <1>1, <1>4, <2>5, <2>8
<1> QED
  BY <1>2, <1>3, <1>4 DEF BridgeSide

LEMMA EndedIsIdle ==
    ASSUME SInv, NEW how, how # "up", ProcessEnds(how), UNCHANGED player
    PROVE  BridgeSide' /\ Heard'
<1>1. BridgeSide'
  BY DEF SInv, BridgeSide, ProcessEnds
<1> QED
  BY <1>1, Datagrams DEF ProcessEnds, Heard


(* The player's own view does not change in a step of the bridge.          *)
LEMMA PlayerStill ==
    ASSUME UNCHANGED player
    PROVE  /\ NothingSent' <=> NothingSent
           /\ Releasing' <=> Releasing
           /\ SinceSent' = SinceSent
BY DEF player, NothingSent, Releasing, SinceSent, Between

LEMMA SinceSentIsNat == PlayerSide => SinceSent \in Nat /\ SinceSent <= 2 * MaxStall
BY Numbers DEF PlayerSide, SinceSent

LEMMA TickKeepsHeard ==
    ASSUME SInv, UNCHANGED player, TickWithPacket \/ TickWithoutPacket
    PROVE  BridgeSide' /\ Heard'
<1>1. UNCHANGED <<current_pose, joint_positions, arm>>
  BY DEF TickWithPacket, TickWithoutPacket
<1>2. /\ inbox' = <<>> /\ process' = "up" /\ engaged' \in BOOLEAN
      /\ inbox \in {<<>>, <<Release>>} \cup Engaging
  BY TickDecides DEF SInv, BridgeSide
<1>3. CASE inbox = <<>>
  <2>1. /\ packet_age' = packet_age /\ engage_id' = engage_id
        /\ engaged' => engaged
    BY <1>3, TickDecides, Datagrams DEF SInv
  <2>2. BridgeSide'
    BY <1>1, <1>2, <2>1 DEF SInv, BridgeSide
  <2>3. Heard'
    BY <1>2, <1>3, <2>1, PlayerStill, Datagrams DEF SInv, Heard
  <2> QED
    BY <2>2, <2>3
<1>4. CASE inbox = <<Release>>
  <2>1. packet_age' = 0 /\ ~engaged'
    BY <1>4, TickDecides, Datagrams DEF SInv
  <2>2. BridgeSide'
    BY <1>1, <1>2, <2>1, Numbers DEF SInv, BridgeSide
  <2>3. Heard'
    BY <1>2, <2>1, Datagrams DEF Heard
  <2> QED
    BY <2>2, <2>3
<1>5. CASE inbox \in Engaging
  <2>1. packet_age' = 0 /\ (engaged' => engage_id' = EngageId)
    BY <1>5, TickDecides, Datagrams DEF SInv
  <2>2. BridgeSide'
    BY <1>1, <1>2, <2>1, Numbers DEF SInv, BridgeSide
  <2>3. ~NothingSent /\ ~Releasing /\ SinceSent \in Nat
    BY <1>5, SinceSentIsNat DEF SInv, Heard
  <2>4. Heard'
    BY <2>1, <2>3, PlayerStill DEF Heard
  <2> QED
    BY <2>2, <2>4
<1> QED
  BY <1>2, <1>3, <1>4, <1>5

LEMMA QueuedTyped ==
    ASSUME answers \in Seq(Reading), NEW answer \in Reading
    PROVE  Player!Queued(answer) \in Seq(Reading)
<1>1. CASE Len(answers) < AnswersCap
  BY <1>1 DEF Player!Queued
<1>2. CASE ~(Len(answers) < AnswersCap)
  <2>1. answers # <<>>
    BY <1>2, Numbers
  <2>2. Tail(answers) \in Seq(Reading)
    BY <2>1
  <2> QED
    BY <1>2, <2>2 DEF Player!Queued
<1> QED
  BY <1>1, <1>2

LEMMA RepliesTyped ==
    ASSUME SInv, OnPose \/ OnJoints \/ Tick
    PROVE  reply' = None \/
           [pose |-> reply'.pose, joints |-> reply'.joints] \in Reading
<1>1. CASE TickWithPacket
  BY <1>1 DEF TickWithPacket, Reply, Reading, SInv, BridgeSide
<1>2. CASE ~TickWithPacket
  BY <1>2 DEF OnPose, OnJoints, Tick, TickWithoutPacket, TickRaises, ProcessEnds, NoOutput
<1> QED
  BY <1>1, <1>2

LEMMA BridgeKeepsSInv == SInv /\ BridgeActs => SInv'
<1> SUFFICES ASSUME SInv, BridgeActs PROVE SInv'
  OBVIOUS
<1>1. UNCHANGED player
  BY DEF BridgeActs
<1>2. answers' \in Seq(Reading)
  BY RepliesTyped, QueuedTyped DEF BridgeActs, SInv, PlayerSide
<1>3. PlayerSide'
  BY <1>1, <1>2 DEF player, PlayerSide, SInv
<1>4. CASE OnPose \/ OnJoints
  <2>1. UNCHANGED <<process, engaged, engage_id, packet_age, inbox, arm>>
    BY <1>4 DEF OnPose, OnJoints
  <2>2. current_pose' \in ArmPose \cup {None} /\ joint_positions' \in JointAngles \cup {None}
    BY <1>4 DEF OnPose, OnJoints, SInv, BridgeSide, Arm
  <2>3. BridgeSide'
    BY <2>1, <2>2 DEF SInv, BridgeSide
  <2>4. Heard'
    BY <1>1, <2>1, PlayerStill DEF SInv, Heard
  <2> QED
    BY <1>3, <2>3, <2>4 DEF SInv
<1>5. CASE TickWithPacket \/ TickWithoutPacket
  BY <1>1, <1>3, <1>5, TickKeepsHeard DEF SInv
<1>6. CASE TickRaises
  BY <1>1, <1>3, <1>6, EndedIsIdle DEF SInv, TickRaises
<1> QED
  BY <1>4, <1>5, <1>6 DEF BridgeActs, Tick

LEMMA RestartKeepsSInv == SInv /\ Restarts => SInv'
<1> SUFFICES ASSUME SInv, Restarts PROVE SInv'
  OBVIOUS
<1>1. UNCHANGED <<player, answers>>
  BY DEF Restarts
<1>2. PlayerSide'
  BY <1>1 DEF player, PlayerSide, SInv
<1>3. CASE Signalled
  BY <1>1, <1>2, <1>3, EndedIsIdle DEF SInv, Signalled
<1>4. CASE Start
  <2>1. BridgeSide'
    BY <1>4 DEF SInv, BridgeSide, Start, session
  <2>2. Heard'
    BY <1>1, <1>4, PlayerStill DEF SInv, Heard, Start, session
  <2> QED
    BY <1>2, <2>1, <2>2 DEF SInv
<1> QED
  BY <1>3, <1>4 DEF Restarts

(* One clock: the bridge's silence grows no faster than the player's.      *)
LEMMA TimeKeepsSInv == SInv /\ Passes => SInv'
<1> SUFFICES ASSUME SInv, Passes PROVE SInv'
  OBVIOUS
<1>1. UNCHANGED <<process, engaged, engage_id, current_pose, joint_positions, inbox,
                  stage, sample, clock, measured_q, held, left, answers>>
  BY DEF Passes, Elapse, Player!TimePasses, Player!arm_seen
<1>2. PlayerSide'
  <2>1. waited' \in 0..MaxStall
    BY Numbers DEF Passes, Player!TimePasses, Player!Ages, SInv, PlayerSide
  <2>2. elapsed' \in Nat
    BY DEF Passes, Player!TimePasses, Player!Ages, SInv, PlayerSide
  <2> QED
    BY <1>1, <2>1, <2>2 DEF SInv, PlayerSide
<1>3. /\ packet_age = None => packet_age' = None
      /\ packet_age # None => packet_age' \in 0..(Watchdog + 1) /\ packet_age' <= packet_age + 1
  BY Numbers DEF Passes, Elapse, Clip, SInv, BridgeSide
<1>4. BridgeSide'
  <2>1. arm' \in Arm
    BY DEF Passes, Elapse
  <2>2. packet_age' # None <=> packet_age # None
    BY <1>3, Numbers
  <2> QED
    BY <1>1, <1>3, <2>1, <2>2 DEF SInv, BridgeSide
<1>5. ~NothingSent /\ ~Releasing => SinceSent' = SinceSent + 1
  <2> SUFFICES ASSUME ~NothingSent, ~Releasing PROVE SinceSent' = SinceSent + 1
    OBVIOUS
  <2>1. Player!Running
    BY DEF NothingSent, Releasing, Player!Running, SInv, PlayerSide
  <2>2. waited' = waited + 1
    BY <2>1 DEF Passes, Player!TimePasses, Player!Ages
  <2> QED
    BY <1>1, <2>2, Numbers DEF SinceSent, Between, SInv, PlayerSide
<1>6. Heard'
  <2>1. (NothingSent' <=> NothingSent) /\ (Releasing' <=> Releasing)
    BY <1>1 DEF NothingSent, Releasing
  <2>2. ASSUME engaged, inbox = <<>>, ~NothingSent, ~Releasing
        PROVE  packet_age' <= SinceSent'
    <3>1. packet_age <= SinceSent /\ packet_age # None /\ packet_age \in 0..(Watchdog + 1)
      BY <2>2 DEF SInv, Heard, BridgeSide
    <3> QED
      BY <1>3, <1>5, <2>2, <3>1, Numbers, SinceSentIsNat DEF SInv
  <2> QED
    BY <1>1, <2>1, <2>2 DEF SInv, Heard
<1> QED
  BY <1>2, <1>4, <1>6 DEF SInv


-----------------------------------------------------------------------------
(***************************************************************************)
(* The player's steps.                                                     *)
(***************************************************************************)
(* What the player sends reaches a bridge that is up.                      *)
LEMMA TransmitReaches ==
    ASSUME BridgeSide, NEW datagram, Player!Transmit(datagram)
    PROVE  inbox' = <<datagram>> \/ (inbox' = <<>> /\ ~engaged)
BY DEF BridgeSide, Player!Transmit

LEMMA DrainTyped ==
    ASSUME PlayerSide, Player!Drain
    PROVE  measured_q' \in JointAngles \cup {None} /\ answers' \in Seq(Reading)
<1>1. CASE answers = <<>>
  BY <1>1 DEF PlayerSide, Player!Drain, Player!arm_seen
<1>2. CASE answers # <<>>
  <2>1. answers[Len(answers)] \in Reading
    BY <1>2 DEF PlayerSide
  <2>2. answers[Len(answers)].joints \in JointAngles \cup {None}
    BY <2>1 DEF Reading
  <2>3. answers' = <<>> /\ <<>> \in Seq(Reading)
    BY <1>2 DEF Player!Drain
  <2> QED
    BY <1>2, <2>2, <2>3 DEF PlayerSide, Player!Drain
<1> QED
  BY <1>1, <1>2

(* The row that is commanded is a row of the plan.                         *)
LEMMA RowTyped ==
    ASSUME PlayerSide
    PROVE  /\ Player!Advanced \in Nat
           /\ Player!Index + 1 \in Nat
           /\ Plan[Player!Index + 1] \in JointAngles
<1>1. Player!End \in Nat
  BY Numbers DEF Player!End
<1> DEFINE gain == waited * elapsed
<1>2. gain \in Nat
  BY Numbers DEF PlayerSide
<1>3. clock \in Nat
  BY DEF PlayerSide
<1> HIDE DEF gain
<1>4. Player!Until(clock + gain) \in Nat
  BY <1>1, <1>2, <1>3 DEF Player!Until
<1>5. Player!Advanced \in Nat
  BY <1>3, <1>4 DEF Player!Advanced, gain
<1>6. Player!Reached \in Nat
  BY <1>5, Numbers DEF Player!Reached
<1>7. Player!Index + 1 \in 1..Len(Plan)
  BY <1>6, Numbers DEF Player!Index
<1> QED
  BY <1>5, <1>7, Numbers

(* Before the run begins the player only asks.                             *)
LEMMA AskingKeepsSInv ==
    ASSUME SInv, PlayerActs,
           \/ Player!AskState \/ Player!CheckStart \/ Player!NotStarted
           \/ Player!Confirmed \/ Player!Signal
    PROVE  SInv'
<1>1. UNCHANGED <<process, engaged, engage_id, packet_age, current_pose, joint_positions, arm>>
  BY DEF PlayerActs, session
<1>2. CASE Player!Signal
  <2>1. UNCHANGED <<inbox, stage, sample, clock, elapsed, waited, measured_q, held, left, answers>>
    BY <1>2 DEF Player!Signal, Player!run, Player!arm_seen
  <2> QED
    BY <1>1, <2>1 DEF SInv, PlayerSide, BridgeSide, Heard, NothingSent, Releasing, SinceSent,
                      Between
<1>3. CASE ~Player!Signal
  <2>1. /\ stage \in {"probing", "prompt"}
        /\ stage' \in {"probing", "prompt", "streaming", "exited"}
        /\ UNCHANGED <<waited, clock, elapsed, left, held, measured_q>>
        /\ inbox' \in {inbox, <<Release>>}
    BY <1>3, Datagrams
       DEF Player!AskState, Player!CheckStart, Player!NotStarted, Player!Confirmed,
           Player!Transmit, Player!player, Player!run, Player!arm_seen
  <2>2. answers' \in Seq(Reading)
    <3>1. CASE Player!CheckStart
      <4>1. answers # <<>> /\ answers' = Tail(answers) /\ answers \in Seq(Reading)
        BY <3>1 DEF Player!CheckStart, SInv, PlayerSide
      <4> QED
        BY <4>1
    <3>2. CASE ~Player!CheckStart
      BY <1>3, <3>2
         DEF Player!AskState, Player!NotStarted, Player!Confirmed, SInv, PlayerSide
    <3> QED
      BY <3>1, <3>2
  <2>3. ~engaged /\ inbox \notin Engaging
    BY <2>1 DEF SInv, Heard, NothingSent
  <2>4. inbox' \notin Engaging /\ inbox' \in {<<>>, <<Release>>}
    BY <2>1, <2>3, Datagrams DEF SInv, BridgeSide
  <2>5. process # "up" => inbox' = <<>>
    BY <1>3, <2>3 DEF SInv, BridgeSide, Player!AskState, Player!CheckStart,
                      Player!NotStarted, Player!Confirmed, Player!Transmit
  <2>6. PlayerSide'
    BY <2>1, <2>2 DEF SInv, PlayerSide
  <2>7. BridgeSide'
    BY <1>1, <2>3, <2>4, <2>5 DEF SInv, BridgeSide
  <2>8. Heard'
    BY <1>1, <2>3, <2>4 DEF Heard
  <2> QED
    BY <2>6, <2>7, <2>8 DEF SInv
<1> QED
  BY <1>2, <1>3

(* A packet in the buffer, or a bridge that is down, needs no account of   *)
(* time.                                                                   *)
LEMMA SendingKeeps ==
    ASSUME SInv, PlayerActs, NEW q \in JointAngles, Player!Transmit(Player!Command(q)),
           ~NothingSent', ~Releasing'
    PROVE  BridgeSide' /\ Heard'
<1>1. UNCHANGED <<process, engaged, engage_id, packet_age, current_pose, joint_positions, arm>>
  BY DEF PlayerActs, session
<1>2. inbox' = <<Player!Command(q)>> \/ (inbox' = <<>> /\ ~engaged)
  BY TransmitReaches DEF SInv
<1>3. <<Player!Command(q)>> \in Engaging
  BY DEF Engaging
<1>4. process # "up" => inbox' = <<>>
  BY DEF SInv, BridgeSide, Player!Transmit
<1>5. BridgeSide'
  BY <1>1, <1>2, <1>3, <1>4 DEF SInv, BridgeSide
<1> QED
  BY <1>1, <1>2, <1>3, <1>5, Datagrams DEF Heard

LEMMA IterateKeepsSInv == SInv /\ PlayerActs /\ Player!Iterate => SInv'
<1> SUFFICES ASSUME SInv, PlayerActs, Player!Iterate PROVE SInv'
  OBVIOUS
<1>1. PlayerSide'
  BY RowTyped, DrainTyped, Numbers DEF SInv, PlayerSide, Player!Iterate
<1>2. /\ stage = "streaming" /\ stage' = "streaming"
      /\ sample' # None
  BY RowTyped, Numbers DEF SInv, Player!Iterate
<1>3. CASE Rehearse
  <2>1. UNCHANGED <<process, engaged, engage_id, packet_age, current_pose,
                    joint_positions, arm, inbox>>
    BY <1>3 DEF PlayerActs, session, Player!Iterate
  <2>2. NothingSent
    BY <1>2, <1>3 DEF NothingSent
  <2> QED
    BY <1>1, <2>1, <2>2 DEF SInv, BridgeSide, Heard
<1>4. CASE ~Rehearse
  <2>1. ~NothingSent' /\ ~Releasing'
    BY <1>2, <1>4 DEF NothingSent, Releasing
  <2>2. Player!Transmit(Player!Command(Plan[Player!Index + 1]))
    BY <1>4 DEF Player!Iterate
  <2>3. Plan[Player!Index + 1] \in JointAngles
    BY RowTyped DEF SInv
  <2> QED
    BY <1>1, <2>1, <2>2, <2>3, SendingKeeps DEF SInv
<1> QED
  BY <1>3, <1>4

(* The plan ends without a packet: one stall is spent.                     *)
LEMMA LeaveKeepsSInv == SInv /\ PlayerActs /\ Player!Leave => SInv'
<1> SUFFICES ASSUME SInv, PlayerActs, Player!Leave PROVE SInv'
  OBVIOUS
<1>1. UNCHANGED <<process, engaged, engage_id, packet_age, current_pose, joint_positions,
                  arm, inbox, clock, elapsed>>
  BY DEF PlayerActs, session, Player!Leave
<1>2. /\ stage = "streaming" /\ waited' = 0
      /\ \/ stage' = "releasing" /\ left' = Releases
         \/ stage' = "pinning" /\ left' = PinFor /\ held' = measured_q' /\ measured_q' # None
  BY DEF Player!Leave
<1>3. PlayerSide'
  <2>1. measured_q' \in JointAngles \cup {None} /\ answers' \in Seq(Reading)
    BY DrainTyped DEF SInv, Player!Leave
  <2> QED
    BY <1>1, <1>2, <2>1, Numbers DEF SInv, PlayerSide
<1>4. BridgeSide'
  BY <1>1 DEF SInv, BridgeSide
<1>5. ~NothingSent' /\ ~Releasing' /\ Between'
  BY <1>2, Numbers DEF NothingSent, Releasing, Between
<1>6. SinceSent' = MaxStall
  BY <1>2, <1>5, Numbers DEF SinceSent
<1>7. SinceSent <= MaxStall /\ SinceSent \in Nat
  BY <1>2, Numbers DEF SinceSent, Between, SInv, PlayerSide
<1>8. ASSUME engaged, inbox = <<>> PROVE packet_age <= MaxStall
  <2>1. packet_age <= SinceSent /\ packet_age \in Nat
    BY <1>2, <1>8, Numbers DEF SInv, Heard, BridgeSide, Releasing
  <2> QED
    BY <1>7, <2>1, Numbers
<1> QED
  BY <1>1, <1>3, <1>4, <1>5, <1>6, <1>8 DEF SInv, Heard

LEMMA PinKeepsSInv == SInv /\ PlayerActs /\ Player!Pin => SInv'
<1> SUFFICES ASSUME SInv, PlayerActs, Player!Pin PROVE SInv'
  OBVIOUS
<1>1. PlayerSide'
  BY Numbers DEF SInv, PlayerSide, Player!Pin, Player!arm_seen
<1>2. ~NothingSent' /\ ~Releasing'
  BY DEF Player!Pin, NothingSent, Releasing
<1>3. held \in JointAngles /\ Player!Transmit(Player!Command(held))
  BY DEF SInv, PlayerSide, Player!Pin
<1> QED
  BY <1>1, <1>2, <1>3, SendingKeeps DEF SInv

LEMMA PinEndsKeepsSInv == SInv /\ PlayerActs /\ Player!PinEnds => SInv'
<1> SUFFICES ASSUME SInv, PlayerActs, Player!PinEnds PROVE SInv'
  OBVIOUS
<1>1. UNCHANGED <<process, engaged, engage_id, packet_age, current_pose, joint_positions,
                  arm, inbox, clock, elapsed, waited, held>>
  BY DEF PlayerActs, session, Player!PinEnds, Player!run
<1>2. stage = "pinning" /\ left = 0 /\ stage' = "releasing" /\ left' = Releases
  BY DEF Player!PinEnds
<1>3. PlayerSide'
  <2>1. measured_q' \in JointAngles \cup {None} /\ answers' \in Seq(Reading)
    BY DrainTyped DEF SInv, Player!PinEnds
  <2> QED
    BY <1>1, <1>2, <2>1, Numbers DEF SInv, PlayerSide
<1>4. BridgeSide'
  BY <1>1 DEF SInv, BridgeSide
<1>5. ~NothingSent' /\ ~Releasing' /\ Between'
  BY <1>2, Numbers DEF NothingSent, Releasing, Between
<1>6. ~NothingSent /\ ~Releasing /\ ~Between
  BY <1>2, Numbers DEF NothingSent, Releasing, Between
<1>7. SinceSent = waited /\ SinceSent' = MaxStall + waited /\ waited \in Nat
  BY <1>1, <1>5, <1>6, Numbers DEF SinceSent, SInv, PlayerSide
<1>8. ASSUME engaged, inbox = <<>> PROVE packet_age <= MaxStall + waited
  <2>1. packet_age <= waited /\ packet_age \in Nat
    BY <1>6, <1>7, <1>8, Numbers DEF SInv, Heard, BridgeSide
  <2> QED
    BY <1>7, <2>1, Numbers
<1> QED
  BY <1>1, <1>3, <1>4, <1>5, <1>7, <1>8 DEF SInv, Heard

LEMMA LetGoKeepsSInv == SInv /\ PlayerActs /\ Player!LetGo => SInv'
<1> SUFFICES ASSUME SInv, PlayerActs, Player!LetGo PROVE SInv'
  OBVIOUS
<1>1. UNCHANGED <<process, engaged, engage_id, packet_age, current_pose, joint_positions, arm>>
  BY DEF PlayerActs, session
<1>2. /\ left \in 1..Releases /\ left' = left - 1 /\ waited' = 0
      /\ stage' = IF left = 1 THEN "exited" ELSE "releasing"
      /\ UNCHANGED <<clock, elapsed, held, measured_q, answers>>
  BY DEF SInv, PlayerSide, Player!LetGo, Player!arm_seen
<1>3. PlayerSide'
  BY <1>2, Numbers DEF SInv, PlayerSide
<1>4. inbox' = <<Release>> \/ (inbox' = <<>> /\ ~engaged)
  BY TransmitReaches, Datagrams DEF SInv, Player!LetGo
<1>5. process # "up" => inbox' = <<>>
  BY DEF SInv, BridgeSide, Player!LetGo, Player!Transmit
<1>6. BridgeSide'
  BY <1>1, <1>4, <1>5 DEF SInv, BridgeSide
<1>7. Releasing' /\ ~NothingSent'
  BY <1>2, Numbers DEF Releasing, NothingSent
<1> QED
  BY <1>1, <1>3, <1>4, <1>6, <1>7, Datagrams DEF SInv, Heard

LEMMA StillKeepsSInv == SInv /\ UNCHANGED allVars => SInv'
BY DEF allVars, vars, session, player, SInv, PlayerSide, BridgeSide, Heard, NothingSent,
       Releasing, SinceSent, Between

LEMMA NextKeepsSInv == SInv /\ [SessionNext]_allVars => SInv'
<1> SUFFICES ASSUME SInv, SessionNext PROVE SInv'
  BY StillKeepsSInv
<1>1. CASE PlayerActs
  BY <1>1, AskingKeepsSInv, IterateKeepsSInv, LeaveKeepsSInv, PinKeepsSInv,
     PinEndsKeepsSInv, LetGoKeepsSInv DEF PlayerActs, Player!Act, Player!Work
<1>2. CASE BridgeActs
  BY <1>2, BridgeKeepsSInv
<1>3. CASE Passes
  BY <1>3, TimeKeepsSInv
<1>4. CASE Restarts
  BY <1>4, RestartKeepsSInv
<1> QED
  BY <1>1, <1>2, <1>3, <1>4 DEF SessionNext

-----------------------------------------------------------------------------
(* Only a tick of a running bridge ends an engagement, and it finds either *)
(* a release or a packet too young for the watchdog.                       *)
LEMMA EndsInStep ==
    ASSUME TwoStallsFit, SInv, [SessionNext]_allVars, engaged, ~engaged', process' = "up"
    PROVE  inbox = <<Release>>
<1>1. TickWithPacket \/ TickWithoutPacket
  BY DEF SessionNext, allVars, vars, session, PlayerActs, Passes, Elapse, Restarts, Signalled,
         ProcessEnds, Start, BridgeActs, OnPose, OnJoints, Tick, TickRaises
<1>2. SUFFICES ASSUME inbox = <<>> PROVE FALSE
  BY <1>1, TickDecides DEF SInv
<1>3. SilentTooLong
  BY <1>1, <1>2, TickDecides, Datagrams DEF SInv
<1>4. packet_age <= SinceSent /\ packet_age \in Nat
  BY <1>2, Datagrams, Numbers DEF SInv, Heard, BridgeSide
<1>5. SinceSent \in Nat /\ SinceSent <= Watchdog
  BY SinceSentIsNat, Numbers DEF SInv, TwoStallsFit
<1> QED
  BY <1>3, <1>4, <1>5, Numbers DEF SilentTooLong

(* An engagement ends by the player's release and not by the watchdog,     *)
(* however late the two processes run, if two stalls fit in the watchdog.  *)
THEOREM ReleaseSafe == ASSUME TwoStallsFit PROVE SessionSpec => EndsByRelease
<1>1. SInv /\ [SessionNext]_allVars =>
          [engaged /\ ~engaged' /\ process' = "up" => inbox = <<Release>>]_allVars
  BY EndsInStep
<1> QED
  BY <1>1, InitSInv, NextKeepsSInv, PTL DEF SessionSpec, EndsByRelease

-----------------------------------------------------------------------------
(***************************************************************************)
(* The bridge is one of the bridges the player is made for: whatever it    *)
(* does in a session, to the player it is AnyBridge.                       *)
(***************************************************************************)
Tips == {Tip[q] : q \in JointAngles}

(* The bridge measures the arm where its joints put the tip.               *)
Measured == Rigid /\ current_pose \in Tips \cup {None}

LEMMA NextKeepsMeasured == SInv /\ Measured /\ [SessionNext]_allVars => Measured'
<1> SUFFICES ASSUME SInv, Measured, [SessionNext]_allVars PROVE Measured'
  OBVIOUS
<1>1. CASE Passes
  BY <1>1 DEF Passes, Elapse, Measured, Rigid
<1>2. CASE OnPose
  <2>1. arm.pose \in Tips
    BY DEF Measured, Rigid, Tips, SInv, BridgeSide, Arm
  <2> QED
    BY <1>2, <2>1 DEF OnPose, Measured, Rigid
<1>3. CASE PlayerActs \/ Restarts \/ OnJoints \/ Tick \/ UNCHANGED allVars
  BY <1>3 DEF PlayerActs, session, Restarts, Signalled, ProcessEnds, Start, OnJoints,
              Tick, TickWithPacket, TickWithoutPacket, TickRaises, allVars, vars,
              Measured, Rigid
<1> QED
  BY <1>1, <1>2, <1>3 DEF SessionNext, BridgeActs

(* A bridge replies only once it has measured, in a tick that read all.    *)
LEMMA RepliesAsAssumed ==
    ASSUME SInv, Measured, OnPose \/ OnJoints \/ Tick, reply' # None
    PROVE  /\ [pose |-> reply'.pose, joints |-> reply'.joints] \in Player!Answer
           /\ inbox' = <<>> /\ process' = process
<1>1. TickWithPacket
  BY DEF OnPose, OnJoints, Tick, TickWithoutPacket, TickRaises, ProcessEnds, NoOutput
<1>2. /\ current_pose # None
      /\ reply' = [pose |-> current_pose, joints |-> joint_positions, engaged |-> engaged']
  BY <1>1 DEF TickWithPacket, Reply
<1>3. current_pose \in Tips /\ joint_positions \in JointAngles \cup {None}
  BY <1>2 DEF Measured, SInv, BridgeSide
<1> QED
  BY <1>1, <1>2, <1>3 DEF Player!Answer, Tips, TickWithPacket

LEMMA BridgeIsAnyBridge ==
    ASSUME SInv, Measured, BridgeActs \/ Restarts
    PROVE  Player!AnyBridge
<1>1. UNCHANGED Player!player
  BY DEF BridgeActs, Restarts, player, Player!player, Player!run, Player!arm_seen
<1>2. inbox' \in {inbox, <<>>} /\ (process' = "up") \in BOOLEAN
  BY DEF BridgeActs, Restarts, OnPose, OnJoints, Tick, TickWithPacket, TickWithoutPacket,
         TickRaises, Signalled, ProcessEnds, Start
<1>3. CASE UNCHANGED answers
  BY <1>1, <1>2, <1>3 DEF Player!AnyBridge
<1>4. CASE BridgeActs /\ answers' # answers
  <2>1. reply' # None /\ stage # "exited"
    BY <1>4 DEF BridgeActs
  <2>2. answers' = Player!Queued([pose |-> reply'.pose, joints |-> reply'.joints])
    BY <1>4, <2>1 DEF BridgeActs
  <2> QED
    BY <1>1, <1>4, <2>1, <2>2, RepliesAsAssumed DEF BridgeActs, Player!AnyBridge
<1> QED
  BY <1>3, <1>4 DEF Restarts

LEMMA InitAsAssumed == SessionInit => Player!Init /\ Measured
BY DEF SessionInit, Init, FreshSession, Player!Init, Measured

LEMMA NextAsAssumed ==
    SInv /\ Measured /\ [SessionNext]_allVars => [Player!Next]_(Player!vars)
<1> SUFFICES ASSUME SInv, Measured, [SessionNext]_allVars
             PROVE  [Player!Next]_(Player!vars)
  OBVIOUS
<1>1. CASE PlayerActs
  BY <1>1 DEF PlayerActs, Player!Next
<1>2. CASE Passes
  BY <1>2 DEF Passes, Elapse, Player!Next
<1>3. CASE BridgeActs \/ Restarts
  BY <1>3, BridgeIsAnyBridge DEF Player!Next
<1>4. CASE UNCHANGED allVars
  BY <1>4 DEF allVars, vars, player, Player!vars, Player!player, Player!run, Player!arm_seen
<1> QED
  BY <1>1, <1>2, <1>3, <1>4 DEF SessionNext

(* A session is a run of the player against one of the bridges it is made  *)
(* for, through every refusal, restart and late reply.                     *)
THEOREM SessionIsAPlayerRun == SessionSpec => AnswersAsAssumed
BY InitAsAssumed, NextAsAssumed, InitSInv, NextKeepsSInv, NextKeepsMeasured, PTL
   DEF SessionSpec, AnswersAsAssumed, Player!Spec

(* The proofs about the player, taken for the session's player.            *)
Alone == INSTANCE ExcitePlayerProofs WITH link <- inbox, listening <- (process = "up")

LEMMA PlayerAssumed == Alone!PlayerAssumption
BY SessionAssumption, BridgeAssumption, EnvelopeAssumption, Numbers DEF Alone!PlayerAssumption, ArmPose

(* Nothing of it is stated of another player than the session's.           *)
LEMMA SamePlayer ==
    /\ Player!Init => Alone!Init
    /\ [Player!Next]_(Player!vars) => [Alone!Next]_(Alone!vars)
    /\ Alone!TypeOK /\ Alone!RampBounds => Player!TypeOK /\ Player!RampBounds
<1>1. Player!Init => Alone!Init
  BY DEF Player!Init, Alone!Init, Player!FreshPlayer, Alone!FreshPlayer
<1>2. [Player!Next]_(Player!vars) => [Alone!Next]_(Alone!vars)
  BY DEF Player!AskState, Alone!AskState, Player!AtStart, Alone!AtStart,
       Player!CheckStart, Alone!CheckStart, Player!NotStarted, Alone!NotStarted,
       Player!Confirmed, Alone!Confirmed, Player!Signal, Alone!Signal,
       Player!NearStop, Alone!NearStop, Player!Behind, Alone!Behind,
       Player!BehindSince, Alone!BehindSince, Player!GaveUpFollowing,
       Alone!GaveUpFollowing, Player!End, Alone!End, Player!Until, Alone!Until,
       Player!Advanced, Alone!Advanced, Player!Reached, Alone!Reached,
       Player!Index, Alone!Index, Player!Finished, Alone!Finished,
       Player!Leaves, Alone!Leaves, Player!Due, Alone!Due, Player!Iterate,
       Alone!Iterate, Player!Leave, Alone!Leave, Player!Pin, Alone!Pin,
       Player!PinEnds, Alone!PinEnds, Player!LetGo, Alone!LetGo, Player!Work,
       Alone!Work, Player!Act, Alone!Act, Player!Running, Alone!Running,
       Player!Ages, Alone!Ages, Player!TimePasses, Alone!TimePasses,
       Player!AnyBridge, Alone!AnyBridge, Player!Next, Alone!Next, Player!vars,
       Alone!vars, Player!player, Alone!player, Player!run, Alone!run,
       Player!arm_seen, Alone!arm_seen, Player!Answer, Alone!Answer,
       Player!Probe, Alone!Probe, Player!Command, Alone!Command,
       Player!Transmit, Alone!Transmit, Player!Queued, Alone!Queued,
       Player!Drain, Alone!Drain, Player!Gap, Alone!Gap
<1>3. Alone!TypeOK /\ Alone!RampBounds => Player!TypeOK /\ Player!RampBounds
  BY DEF Alone!TypeOK, Player!TypeOK, Alone!RampBounds, Player!RampBounds, Alone!End,
         Player!End, Alone!Answer, Player!Answer, Alone!Probe, Player!Probe,
         Alone!Command, Player!Command
<1> QED
  BY <1>1, <1>2, <1>3

(* So what is proved of the player against any bridge holds in a session:  *)
(* every packet is a command of a configuration of the arm, and the plan's *)
(* clock stays under the ramp.                                             *)
THEOREM SessionKeepsRamp == SessionSpec => [](Player!TypeOK /\ Player!RampBounds)
<1>1. Alone!Spec => [](Alone!TypeOK /\ Alone!RampBounds)
  <2>1. Alone!Spec => []Alone!TypeOK
    BY PlayerAssumed, Alone!PlayerTyped DEF Alone!PlayerAssumption
  <2>2. Alone!Spec => []Alone!RampBounds
    BY PlayerAssumed, Alone!RampSafe DEF Alone!PlayerAssumption
  <2> QED
    BY <2>1, <2>2, PTL
<1> QED
  BY <1>1, SamePlayer, SessionIsAPlayerRun, PTL DEF AnswersAsAssumed, Player!Spec, Alone!Spec

(* And it has a bounded number of iterations to make, real bridge or not.  *)
THEOREM SessionRunsOut == SessionSpec => Player!RunsOut
<1>1. Alone!Spec => Alone!RunsOut
  BY PlayerAssumed, Alone!RunIsBounded DEF Alone!PlayerAssumption
<1>2. [Alone!Running => /\ Alone!StepsLeft' \in 0..Alone!StepsLeft
                        /\ Alone!Work => Alone!StepsLeft' # Alone!StepsLeft]_(Alone!vars)
      => [Player!Running => /\ Player!StepsLeft' \in 0..Player!StepsLeft
                            /\ Player!Work => Player!StepsLeft' # Player!StepsLeft]_(Player!vars)
  <2>1. Alone!StepsLeft = Player!StepsLeft /\ Alone!StepsLeft' = Player!StepsLeft'
    BY DEF Alone!StepsLeft, Player!StepsLeft, Alone!RowsLeft, Player!RowsLeft,
           Alone!Patience, Player!Patience, Alone!First, Player!First, Alone!End, Player!End
  <2>2. Player!Work <=> Alone!Work
    BY DEF Player!Behind, Alone!Behind, Player!NearStop, Alone!NearStop,
       Player!BehindSince, Alone!BehindSince, Player!GaveUpFollowing,
       Alone!GaveUpFollowing, Player!End, Alone!End, Player!Until, Alone!Until,
       Player!Advanced, Alone!Advanced, Player!Reached, Alone!Reached,
       Player!Index, Alone!Index, Player!Finished, Alone!Finished,
       Player!Leaves, Alone!Leaves, Player!Due, Alone!Due, Player!Iterate,
       Alone!Iterate, Player!Leave, Alone!Leave, Player!Pin, Alone!Pin,
       Player!PinEnds, Alone!PinEnds, Player!LetGo, Alone!LetGo, Player!Work,
       Alone!Work, Player!run, Alone!run, Player!arm_seen, Alone!arm_seen,
       Player!Probe, Alone!Probe, Player!Command, Alone!Command,
       Player!Transmit, Alone!Transmit, Player!Drain, Alone!Drain, Player!Gap, Alone!Gap
  <2>3. (Player!Running <=> Alone!Running) /\ Player!vars = Alone!vars /\ Player!vars' = Alone!vars'
    BY DEF Player!Running, Alone!Running, Player!vars, Alone!vars, Player!player,
       Alone!player, Player!run, Alone!run, Player!arm_seen, Alone!arm_seen
  <2> QED
    BY <2>1, <2>2, <2>3
<1> QED
  BY <1>1, <1>2, SamePlayer, SessionIsAPlayerRun, PTL
     DEF AnswersAsAssumed, Player!Spec, Alone!Spec, Alone!RunsOut, Player!RunsOut

-----------------------------------------------------------------------------
(***************************************************************************)
(* What the bridge promises any sender it keeps for the player.  (A step   *)
(* of the player is not one of HaplyBridge: its packet takes the place of  *)
(* the unread one.)                                                        *)
(***************************************************************************)
LEMMA BridgeStepOrPlayers ==
    [SessionNext]_allVars => [Next]_vars \/ PlayerActs
BY DEF SessionNext, BridgeActs, Passes, Restarts, Next, allVars

LEMMA PlayerKeepsIInv ==
    ASSUME IInv, SInv', PlayerActs
    PROVE  IInv'
<1>1. inbox' \in Seq(Datagram)
  <2>1. ASSUME NEW q \in JointAngles
        PROVE  <<Player!Command(q)>> \in Seq(Datagram)
    <3> DEFINE packet == Player!Command(q)
    <3>1. packet \in Packet
      BY CommandIsPacket
    <3> HIDE DEF packet
    <3>2. <<packet>> \in Seq(Datagram)
      BY <3>1 DEF Datagram
    <3> QED
      BY <3>2 DEF packet
  <2>2. <<Release>> \in Seq(Datagram)
    BY Datagrams DEF Datagram
  <2> QED
    BY <2>1, <2>2, EmptyInbox DEF SInv, BridgeSide, Engaging
<1>2. UNCHANGED <<process, session, latched, arm, sending>> /\ raised' = {} /\ reply' = None
  BY DEF PlayerActs, NoOutput
<1> QED
  BY <1>1, <1>2 DEF session, latched, IInv, TypeOK, AssertionsHold, LatchedIsCommanded,
                    AnchorsInRange

LEMMA SessionIInv == SessionSpec => []IInv
<1>1. SessionInit => IInv
  BY InitIInv DEF SessionInit
<1>2. SInv /\ IInv /\ [SessionNext]_allVars => IInv'
  BY BridgeStepOrPlayers, NextKeepsIInv, PlayerKeepsIInv, NextKeepsSInv
<1> QED
  BY <1>1, <1>2, InitSInv, NextKeepsSInv, PTL DEF SessionSpec

(* A session's bridge never asserts, and its anchor stays in the joints.   *)
THEOREM SessionBridgeSafe ==
    SessionSpec => [](AssertionsHold /\ LatchedIsCommanded /\ JointAnchorInRange)
<1>1. IInv => AssertionsHold /\ LatchedIsCommanded /\ JointAnchorInRange
  BY EnvelopeAssumption
     DEF IInv, AnchorsInRange, JointBounds, JointAnchorInRange, Distance
<1> QED
  BY <1>1, SessionIInv, PTL

(* With nobody's hand on the clutch, too, the arm's anchor stays, begins   *)
(* at the measured pose or follows within reach.                           *)
THEOREM SessionKeepsPromise == SessionSpec => KeepsPromise
<1>1. SessionInit => Promise!Init
  BY InitRefines DEF SessionInit
<1>2. ASSUME IInv, [SessionNext]_allVars PROVE [Promise!Next]_Promise!vars
  <2>1. CASE [Next]_vars
    BY <1>2, <2>1, NextRefines
  <2>2. CASE PlayerActs
    BY <2>2 DEF PlayerActs, session, latched, Promise!vars
  <2> QED
    BY <1>2, <2>1, <2>2, BridgeStepOrPlayers
<1> QED
  BY <1>1, <1>2, SessionIInv, PTL DEF SessionSpec, KeepsPromise, Promise!Spec

=============================================================================
