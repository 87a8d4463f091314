---------------------------- MODULE ExciteSession ----------------------------
(***************************************************************************)
(* One excitation session as docs/excitation.md runs it: the player, the   *)
(* loopback socket and the bridge, on one clock.  The bridge's socket      *)
(* buffer is the player's link and the replies of its ticks are what the   *)
(* player hears; the arm moves as it likes, its tip where its joints put   *)
(* it.                                                                     *)
(***************************************************************************)
EXTENDS HaplyBridge

CONSTANTS
    Tip, Plan, EngageId, StartTolerance, Floor, Freeze, AbortAfter, Ramp,
    PinFor, Releases, Rehearse, MaxStall, AnswersCap

VARIABLES
    stage, stop, sample, clock, elapsed, waited, behind_for, measured_q,
    measured_p, held, left, answers,    \* the player's
    refusing    \* history: the bridge refused, and has not engaged since

Player == INSTANCE ExcitePlayer
    WITH link <- inbox, listening <- (process = "up")

ASSUME SessionAssumption ==
    /\ EngageId \in EngageIds
    /\ Tip \in [JointAngles -> ArmPose]
    /\ Player!Probe = Release
    /\ Plan \in Seq(JointAngles) /\ Plan # <<>>
    /\ JointAngles \subseteq JointRequests
    /\ {StartTolerance, Floor, Freeze, AbortAfter} \subseteq Nat
    /\ {Ramp, PinFor, Releases, MaxStall, AnswersCap} \subseteq Nat \ {0}
    /\ Rehearse \in BOOLEAN

player == <<stage, stop, sample, clock, elapsed, waited, behind_for, measured_q,
            measured_p, held, left>>
allVars == <<vars, player, answers, refusing>>

\* The tip is where the joints put it.
Rigid == arm.pose = Tip[arm.joints]

SessionInit == Init /\ Rigid /\ Player!FreshPlayer /\ refusing = FALSE

-----------------------------------------------------------------------------
PlayerActs ==
    /\ UNCHANGED <<process, session, latched, arm, sending, refusing>>
    /\ NoOutput
    /\ Player!Act

\* The bridge's callbacks; a tick's reply reaches the player while it lives.
BridgeActs ==
    /\ OnPose \/ OnJoints \/ Tick
    /\ answers' = IF reply' = None \/ stage = "exited" THEN answers
                  ELSE Player!Queued([pose |-> reply'.pose, joints |-> reply'.joints])
    /\ refusing' = ("refusals" \in raised' \/ (refusing /\ ~engaged'))
    /\ UNCHANGED player

\* One clock for both; the arm's joints move and the tip with them.
Passes ==
    /\ Elapse
    /\ arm'.pose = Tip[arm'.joints]
    /\ Player!TimePasses
    /\ UNCHANGED <<answers, refusing>>

Restarts ==
    /\ Signalled \/ Start
    /\ refusing' = FALSE
    /\ UNCHANGED <<player, answers>>

SessionNext == PlayerActs \/ BridgeActs \/ Passes \/ Restarts

SessionSpec == SessionInit /\ [][SessionNext]_allVars

-----------------------------------------------------------------------------
(* An explicit release "is what puts 'the operator stopped' in the         *)
(* recording rather than 'the sender died'": if two late iterations fit in *)
(* the watchdog (the last one of the plan and the first of the pin send    *)
(* nothing in between), every session ends by the player's release and     *)
(* never by the watchdog, however late the bridge's own timer is.          *)
EndsByRelease ==
    [][engaged /\ ~engaged' /\ process' = "up" => inbox = <<Release>>]_allVars

(* The bridge in its place does nothing to the player that any bridge may  *)
(* not do: what the player keeps for every bridge it keeps in a session,   *)
(* through refusals, restarts and replies that come late.                  *)
AnswersAsAssumed == Player!Spec

-----------------------------------------------------------------------------
(* "--dry-run does everything except send" (docs/excitation.md): a dry run *)
(* commands the arm nothing.                                               *)
DryRunCommandsNothing == Rehearse => target = None

(* "the plan advances on its own clock, and that clock only runs while the *)
(* arm is following" (module docstring): not while the bridge refuses.     *)
PlanWaitsForBridge == [][refusing => clock' = clock]_allVars
=============================================================================
