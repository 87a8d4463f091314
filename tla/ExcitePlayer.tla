---------------------------- MODULE ExcitePlayer ----------------------------
(***************************************************************************)
(* scripts/excite_player.py, class Player: the process that plays a gated  *)
(* excitation plan into the teleop bridge as if it were a hand on the      *)
(* Haply, with nobody's hand on the clutch.                                *)
(*                                                                         *)
(* The bridge is the environment here: it reads and answers anything it    *)
(* could measure, at any time or never, and may be restarted.              *)
(* ExciteSession puts the real bridge in its place.                        *)
(*                                                                         *)
(* One unit of time is one period of the streaming loop, one sample of the *)
(* plan at full rate.  An iteration that comes late finds more than one    *)
(* unit gone.  The live view, the progress lines and the exit code, which  *)
(* is 0 however a run that started ends, are left out.                     *)
(***************************************************************************)
EXTENDS Integers, Sequences

CONSTANTS
    None,
    Bad,            \* a field the packet does not carry
    JointAngles,    \* configurations of the arm, one joint standing for seven
    Tip,            \* forward_kinematics: configuration -> pose of the tip
    Plan,           \* the plan's q: a sequence of configurations
    EngageId,       \* int(time.time()) % 100000
    StartTolerance, \* START_TOLERANCE_RAD
    AnchorTol, AnchorTolRot,    \* --anchor-tol-mm, --anchor-tol-deg
    JointLimit,     \* JOINT_LIMITS_RAD
    Floor,          \* --abort-headroom-deg
    Freeze,         \* --freeze-mm
    AbortAfter,     \* --abort-after-s, in units of time
    Ramp,           \* RAMP_SECONDS, in units of time
    PinFor,         \* pin_current's seconds, in units of time
    Releases,       \* how often the release is sent
    Rehearse,       \* --dry-run
    MaxStall,       \* bound: units of time between two iterations
    AnswersCap      \* bound: unread replies the model remembers

ASSUME PlayerAssumption ==
    /\ JointAngles \subseteq Int
    /\ Tip \in [JointAngles -> [position: Int, rotation: Int]]
    /\ Plan \in Seq(JointAngles) /\ Plan # <<>>
    /\ {StartTolerance, AnchorTol, AnchorTolRot, JointLimit, Floor, Freeze,
        AbortAfter} \subseteq Nat
    /\ {Ramp, PinFor, Releases, MaxStall, AnswersCap} \subseteq Nat \ {0}
    /\ Rehearse \in BOOLEAN
    /\ None \notin Int

VARIABLES
    stage,      \* probing, prompt, streaming, pinning, releasing or exited
    stop,       \* self.stop: a signal arrived
    sample,     \* the sample commanded last (last_commanded_p), None before
    clock,      \* plan_time * rate, in units of 1/Ramp of a sample
    elapsed,    \* time since run() started, up to Ramp
    waited,     \* time since the latest iteration
    behind_for, \* now - behind_since, None while the arm keeps up
    measured_q, \* self.measured_q
    measured_p, \* self.measured_p, with the orientation the reply carries
    held,       \* the configuration pin_current holds
    left,       \* what remains of the pin or of the releases
    answers,    \* unread replies, oldest first
    listening,  \* a bridge is bound to the port
    link        \* the newest datagram the bridge has not read, if any

run == <<sample, clock, elapsed, waited, behind_for>>
arm_seen == <<measured_q, measured_p>>
player == <<stage, stop, run, arm_seen, held, left>>
vars == <<player, answers, listening, link>>

\* What the player reads of a reply: the measured pose, and the joints if the
\* bridge has any.  The reply also says whether the bridge is engaged, how
\* often it refused and what it clamped; the player looks at none of it.
Answer == [pose: {Tip[q] : q \in JointAngles}, joints: JointAngles \cup {None}]

Probe == [engaged |-> FALSE, engage_id |-> None, pose |-> Bad, joints |-> None]

Command(q) == [engaged |-> TRUE, engage_id |-> EngageId, pose |-> Tip[q], joints |-> q]

FreshPlayer ==
    /\ stage = "probing"
    /\ stop = FALSE
    /\ sample = None /\ clock = 0 /\ elapsed = 0 /\ waited = 0 /\ behind_for = None
    /\ measured_q = None /\ measured_p = None
    /\ held = None /\ left = 0
    /\ answers = <<>>

Init == FreshPlayer /\ listening = TRUE /\ link = <<>>

-----------------------------------------------------------------------------
(***************************************************************************)
(* The socket.  The bridge acts on the newest datagram only, and so does   *)
(* _drain_replies: what they would discard is not kept.                    *)
(***************************************************************************)
Transmit(datagram) == link' = IF listening THEN <<datagram>> ELSE link

Queued(answer) ==
    IF Len(answers) < AnswersCap THEN Append(answers, answer)
    ELSE Append(Tail(answers), answer)

\* _drain_replies.
Drain ==
    IF answers = <<>> THEN UNCHANGED <<arm_seen, answers>>
    ELSE LET latest == answers[Len(answers)]
         IN  /\ measured_p' = latest.pose
             /\ measured_q' = IF latest.joints # None THEN latest.joints ELSE measured_q
             /\ answers' = <<>>

Gap(a, b) == IF a < b THEN b - a ELSE a - b

-----------------------------------------------------------------------------
(***************************************************************************)
(* measured_state and check_start: probe until the bridge answers with     *)
(* joints and a pose, then compare both with the plan's first sample.      *)
(***************************************************************************)
AskState ==
    /\ stage = "probing"
    /\ Transmit(Probe)
    /\ UNCHANGED <<player, answers, listening>>

AtStart(answer) ==
    /\ Gap(answer.joints, Plan[1]) <= StartTolerance
    /\ Gap(answer.pose.position, Tip[Plan[1]].position) <= AnchorTol
    /\ Gap(answer.pose.rotation, Tip[Plan[1]].rotation) <= AnchorTolRot

CheckStart ==
    /\ stage = "probing"
    /\ answers # <<>>
    /\ stage' = IF Head(answers).joints = None THEN "probing"
                ELSE IF AtStart(Head(answers)) THEN "prompt" ELSE "exited"
    /\ answers' = Tail(answers)
    /\ UNCHANGED <<stop, run, arm_seen, held, left, listening, link>>

\* Nobody answers for five seconds, the person declines, or Ctrl-C arrives
\* before the handlers are installed.
NotStarted ==
    /\ stage \in {"probing", "prompt"}
    /\ stage' = "exited"
    /\ UNCHANGED <<stop, run, arm_seen, held, left, answers, listening, link>>

\* The person types 'run' (or --yes, or a dry run, skips the question).
Confirmed ==
    /\ stage = "prompt"
    /\ stage' = "streaming"
    /\ UNCHANGED <<stop, run, arm_seen, held, left, answers, listening, link>>

Signal ==
    /\ stage \in {"streaming", "pinning", "releasing"}
    /\ stop' = TRUE
    /\ UNCHANGED <<stage, run, arm_seen, held, left, answers, listening, link>>

-----------------------------------------------------------------------------
(***************************************************************************)
(* run: one iteration of the loop.  Every test is made on the replies      *)
(* drained at the end of the previous iteration.  An operator named for a  *)
(* slip (..Forgotten, ..ByIndex) is a plausible mistake in the definition  *)
(* after it; no behaviour uses it.                                         *)
(***************************************************************************)
NearStop ==
    measured_q # None /\ JointLimit - Gap(measured_q, 0) < Floor

Behind ==
    /\ sample # None /\ measured_p # None
    /\ Gap(Tip[Plan[sample]].position, measured_p.position) > Freeze

\* Slip: the count begins again with each iteration that is behind.
BehindSinceReset == 0

BehindSince == IF behind_for = None THEN 0 ELSE behind_for + waited

GaveUpForgotten == FALSE

GaveUpFollowing == Behind /\ BehindSince > AbortAfter

\* The plan's end on its own clock, which is read no further than that.
End == Ramp * Len(Plan)

Until(time) == IF time < End THEN time ELSE End

RampForgotten == IF Behind THEN clock ELSE Until(clock + waited * Ramp)

\* plan_time += dt * scale, unless the arm is behind.
Advanced == IF Behind THEN clock ELSE Until(clock + waited * elapsed)

Reached == Advanced \div Ramp

\* The row that is commanded: `reached`, but no further than the last one.
Index == IF Reached < Len(Plan) THEN Reached ELSE Len(Plan) - 1

\* The exit test once looked at the clamped index.
FinishedByIndex == Index >= Len(Plan)

Finished == Reached >= Len(Plan)

Leaves == stop \/ NearStop \/ GaveUpFollowing \/ Finished

\* An iteration starts one period after the last one, or later.
Due == sample = None \/ waited > 0

Iterate ==
    /\ stage = "streaming" /\ Due /\ ~Leaves
    /\ clock' = Advanced
    /\ behind_for' = IF Behind THEN BehindSince ELSE None
    /\ sample' = Index + 1
    /\ waited' = 0
    /\ IF Rehearse THEN UNCHANGED link ELSE Transmit(Command(Plan[Index + 1]))
    /\ Drain
    /\ UNCHANGED <<stage, stop, elapsed, held, left, listening>>

\* End of plan, abort or signal: pin_current, which needs the arm's state and
\* forward kinematics that may raise; without them nothing is pinned.
Leave ==
    /\ stage = "streaming" /\ Due /\ Leaves
    /\ Drain
    /\ waited' = 0
    /\ \/ stage' = "releasing" /\ left' = Releases /\ held' = None
       \/ /\ measured_q' # None /\ measured_p' # None
          /\ stage' = "pinning" /\ left' = PinFor /\ held' = measured_q'
    /\ UNCHANGED <<stop, sample, clock, elapsed, behind_for, listening, link>>

-----------------------------------------------------------------------------
(***************************************************************************)
(* pin_current: command the measured configuration until the deadline,     *)
(* with the same engage id; then the releases.  --dry-run reaches neither. *)
(***************************************************************************)
Pin ==
    /\ stage = "pinning" /\ left > 0 /\ waited > 0
    /\ Transmit(Command(held))
    /\ left' = IF waited < left THEN left - waited ELSE 0
    /\ waited' = 0
    /\ UNCHANGED <<stage, stop, sample, clock, elapsed, behind_for, arm_seen, held,
                   answers, listening>>

PinEnds ==
    /\ stage = "pinning" /\ left = 0
    /\ Drain
    /\ stage' = "releasing"
    /\ left' = Releases
    /\ UNCHANGED <<stop, run, held, listening, link>>

ReleaseForgotten ==
    /\ stage = "releasing"
    /\ stage' = "exited"
    /\ UNCHANGED <<stop, run, arm_seen, held, left, answers, listening, link>>

LetGo ==
    /\ stage = "releasing" /\ waited > 0
    /\ Transmit(Probe)
    /\ left' = left - 1
    /\ stage' = IF left = 1 THEN "exited" ELSE "releasing"
    /\ waited' = 0
    /\ UNCHANGED <<stop, sample, clock, elapsed, behind_for, arm_seen, held, answers,
                   listening>>

\* What the process does on its own once it is running.
Work == Iterate \/ Leave \/ Pin \/ PinEnds \/ LetGo

Act == AskState \/ CheckStart \/ NotStarted \/ Confirmed \/ Signal \/ Work

Running == stage \in {"streaming", "pinning", "releasing"}

\* A unit of time, as far as the player's own clocks go.
Ages ==
    IF ~Running THEN UNCHANGED <<waited, elapsed>>
    ELSE /\ waited < MaxStall
         /\ waited' = waited + 1
         /\ elapsed' = IF stage = "streaming" /\ elapsed < Ramp THEN elapsed + 1 ELSE elapsed

TimePasses ==
    /\ Ages
    /\ UNCHANGED <<stage, stop, sample, clock, behind_for, arm_seen, held, left>>

-----------------------------------------------------------------------------
(***************************************************************************)
(* Any bridge: it reads the socket or not, comes and goes, and answers     *)
(* what it could measure or is silent.                                     *)
(***************************************************************************)
AnyBridge ==
    /\ \/ /\ stage # "exited"
          /\ \E answer \in Answer : answers' = Queued(answer)
          /\ link' = <<>>
          /\ UNCHANGED listening
       \/ /\ link' \in {link, <<>>}
          /\ listening' \in BOOLEAN
          /\ UNCHANGED answers
    /\ UNCHANGED player

Next ==
    \/ Act
    \/ TimePasses /\ UNCHANGED <<answers, listening, link>>
    \/ AnyBridge

Spec == Init /\ [][Next]_vars

\* Time passes, and the process is scheduled.
Fairness == WF_vars(TimePasses /\ UNCHANGED <<answers, listening, link>>) /\ WF_vars(Work)

FairSpec == Spec /\ Fairness

-----------------------------------------------------------------------------
(* Every variable holds what run() and the replies may give it; an index   *)
(* into the plan is an index of the plan.                                  *)
TypeOK ==
    /\ stage \in {"probing", "prompt", "streaming", "pinning", "releasing", "exited"}
    /\ stop \in BOOLEAN
    /\ sample \in 1..Len(Plan) \cup {None}
    /\ clock \in 0..End
    /\ elapsed \in 0..Ramp
    /\ waited \in 0..MaxStall
    /\ behind_for \in 0..AbortAfter \cup {None}
    /\ measured_q \in JointAngles \cup {None}
    /\ measured_p \in {Tip[q] : q \in JointAngles} \cup {None}
    /\ held \in JointAngles \cup {None}
    /\ left \in 0..PinFor + Releases
    /\ answers \in Seq(Answer)
    /\ link \in {<<>>} \cup {<<d>> : d \in {Probe} \cup {Command(q) : q \in JointAngles}}

(* Once streaming, the run ends by itself whatever the bridge answers or   *)
(* fails to answer: the plan is finished or given up, then the process     *)
(* pins, releases and exits.                                               *)
RunEnds == stage = "streaming" ~> stage = "exited"

\* The first iteration waits for nothing and may move nothing.
First == IF sample = None THEN 1 ELSE 0

\* Iterations behind the arm before the plan is given up.
Patience == IF behind_for = None THEN AbortAfter + 1 ELSE AbortAfter - behind_for

\* Iterations the rest of the plan may take: a full patience for each advance.
RowsLeft == (End - clock) * (AbortAfter + 2)

\* How often the process may still act before it exits.
StepsLeft ==
    CASE stage = "streaming" -> PinFor + Releases + 3 + First + RowsLeft + Patience
      [] stage = "pinning" -> Releases + 1 + left
      [] stage = "releasing" -> left
      [] OTHER -> 0

(* A run is of bounded length however the arm falls behind and catches up, *)
(* and whatever the bridge answers: each iteration of the loop, of the pin *)
(* and of the releases leaves fewer of them to make, and nothing the       *)
(* bridge, the clock or a signal does adds one.                            *)
RunsOut ==
    [][Running => /\ StepsLeft' \in 0..StepsLeft
                  /\ Work => StepsLeft' # StepsLeft]_vars

(* Early in a run the plan has advanced no further than the ramp allows:   *)
(* e units after the start its clock is at most e*e/Ramp samples in, even  *)
(* when iterations come late.                                              *)
RampBounds ==
    stage = "streaming" /\ elapsed < Ramp => clock <= elapsed * elapsed
=============================================================================
