# TLA+ models of the iiwa 14 FRI / CRISP cell

Specifications, model-checking configurations and TLAPS proofs for the code of
this repository that decides what the arm is told: which controllers own the
arm, what the teleop bridge lets through, and how an unattended excitation run
begins and ends. Every definition is read off the code; `PROJECT.json` maps
each one to its lines.

```
cd tla
tlc -workers 2 -config bridge_position.cfg MCHaplyBridge
tlapm HaplyBridgeProofs.tla
```

## 1. The system

| part | state it keeps | operations | talks to |
| --- | --- | --- | --- |
| teleop bridge (`scripts/haply_teleop_bridge.py`, `Bridge`) | engaged, engage id, measured pose and joints, command, anchor, age of the last packet, counters | pose and joint callbacks, 200 Hz tick (drain, consume, limit, publish, reply, watchdog), start and stop | UDP from a sender; `target_pose`, `target_joint` to the CRISP controller |
| switching (`scripts/kuka_crisp.py`) | none of its own: a list it reads, a request it waits for | `safe_switch`, `strict_switch`, `move_to_home` | controller manager, trajectory controller |
| session commands (`scripts/crisp_session.py`), arm preparation (`prepare_arm`) | a crisp_py `Robot` whose 50 Hz timer streams a target latched at construction | `--switch`, `--home`, the bridge's `--home` | switching |
| excitation player (`scripts/excite_player.py`) | stage, plan clock, ramp time, time behind, newest reply, pinned configuration | probe, start check, stream, freeze, abort, pin, release, signals | UDP to the bridge and its replies |
| FRI adapters (`src/fri_command_controllers.cpp`) | none; FRI keeps the last command of each interface | `on_activate` and `update`: mirror the measured positions, write zero efforts, joint by joint, until one fails | command and state interfaces |
| bringup (`launch/`, `config/`) | none | a spawner that activates one controller after another, for up to ten minutes | controller manager |

What is hard: the bridge is three guards in a fixed order around a remembered
command, fed by datagrams that may be late, queued, malformed or missing, by a
sender that may die, and restarted by hand; switching is check-then-act on a
list that another process may invalidate, through a service that may answer
after its caller has given up; the player runs two clocks (plan and wall)
against an arm it sees through replies that may stop, and must leave the arm by
an explicit release before a watchdog does it. `PROJECT.json` lists each hazard
at its line with the properties that would catch it.

Correct means, per part:

* bridge: the arm is never handed a pose it is not at when an engagement
  starts; every target is within the error bound of the newest measurement; a
  jump is counted; the newest packet rules; silence ends an engagement;
* switching: no STRICT request whose adapters come up lets go of a held arm or of
  a command interface, however stale the list it was decided on; a trajectory
  runs with no torque controller, also while the stack is still coming up, as
  long as crisp_py's own switcher is not used beside other work; both commands of
  the arm change hands at once; homing leaves no stale target behind; every
  command returns;
* adapters: whatever a switch, a failing joint or a lost adapter leaves behind,
  FRI goes on with the position the arm is at and with no torque, but for the
  joints an adapter that fails as it is activated has not reached;
* player and session: the run ends after a bounded number of iterations, is never
  ahead of its ramp, and ends every engagement by its own release.

## 2. The modules

```
TeleopEnvelope            arithmetic of one limited command    TeleopEnvelopeProofs
   ├─ SpringAnchor        what the bridge promises the arm
   └─ HaplyBridge         the bridge, its sender and the arm   HaplyBridgeProofs
        │                 implements SpringAnchor              HaplyBridgeRefinement
        └─ ExciteSession  player + bridge on one clock;        ExciteSessionProofs
           │              implements ExcitePlayer
ExcitePlayer ──INSTANCE──┘  the player, beside any bridge      ExcitePlayerProofs
ControllerManager         controllers, claims, STRICT and BEST_EFFORT
   ├─ ArmCell             who commands the arm, in eight steps
   └─ ControllerSwitch    operators, spawner, switching,       ControllerSwitchProofs
        │                 homing; implements ArmCell           ControllerMoveProofs
        └─ FriCell        the adapters' writes underneath      FriCellProofs
MC<module>                values for TLC
```

**TeleopEnvelope** is `_limit`, `_limit_joints` and the anchor test. A position
is one coordinate of the line the tip moves on, a rotation one angle about a
fixed axis, one joint stands for seven: on a line the code's scaling
`prev + step * (max / dist)` is `Toward`, and joints are clamped element by
element. The order slew, box, error bound is the code's. `AllClose` is
`np.allclose`, by which `_limit` decides whether the box moved the command and
`_limit_joints` whether the anchor was clamped: `atol` is `CloseAbs`, `rtol` is
`1 / CloseRel`.

**HaplyBridge** has one action per rclpy callback, since `rclpy.spin` is
single-threaded: `OnPose`, `OnJoints` and `Tick` (with a packet, without one,
or raising). `Consume` is a disjunction of the ways through `_consume`:
released, ignored, refused, engaged, followed. Around them are the socket
buffer (`Send`), the sender's death, `Elapse` (time, and the arm moving up to
`ArmStep`), a signal and a restart; a restart loses the session while the
controller keeps the last target. Nothing forces a tick to be punctual. `raised`
is the set of counters the step incremented and `reply` the datagram it sent.
`Bad` is a pose that is missing, misshapen or has a non-finite position, all
treated alike; `NonFinite` one whose quaternion `Rotation.from_quat` rejects.
`Garbage` is a datagram that is no JSON, which `_drain` skips, and `Mangled` one
that is no UTF-8: `json.loads` raises a `UnicodeDecodeError`, which is no
`JSONDecodeError`, and the process ends wherever in the buffer it was.
All releases are alike because the bridge reads no further than `engaged`. Left
out: log lines, the speed estimate (`peak_*`, `_last_cmd_s`, `_engaged_since`),
the status message, and datagrams that are JSON but not an object, which end
the process like `NonFinite` and which no sender here sends.

**SpringAnchor** is the abstract specification of the bridge, in four steps: the
arm is measured; somebody begins to steer, at the measured pose; the anchor of
the controller's spring follows, within the error bound of the newest
measurement and no further outside the box than the arm; somebody lets go, and
the anchor stays. It knows no packets, engage ids, slew, watchdog or process.
`HaplyBridge` implements it with `anchor` as the latched target, `measured` as
`current_pose` and `following` as an engagement that publishes (`Promise`,
`KeepsPromise`); a crash is a letting go that forgets the measurement.

**ControllerManager** is outside this repository and marked external, read from
how `kuka_crisp.py` uses it: a STRICT request happens as a whole or fails
(activating an active or deactivating an inactive controller is infeasible, and
claims must not clash). crisp_py's switcher reads a list of its own, names every
active controller on it that is neither in `HOLD_ACTIVE` nor the target for
deactivation (`StockRequest`), and sends BEST_EFFORT: by the time it is served
the list may be out of date, and any compatible part of either half may be done
(`StockOutcomes`). That it names its deactivations rather than leaving them to the
server is how `kuka_crisp.py:10-20` describes it; that it names `HOLD_ACTIVE` for
activation too is assumed, the more permissive reading. Which controllers
claim what comes from the adapters and `controllers.yaml`.
Broadcasters stay active throughout and are left out.

**ControllerSwitch** runs any number of operators, each with one process: a
sequence of steps in the order of its `main`. Reading the list and sending the
request is one step, serving the request another, so anything may happen in
between; the step "stock" is the call of crisp_py's switcher, which reads its list
again (`AskStock`). `TimesOut` leaves a STRICT request behind, and `Interrupted`
is Ctrl-C anywhere and leaves whatever request was waiting (`late`, at most one
at a time; no handler in `crisp_session.py` or `kuka_crisp.py` withdraws it); a goal
survives its sender (`Orphan`). A STRICT switch may happen without an adapter it
names (`FailedActivations`): `on_activate` runs when the old owner is already gone,
and nothing in this repository undoes the rest; the answer may then be either.
`crossed` is a history variable and decides nothing: it remembers whether crisp_py's
switcher has been in use while another process, a goal or another request was
(`Crossing`). The launch file's spawner is one more process (`Bringup`, for the
operator called `Launcher`): it asks for the trajectory controller and then for
zero effort, one request each, taking nothing away, so an operator can meet the
cell between the two. It holds no `Robot` and is not interrupted on its own.
`GivesUp` and `Faults` turn these and failing adapters off for runs
that ask a question without them. `stream` is the target each `Robot` streams.
`where` abstracts the arm's pose; it moves only by a goal, by teleop once every
`Robot` is gone, or when nothing holds it.

**ArmCell** is the abstract specification of the switching. It knows who commands
the position (trajectory, passthrough, nobody), who the torque (an overlay, zero
effort, nobody) and whether a trajectory runs; nothing of processes, requests,
lists, answers or time. Its steps are bring-up, arming, disarming, the stock swap,
the position taken for a move, a failing adapter and the two ends of a trajectory.
What it excludes is every half step: a torque raised over a trajectory, the
position handed over while the torque is kept, an owner lost other than by the
swap or an adapter that fails. (A command that a switch leaves to nobody looks, from
here, like an adapter that failed as it took over; that no STRICT request leaves one
by itself is `ClaimLostOnlyByStock`.) The swap is as weak as BEST_EFFORT: it may do a
part, but it keeps a passthrough and never raises zero effort. Until it has been
used beside other work it starts from an armed cell only, no goal is sent under
a torque and nothing takes the position alone; afterwards (`crossed`) the cell no
longer promises those three. `ControllerSwitch`
implements it (`Cell`, `KeepsOrder`); waiting, asking, timing out, Ctrl-C and a
request that fails are stutters, and a late request is the step it would have been.

**FriCell** puts the command interfaces under the switching. It extends
`ControllerSwitch` and lets every step that switches write what `on_activate`
writes (`HandsOver`): the passthrough mirrors the measured positions and zero
effort writes zeros before the first update, joint by joint, and either may
return ERROR at joint k, with the old owner gone and the joints from k on
holding its last command (`MirrorBreaksOff`, `EffortTaken`); that the trajectory controller
takes the measured position, too, is its own doing and what
`crisp_hardware.launch.py:89` relies on. `Update` is one control period. A
mirror that meets a joint without a finite state returns with the joints before
it written and the rest as they were (`BrokenMirror`), and the adapter is gone
while FRI goes on with the last command (docs/controllers.md:63). `position` is
the command per joint, `torque` whether some effort is not zero, `due` whether
the arm moved since the passthrough last wrote: under the passthrough the arm
moves at most `Travel` per joint between two updates.

**ExcitePlayer** is the whole life of a `Player`: probing, prompt, streaming,
pinning, releasing. A unit of time is one period of the streaming loop;
iterations may come up to `MaxStall` units late. The plan clock counts `1/Ramp`
of a sample, so `plan_time += dt * scale` is `clock + waited * elapsed` with
`elapsed` held at `Ramp`. Tests use the replies drained at the end of the
previous iteration, as the code does. The bridge is any bridge (`AnyBridge`): it
reads the socket or not, stops and starts, and answers with anything it could
have measured at any time. `pin_current` may find that it cannot compute the
pose to pin (`Leave`): then, as when it knows no state, only releases follow. The live view, the printing and the exit code are left
out; `forward_kinematics` is the constant map `Tip`.

**ExciteSession** puts the real bridge in: the player's `link` is the bridge's
`inbox`, a tick's reply is what the player hears, and both age on one clock. The
arm's tip is where its joints put it. `AnswersAsAssumed` says that the real bridge
is one of the bridges `ExcitePlayer` is specified beside: the session, seen from
the player, is a behaviour of `ExcitePlayer!Spec`.

An operator named for a slip (`..Forgotten`, `..Only`, `..Unchecked`, `Un..`,
`..Skips..`, `IsOldest`, `MarginWidens`, `EngagedUnvalidated`, `EngagedAtRequest`,
`FinishedByIndex`, `BehindSinceReset`, `ReplyUnmeasured`, `LimitAboutCommand`) is a plausible mistake in the definition
after it. No behaviour uses it; replacing the definition by it shows which
property notices. `FinishedByIndex` is the mistake the comment at
`excite_player.py:494` records.

## 3. The runs that pass

| run | question | bounds that matter |
| --- | --- | --- |
| `bridge_position` | the translation channel, all safety properties; the bridge implements `SpringAnchor` | positions 0..4 with a box 1..3: the arm starts outside, on and inside it, and further from the command than one error bound; two engage ids; one datagram in the buffer; `CloseRel` = 4, by which a box clamp from 4 to 3 is within the tolerance and one from 0 to 1 is counted |
| `bridge_joints` | the nullspace anchor | angles to the limit (2), requests beyond it, missing and misshapen; engagements with and without joint states |
| `bridge_backlog` | the newest packet rules; the rotation channel; a dead sender is noticed | a buffer of two with releases, noise and commands; an arm that turns by two units at a time under limits of one; `FairSpec` |
| `switch_single` | homing leaves no stale target; no command or torque is left behind but by the stock switcher or by an adapter that fails as it is activated; the wrench source survives; every command returns | one operator, Ctrl-C and time-outs, two joints, an arm on a line of three configurations a period apart, adapters that fail as they are activated and later; one name for `--switch`, of two torque controllers; `FairCell` |
| `switch_pair` | STRICT switches never let go; no overlay during a move; no double claim; the switching implements `ArmCell` | the spawner and two operators, found bare before bring-up; two torque controllers, timeouts, Ctrl-C with a request waiting, stock requests with stale lists, failing adapters, `--switch joint_trajectory_controller`; one place, since none of its properties looks at where the arm is |
| `player_run` | the run ends, after a bounded number of iterations; the ramp bounds the clock | three samples, stalls of two units, any answers and restarts, `FairSpec` |
| `session_release` | an engagement ends by release; the session implements `ExcitePlayer` | two samples, `Watchdog` = 2 and `MaxStall` = 1 |

They reach between 110 thousand (`switch_single`) and 1.2 million
(`session_release`) distinct states each, in two minutes at most.

The channels of the envelope are independent, so each bridge run opens one and
holds the others still. Two engage ids are enough because ids are only compared
with the previous one; they, and the operators, are interchangeable, and
symmetry is used in safety runs only. `packet_age` stops at `Watchdog + 1`,
where it can no longer change an outcome. A buffer of two distinguishes oldest,
newest and noise; the proof of `NewestRules` removes the bound. A datagram
carries no origin, so packets with two engage ids are also those of two senders
on the port (a probe while a Haply is engaged): what the bridge does to the arm
is covered, and the sender that loses the reply address is the player whose
answers stop. Two operators and the spawner give every conflict between a read
and a serve; the proofs remove that bound. `switch_single` has one operator
because the configurations multiply its states; its adapter properties are
proved for any number of operators and joints. Three configurations on a line of
two joints are what a mirror that stops half way needs to be told from one that
did not, within one period and beyond.

`EndsByRelease` needs `2 * MaxStall <= Watchdog`: the last iteration of the plan
and the first of the pin send nothing in between, so two late iterations must
fit in the watchdog. With the defaults (5 ms period, 100 ms watchdog) that is a
stall of 50 ms. The robot model `pin_current` loads in that gap
(`buildModelFromUrdf`) is part of it.

`HeldArmNeverPulled` is a claim about operators who take turns (`TakesTurns`) and
about an arm held throughout. Whoever starts a process must find no other process
(two `Robot`s make the CRISP controller ignore both,
`haply_teleop_bridge.py:69`), no goal that outlived its sender (`kuka_crisp.py:273`:
Ctrl-C ends the process, not the goal, and a `Robot` built then latches a pose the
arm is about to leave) and no request that outlived its sender
(`kuka_crisp.py:196`: served between the end of the next `--home`'s goal and its
parking, it raises an overlay over a stale target). The code looks for neither of the
last two; without either of them one operator with Ctrl-C and time-outs refutes the
property, with both it holds for any number of operators. An arm that was let
go and sagged has left its operator's stream behind, and arming then pulls it back.

`NoOverlayDuringMove` and the strict part of `KeepsOrder` hold while crisp_py's
switcher is not used beside other work (`~crossed`). If it is, they need not:
one operator's `--switch` to another torque controller finds the cell armed, its
request (BEST_EFFORT, its list read) waits, another operator disarms and homes, the
zero-effort adapter fails once the goal runs, and when the request is served the
effort interface is free: an overlay runs under the goal, against
`kuka_crisp.py:54-56`. Or crisp_py reads its list only after the other has disarmed,
and of what it then asks for zero effort is taken away and the trajectory controller
is not. Each step is the code's or crisp_py's as this repository describes it. This
rests on crisp_py's and the controller manager's code, neither of which is here, so
it is recorded as a hazard and as this limit of the property, not as a finding.
A lone operator who neither interrupts a command nor lets one time out never
crosses, nor do operators who take turns.

`NoOverlayDuringMove` also needs a cell that was found
bare, at rest or armed (`OrderlyStart`). From passthrough and zero effort, which
only switching by hand leaves (docs/controllers.md:52), it fails: the swap at
`kuka_crisp.py:267` names the two position controllers only, and an overlay
another operator raises between the list and the swap stays active.
`PositionHandedOverAtArm` and `TorqueLeftByStockOrFault` except the steps of the stock
switcher, which may take an owner away and put nobody in its place, and a STRICT
switch whose adapter fails as it is activated: its joints from k on go on with what the
trajectory controller wrote last, or with the old torque, and nobody owns them
(`fri_command_controllers.cpp:56`, `:138`). A mirror that fails later is within one
period of the arm on every joint, and that case is part of the property.

`SaturationIsCounted` is about every tick whose newest packet asks for a readable
pose, also one whose command is pinned where it already was. The one row no counter
marks is the engage edge, which commands the measured pose, within the anchor
tolerance of the request. Like `LungeIsCounted` it is exact up to what
`np.allclose` lets the box clamp change uncounted. `JointAnchorStepsOnce` says
what is left of the rate limit where `_limit_joints` promises one (lines 357-358):
an engagement that begins without joint states has no anchor, its first request
is taken whole, and that is the only step.

Two limits of properties that read stronger than they are: `MirrorsTheArm` is about an
active passthrough and so says nothing of a mirror that broke off
(`PositionHandedOverAtArm` does), and `RampBounds` bounds the plan clock from above, so
it cannot see a ramp that ran out during a freeze (5).

## 4. Fairness

`bridge_backlog` assumes that time passes (`WF(Elapse)`) and that the 200 Hz
timer keeps firing while the process is up (`WF(Tick)`): rclpy re-arms a timer
by itself and no callback blocks. `player_run` assumes time and that the loop is
scheduled (`WF(Work)`); it sleeps for at most one period and waits for nothing.
`switch_single` assumes that each started process is scheduled and its requests
are served (`WF(Works(op))`: the controller manager serves its queue one by one)
and that a trajectory goal ends, reached or aborted. `CommandsReturn` also rests on
crisp_py: a blocking move returns, or raises, when its goal was aborted, rejected or
preempted (`GoalLost`), which is assumed and not read here. No fairness is assumed of
the bridge's answers, the sender, of operators starting commands, of failures or
of late requests.

## 5. Where the code and what it says of itself differ

Each is one run that TLC refutes; `findings` in `PROJECT.json` quotes the lines.

| run | statement | what happens |
| --- | --- | --- |
| `bridge_nonfinite` | a non-finite pose is ignored | only the position is tested; the quaternion raises out of the timer |
| `switch_unheld` | the arm is never left unheld | overlay to overlay goes through the stock BEST_EFFORT switch |
| `switch_not_at_rest` | already at rest | zero effort is not looked at |
| `session_dry_run` | a dry run does not send | if the start check asked twice and left a reply unread, the pin sends engaged packets and the bridge commands the arm; otherwise `pin_current` cannot pin and only releases are sent |
| `session_refused` | the clock runs only while the arm follows | it runs while the bridge refuses |

Read off the code in the same places, without a run of their own:

* the published position can lie outside the workspace box and one tick can move
  it further than the slew limit, because the error clamp runs last
  (`NeverFurtherOutside` and `LungeIsCounted` say what does hold);
* the joint topic is published in every engagement that has joint states, not
  only for packets that carry `joints` (`haply_teleop_bridge.py:145`, `:480`);
* without a joint state at the engage edge the first requested anchor is taken
  whole (`:385`), where the docstring (`:357`) says the anchor is rate-limited;
* one datagram that is not UTF-8 ends the bridge (`:222`); the loop means to skip
  what does not decode;
* the error clamp is about the newest measured pose, which has no age (`:448`);
* a STRICT request that timed out may still be performed (`kuka_crisp.py:196`);
* the bridge counts the other publishers on its topics once, at start, and engages
  all the same (`:175`); when the other one leaves in the middle of an engagement
  the controller hears the limited command and not the measured pose, and a tick
  without a packet repeats it without a new error clamp (`:259`);
* the player's ramp runs in wall time, also while the plan is frozen
  (`excite_player.py:453`), so a plan that was frozen through the ramp starts at
  full rate; no property covers it;
* on Ctrl-C the player pins for four seconds before it releases, where
  `excite_player.py:435` and docs/excitation.md:145 say it stops publishing;
* crisp_py's switcher used beside other work can leave a torque controller under a
  trajectory (3), and a STRICT switch whose adapter fails as it is activated leaves
  a position or a torque that nobody owns (3);
* docs/controllers.md:48 and docs/commissioning_protocol.md:412 describe the
  earlier resting pair: `safe_switch` now also switches from rest, and
  `move_to_home` stays there.

## 6. What is proved

For every value of the constants, from the assumptions named in the modules
(`EnvelopeAssumption`, `BridgeAssumption`, `DatagramAssumption`,
`OverlaysAssumption`, `SwitchAssumption`, `CellAssumption`,
`PlayerAssumption`, `SessionAssumption`), which TLC evaluates on each run.

**TeleopEnvelopeProofs**: `Toward` stays on its segment and within reach, hence
one `Limit` is within the error bound and no further outside the box than the
measured pose (`LimitIsSafe`), slewed unless a later clamp counted
(`UnclampedLimitIsSlewed`), and the request itself if nothing counted
(`UncountedLimitIsRequest`), both give or take `AllClose`; the same for joints.

**HaplyBridgeProofs**: all safety properties of the bridge runs. `TypeOK` is not
inductive: that a tick can limit its command needs an engaged bridge to have
one, and that the anchor stays in range needs the range of what is remembered
besides what is latched. `IInv` adds `AssertionsHold`, `LatchedIsCommanded` and
the range of `commanded_joints`. Each action property follows from `IInv`
before the step and a lemma on the only step that moves a target
(`TargetMoves`): a tick on the newest packet that engages or follows.

**ControllerSwitchProofs**: `TypeOK` (with no interface claimed twice),
`WrenchStays`, `HoldLostOnlyByStock` and `ClaimLostOnlyByStock` for any number
of operators. The argument does not use what any process read: `RequestsSound`
says every STRICT request the code can send activates a holder and an owner of
each kind it takes away, so a feasible one is safe whenever it is served, late
ones included, as long as its adapters come up; none, and no stock request, takes
the wrench source away. `IInv` adds `Waiting`: whoever waits, or moves the arm, still
has that step to do.

**HaplyBridgeRefinement**: `BridgeKeepsPromise`, every step of the bridge is a
step of `SpringAnchor` or a stutter, for any packets, limits, watchdog and
buffer. On top of `IInv` the mapping needs two facts. A step that leaves the
target alone only measures, forgets or lets go (`StillRefines`); the one step
that moves it is a tick whose packet engages, which is `Begin` because `Engaged`
publishes the measured pose, or follows, which is `Follow` by `LimitIsSafe`.

**ControllerMoveProofs**: `MoveSafe`, no torque controller is active while a goal
runs, for any number of operators, from any `OrderlyStart` and during bring-up, with
adapters that fail, until crisp_py's switcher is used beside other work.
`move_to_home` looks once, before its goal is sent; what keeps its finding true
is that a STRICT request which raises a torque controller takes the trajectory
controller away (`Arming`) or, if that happens through a stock switch, that nobody
has a goal. The inductive `MInv` has the form of every request
(`RequestsShaped`), that a goal is sent and the stock switcher called as the very
next step (`HeadsOnly`), the spawner's remaining steps, that nothing can be armed
before its last request is served (`BootsAlone`), and that `crossed` remembers every
crossing (`Remembered`). `InOrder` is what holds while it is FALSE: passthrough and
zero effort are never active together (`NeverTheOldRest`), the pair from which a
move would begin unguarded; a torque controller beside the trajectory controller,
which a partly done swap can leave, meets no goal, running or about to be sent
(`MixedIsIdle`); and the stock switcher, between its call and its service, finds
neither the trajectory controller nor zero effort active (`StockFindsArmed`), because
only another's work could have brought them back. The three are carried together.

In the same module `CellKeepsOrder`: from an `OrderlyStart` the switching implements
`ArmCell`, for any number of operators. Only the services, a failing adapter and a
goal's two ends change what the mapping sees (`HowActiveChanges`). Which step of
`ArmCell` a served request is follows from its form and from `Orderly`: an `Arming`
request names both new owners and takes both old ones away, so it is feasible only at
rest and is `Arm`; a `Disarming` one is `Disarm`; the spawner's are `BringUp`; the
hand-over for a move is `TakeOver`, after a crossing only; the stock switcher's
outcomes, whatever part is done, are `Swap` (`StrictIsOrdered`, `StockIsOrdered`).

And `ParkSafe`: `HeldArmNeverPulled` under `OrderlyStart`. `TurnsTaken` says that at
most one process runs, with no goal and no request left of an earlier one. A target
is stale only between the end of the goal and the next step of the process; then no
torque controller is active and none is asked for (`StaleIsHarmless`), and the next
step parks the target or ends the process (`ParksAfterMoves`). A process that is cut
short takes its target with it; what it leaves is a goal or a request that lands
while nobody streams (`LeftoversKeepTurns`). Operators who take turns never cross
(`TurnsDoNotCross`), so `InOrder` is theirs without the exception.

**FriCellProofs**: `MirrorSafe`, `HandoverSafe` and `TorqueSafe`. A step of the cell
is a step of the switching (`CellStepIsSwitchStep`), so every behaviour of the cell
is one of the switching (`CellSwitches`) and what is proved of that holds of the
cell: `CellSwitchesSafely` (`WrenchStays`, `NoOverlayDuringMove`, `KeepsOrder`) and
`CellParks` (`HeldArmNeverPulled`). Underneath, `CInv`
adds that a goal runs only under its controller (the arm is not driven while the
passthrough mirrors it), that commands are at most one period old and exactly
the arm's position until it moves again, and that zero effort means no torque. A
failing update breaks off a mirror of positions that were near already; a failing
activation has no such start, which is why `HandoverSafe` and `TorqueSafe` except it.

**ExcitePlayerProofs**: `PlayerTyped` and `RampSafe`, for every plan, ramp, stall
and answer. `RampBounds` is not inductive: the clock advances at the ramp reached
now by the time that passed since the last iteration. `RampHeld` says it of that
iteration, `clock <= (elapsed - waited)^2`, and `SquareGrows` is the step.
`RunIsBounded` is the part of `RunEnds` that needs no fairness: `StepsLeft` falls with
each iteration of the loop, of the pin and of the releases, and nothing else raises
it. An arm that falls behind and catches up resets the patience, but an iteration
that finds it caught up moves the clock (`ClockMoves`: some time has passed, so the
ramp is past zero), and a row of the plan outweighs a full patience (`RowsLeft`).
What is left to TLC is that the process is scheduled.

**ExciteSessionProofs**: `ReleaseSafe`, `EndsByRelease` under
`2 * MaxStall <= Watchdog` (`TwoStallsFit`), for every plan, arm, envelope, pin and
number of releases. The argument relates the two processes' clocks: while the
bridge is engaged and has read all there is, the age of the packet it last read
is at most the time since the player last sent (`Heard`). That time is `waited`,
and one stall more between the last packet of the plan and the first of the pin
(`Between`). Before its first packet the player has not engaged anybody
(`NothingSent`), after its first release it cannot engage again (`Releasing`).

The composition is proved both ways. Seen from the player, `SessionIsAPlayerRun`: each
step of a session is one of `ExcitePlayer` or a stutter. The one fact it needs is that
what the bridge measured lies on the arm (`Measured`: the pose is `Tip` of some
configuration, the joints are one), so that its replies are among those
`AnyBridge` may give; then a tick that answers, one that only reads the socket, a
signal and a restart each are `AnyBridge`. The theorems of the player alone then
hold in a session without another induction: `SessionKeepsRamp` is `PlayerTyped` and
`RampSafe` of the instance, `SessionRunsOut` is `RunIsBounded`. Seen from the bridge, a session has one sender more
restricted than `Send`: the player's packets are datagrams of `HaplyBridge`, so
`IInv` and the step lemma of the refinement carry over (`SessionIInv`,
`SessionBridgeSafe`, and `SessionKeepsPromise`: the session implements
`SpringAnchor`).

Model-checked only: liveness (`SilenceDisengages`, `RunEnds`, `CommandsReturn`),
which is out of the reach of TLAPS's backends. No module a theorem is about uses
a RECURSIVE operator.

## 7. Not modelled

* A `Robot` streaming next to the bridge. The CRISP controller refuses a topic
  with two publishers (`haply_teleop_bridge.py:175`, which only warns), so each would have to see
  the other come and go; `ArmMoves` therefore lets the bridge steer only when
  every `Robot` is gone.
* The bridge's status message, log lines and speed estimate: projections of what
  is modelled, read by nothing that acts.
* `load_plan`, `forward_kinematics` and the player's exit code: pure functions of
  a file, a configuration and a stage.
* `import_sources.sh`: runs by hand before a build and touches nothing that moves
  the arm; its clones are git's.
* The live view, the bag recorder, the torque relay and `plan_from_arm.sh`, which
  keep no state that anything here reads; the mock bringup, which starts the same
  controllers over simulated hardware; the CRISP patch, against a source that is
  not here; loading and configuring controllers, which happens before any of them
  is active.

## 8. Plan

Done: bridge, envelope, switching, bring-up, adapters, player and session, the
abstract specifications `SpringAnchor` and `ArmCell`, the session as an
implementation of the player's environment, and proofs of every safety property a
passing run checks. What is left, in this order:

1. a `Robot` next to the bridge, with the publisher-count rule of the CRISP
   controller;
2. what the pin promises: that the configuration held is the one the arm stood
   in when the player stopped;
3. a bound on the plan clock's rate after a freeze that outlasts the ramp;
4. `import_sources.sh`: idempotence and interrupted clones.
