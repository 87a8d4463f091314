-------------------------- MODULE ControllerSwitch --------------------------
(***************************************************************************)
(* scripts/kuka_crisp.py (safe_switch, strict_switch, move_to_home), and   *)
(* the processes that call it: scripts/crisp_session.py (--switch, --home) *)
(* and prepare_arm of scripts/haply_teleop_bridge.py.                      *)
(*                                                                         *)
(* Each operator runs one process at a time.  A process reads the list of  *)
(* active controllers, decides on what it read, sends a request and waits  *)
(* up to ten seconds for the answer; the controller manager serves         *)
(* requests one by one, and between the reading and the serving any other  *)
(* operator may have switched.                                             *)
(*                                                                         *)
(* Every such process holds a crisp_py Robot, whose 50 Hz timer streams a  *)
(* target latched at construction for as long as the process lives.  A     *)
(* CRISP controller follows a stream only while it is the only one.        *)
(***************************************************************************)
EXTENDS ControllerManager, Sequences

CONSTANTS
    Operators,      \* people (or scripts) at the keyboard
    Launcher,       \* the one that is the launch file's spawner, if it still runs
    Switchable,     \* names given to --switch, besides zero_effort_controller
    Places, Home,   \* where the arm can stand; HOME_DEGREES
    Initial,        \* what the first operator may find active
    GivesUp,        \* a process may be interrupted, or tire of waiting
    Faults,         \* an adapter's on_activate or update may return ERROR
    None

Orphan == "orphan"  \* a goal whose sender is gone

ASSUME SwitchAssumption ==
    /\ Switchable \subseteq Controllers
    /\ Home \in Places
    /\ None \notin Places \cup Operators \cup {Orphan}
    /\ Orphan \notin Operators
    /\ Launcher \in Operators \cup {None}
    /\ \A set \in Initial : set \subseteq Controllers /\ Exclusive(set) /\ WRENCH \in set
    /\ GivesUp \in BOOLEAN /\ Faults \in BOOLEAN

VARIABLES
    active,     \* controllers in state "active"
    moving,     \* whose goal joint_trajectory_controller executes, if any
    where,      \* where the arm stands
    todo,       \* [operator -> what is left of its process]
    stream,     \* [operator -> the target its Robot publishes, None if no process]
    request,    \* [operator -> the switch it waits for, None if it waits for none]
    late,       \* a request whose sender has given up waiting
    crossed     \* history: crisp_py's switcher has been used beside other work

vars == <<active, moving, where, todo, stream, request, late, crossed>>

Step(do, to) == [do |-> do, to |-> to]

Steps == [do: {"switch", "stock", "spawn"}, to: Controllers] \cup
         [do: {"gate", "rest", "settle", "move", "send", "arrive", "park", "exit"},
          to: {None}]

-----------------------------------------------------------------------------
(***************************************************************************)
(* The processes, as the order of what each main does.  Below, an operator *)
(* named for a slip (..Only, ..Unchecked, ..Forgotten) is a plausible      *)
(* mistake in the definition after it; no behaviour uses it.               *)
(***************************************************************************)
SwitchSession(name) ==
    <<Step("gate", None), Step("switch", name), Step("exit", None)>>

HomeSession ==
    <<Step("gate", None), Step("rest", None), Step("move", None), Step("exit", None)>>

Prepare(name) ==
    <<Step("settle", None), Step("move", None), Step("park", None),
      Step("switch", name), Step("exit", None)>>

\* The spawner activates what the launch file names, one after another; the
\* wrench source and the broadcasters come before these two.
Bringup ==
    <<Step("spawn", TRAJECTORY), Step("spawn", ZERO_EFFORT), Step("exit", None)>>

Processes ==
    {HomeSession} \cup {SwitchSession(n) : n \in Switchable \cup {ZERO_EFFORT}}
                  \cup {Prepare(n) : n \in Switchable \cap Overlays}

Init ==
    /\ active \in Initial
    /\ moving = None
    /\ where \in Places
    /\ todo = [op \in Operators |-> IF op = Launcher THEN Bringup ELSE <<>>]
    /\ stream = [op \in Operators |-> None]
    /\ request = [op \in Operators |-> None]
    /\ late = None
    /\ crossed = FALSE

\* The Robot latches its target on the first pose it hears.
StartProcess(op, process) ==
    /\ op # Launcher /\ todo[op] = <<>>
    /\ todo' = [todo EXCEPT ![op] = process]
    /\ stream' = [stream EXCEPT ![op] = where]
    /\ UNCHANGED <<active, moving, where, request, late>>

At(op, do) ==
    /\ todo[op] # <<>> /\ Head(todo[op]).do = do
    /\ request[op] = None

Advance(op) == todo' = [todo EXCEPT ![op] = Tail(@)]

Instead(op, step) == todo' = [todo EXCEPT ![op] = <<step>> \o Tail(@)]

\* The process is gone and its publishers with it; its goal runs on.
Ends(op) ==
    /\ todo' = [todo EXCEPT ![op] = <<>>]
    /\ stream' = [stream EXCEPT ![op] = None]
    /\ request' = [request EXCEPT ![op] = None]

Raises(op) == Ends(op) /\ UNCHANGED <<active, moving, where, late>>

Ask(op, asked) == request' = [request EXCEPT ![op] = asked]

AskStrict(op, activate, deactivate) ==
    Ask(op, [kind |-> "strict", activate |-> activate, deactivate |-> deactivate])

\* The spawner names one controller at a time and takes nothing away.
Spawn(op) ==
    /\ At(op, "spawn")
    /\ AskStrict(op, {Head(todo[op]).to}, {})
    /\ UNCHANGED <<active, moving, where, todo, stream, late>>

-----------------------------------------------------------------------------
(***************************************************************************)
(* The checks the mains make before they act.                              *)
(***************************************************************************)
Gate(op) ==
    /\ At(op, "gate")
    /\ \/ /\ PositionOwners \cap active # {}
          /\ Advance(op)
          /\ UNCHANGED <<active, moving, where, stream, request, late>>
       \/ /\ PositionOwners \cap active = {}
          /\ Raises(op)

\* --home: zero effort first, in the same process.
RestFirst(op) ==
    /\ At(op, "rest")
    /\ IF ZERO_EFFORT \in active THEN Advance(op)
       ELSE Instead(op, Step("switch", ZERO_EFFORT))
    /\ UNCHANGED <<active, moving, where, stream, request, late>>

\* prepare_arm: a torque controller goes back to zero effort before homing.
Settle(op) ==
    /\ At(op, "settle")
    /\ IF Overlays \cap active = {} THEN Advance(op)
       ELSE Instead(op, Step("switch", ZERO_EFFORT))
    /\ UNCHANGED <<active, moving, where, stream, request, late>>

\* prepare_arm: both of crisp_py's own targets are set to the measured ones.
ParkForgotten(op) ==
    /\ At(op, "park")
    /\ Advance(op)
    /\ UNCHANGED <<active, moving, where, stream, request, late>>

Park(op) ==
    /\ At(op, "park")
    /\ stream' = [stream EXCEPT ![op] = where]
    /\ Advance(op)
    /\ UNCHANGED <<active, moving, where, request, late>>

Exit(op) ==
    /\ At(op, "exit")
    /\ Raises(op)

-----------------------------------------------------------------------------
(***************************************************************************)
(* safe_switch, one operator per way through it.                           *)
(***************************************************************************)
ArmOverlayOnly(op, name) ==
    /\ TRAJECTORY \in active /\ name \in Overlays
    /\ AskStrict(op, {name}, {TRAJECTORY, ZERO_EFFORT})
    /\ UNCHANGED <<active, moving, where, todo, stream, late>>

Arm(op, name) ==
    /\ TRAJECTORY \in active /\ name \in Overlays
    /\ AskStrict(op, {PASSTHROUGH, name}, {TRAJECTORY, ZERO_EFFORT})
    /\ UNCHANGED <<active, moving, where, todo, stream, late>>

AlreadyAtRest(op, name) ==
    /\ TRAJECTORY \in active /\ name = ZERO_EFFORT
    /\ Advance(op)
    /\ UNCHANGED <<active, moving, where, stream, request, late>>

DisarmPositionOnly(op, name) ==
    /\ TRAJECTORY \notin active /\ PASSTHROUGH \in active /\ name = ZERO_EFFORT
    /\ AskStrict(op, {TRAJECTORY}, {PASSTHROUGH} \cup (Overlays \cap active))
    /\ UNCHANGED <<active, moving, where, todo, stream, late>>

Disarm(op, name) ==
    /\ TRAJECTORY \notin active /\ PASSTHROUGH \in active /\ name = ZERO_EFFORT
    /\ AskStrict(op, {TRAJECTORY, ZERO_EFFORT}, {PASSTHROUGH} \cup (Overlays \cap active))
    /\ UNCHANGED <<active, moving, where, todo, stream, late>>

\* Anything else is left to crisp_py's switcher.
Swap(op, name) ==
    /\ TRAJECTORY \notin active /\ PASSTHROUGH \in active /\ name # ZERO_EFFORT
    /\ Instead(op, Step("stock", name))
    /\ UNCHANGED <<active, moving, where, stream, request, late>>

Refuse(op, name) ==
    /\ \/ TRAJECTORY \in active /\ name \notin Overlays \cup {ZERO_EFFORT}
       \/ PositionOwners \cap active = {}
    /\ Raises(op)

\* That switcher reads a list of its own, later than safe_switch did.
AskStock(op) ==
    /\ At(op, "stock")
    /\ Ask(op, StockRequest(Head(todo[op]).to, active))
    /\ UNCHANGED <<active, moving, where, todo, stream, late>>

SafeSwitch(op) ==
    /\ At(op, "switch")
    /\ LET name == Head(todo[op]).to
       IN  \/ Arm(op, name)
           \/ AlreadyAtRest(op, name)
           \/ Disarm(op, name)
           \/ Swap(op, name)
           \/ Refuse(op, name)

-----------------------------------------------------------------------------
(***************************************************************************)
(* move_to_home.                                                           *)
(***************************************************************************)
OverlayUnchecked == PositionOwners \cap active # {}

MayMove ==
    /\ PositionOwners \cap active # {}
    /\ ZERO_EFFORT \in active
    /\ Overlays \cap active = {}

\* The position command is taken from the passthrough if it has it.
BeginMove(op) ==
    /\ At(op, "move")
    /\ MayMove
    /\ Instead(op, Step("send", None))
    /\ IF TRAJECTORY \in active THEN UNCHANGED request
       ELSE AskStrict(op, {TRAJECTORY}, {PASSTHROUGH})
    /\ UNCHANGED <<active, moving, where, stream, late>>

RefuseMove(op) ==
    /\ At(op, "move")
    /\ ~MayMove
    /\ Raises(op)

\* A goal to an inactive controller is rejected; a new one preempts the old.
SendGoal(op) ==
    /\ At(op, "send")
    /\ Instead(op, Step("arrive", None))
    /\ moving' = IF TRAJECTORY \in active THEN op ELSE moving
    /\ UNCHANGED <<active, where, stream, request, late>>

GoalReached ==
    /\ moving # None
    /\ moving' = None
    /\ where' = Home
    /\ IF moving # Orphan THEN Advance(moving) ELSE UNCHANGED todo
    /\ UNCHANGED <<active, stream, request, late>>

\* The trajectory stops short; nothing hands the position command back.
GoalAborts ==
    /\ moving # None
    /\ moving' = None
    /\ where' \in Places
    /\ UNCHANGED <<active, todo, stream, request, late>>

\* Slip: only a goal that is reached wakes the process.
GoalLostForgotten(op) == FALSE

\* The blocking send returns or raises when its goal did not run to the end.
GoalLost(op) ==
    /\ At(op, "arrive")
    /\ moving # op
    /\ \/ Advance(op) /\ UNCHANGED <<active, moving, where, stream, request, late>>
       \/ Raises(op)

-----------------------------------------------------------------------------
(***************************************************************************)
(* The controller manager serves a request.                                *)
(***************************************************************************)
\* A trajectory goal ends, and leaves the arm anywhere on its way, when its
\* controller does.
Becomes(controllers) ==
    /\ active' = controllers
    /\ IF moving = None \/ TRAJECTORY \in controllers THEN UNCHANGED <<moving, where>>
       ELSE moving' = None /\ where' \in Places

\* The caller goes on: to the goal if it was swapping for a move.
Answered(op) ==
    /\ request' = [request EXCEPT ![op] = None]
    /\ IF Head(todo[op]).do \in {"switch", "stock", "spawn"} THEN Advance(op)
       ELSE UNCHANGED todo

\* By the time an adapter's on_activate returns ERROR the old owner is gone;
\* which of them do.
FailedActivations(asked) ==
    IF Faults THEN SUBSET (asked.activate \cap Adapters) ELSE {{}}

StrictnessForgotten(op) ==
    /\ request[op] # None /\ request[op].kind = "strict"
    /\ Becomes(Granted(request[op], active))
    /\ Answered(op)
    /\ UNCHANGED <<stream, late>>

\* The answer to a switch with a failed activation may be yes or no.
StrictSwitch(op) ==
    /\ request[op] # None /\ request[op].kind = "strict"
    /\ Feasible(request[op], active)
    /\ \E failed \in FailedActivations(request[op]) :
          /\ Becomes(Granted(request[op], active) \ failed)
          /\ \/ Answered(op) /\ UNCHANGED stream
             \/ failed # {} /\ Ends(op)
    /\ UNCHANGED late

StrictFails(op) ==
    /\ request[op] # None /\ request[op].kind = "strict"
    /\ ~Feasible(request[op], active)
    /\ Raises(op)

\* The result of the stock switch is returned to callers that ignore it.
StockSwitch(op) ==
    /\ request[op] # None /\ request[op].kind = "stock"
    /\ \E outcome \in StockOutcomes(request[op], active) : Becomes(outcome)
    /\ Answered(op)
    /\ UNCHANGED <<stream, late>>

\* The request of a process that ends is not withdrawn.  At most one is
\* outstanding in the model.
Abandons(op) == late = None /\ late' = request[op] /\ Ends(op)

\* strict_switch raises after ten seconds.
TimesOut(op) ==
    /\ GivesUp
    /\ request[op] # None /\ request[op].kind = "strict"
    /\ Abandons(op)
    /\ UNCHANGED <<active, moving, where>>

LateSwitch ==
    /\ late # None
    /\ late' = None
    /\ \E outcome \in
          IF late.kind = "stock" THEN StockOutcomes(late, active)
          ELSE IF Feasible(late, active)
               THEN {Granted(late, active) \ failed : failed \in FailedActivations(late)}
               ELSE {active} : Becomes(outcome)
    /\ UNCHANGED <<todo, stream, request>>

-----------------------------------------------------------------------------
(***************************************************************************)
(* The rest of the cell.                                                   *)
(***************************************************************************)
\* Ctrl-C or a kill, anywhere, also while a request waits to be served.  (The
\* spawner is ended with the whole stack only.)
Interrupted(op) ==
    /\ GivesUp /\ op # Launcher
    /\ todo[op] # <<>>
    /\ IF request[op] = None THEN Ends(op) /\ UNCHANGED late ELSE Abandons(op)
    /\ moving' = IF moving = op THEN Orphan ELSE moving
    /\ UNCHANGED <<active, where>>

\* An adapter that cannot read or write returns ERROR from update() and is
\* deactivated.
AdapterFails(adapter) ==
    /\ Faults
    /\ adapter \in active
    /\ active' = active \ {adapter}
    /\ UNCHANGED <<moving, where, todo, stream, request, late>>

\* The bridge steers once every Robot is gone; an arm nothing holds sags.
ArmMoves ==
    /\ \/ Overlays \cap active # {} /\ \A op \in Operators : stream[op] = None
       \/ ~Held(active)
    /\ where' \in Places
    /\ UNCHANGED <<active, moving, todo, stream, request, late>>

\* What a process does once it runs, its requests being served included.
Works(op) ==
    \/ Spawn(op)
    \/ Gate(op)
    \/ RestFirst(op)
    \/ Settle(op)
    \/ Park(op)
    \/ Exit(op)
    \/ SafeSwitch(op)
    \/ AskStock(op)
    \/ BeginMove(op)
    \/ RefuseMove(op)
    \/ SendGoal(op)
    \/ GoalLost(op)
    \/ StrictSwitch(op)
    \/ StrictFails(op)
    \/ StockSwitch(op)

Operates ==
    \E op \in Operators :
        \/ \E process \in Processes : StartProcess(op, process)
        \/ Works(op)
        \/ TimesOut(op)
        \/ Interrupted(op)

GoalEnds == GoalReached \/ GoalAborts

\* crisp_py's switcher is between reading its list and being served, while
\* another process, a goal or another request is on its way.
InStock(op) == todo[op] # <<>> /\ Head(todo[op]).do = "stock"

Crossing ==
    \/ \E op \in Operators :
          /\ InStock(op)
          /\ \/ moving # None \/ late # None
             \/ \E other \in Operators \ {op} : todo[other] # <<>>
    \/ /\ late # None /\ late.kind = "stock"
       /\ moving # None \/ \E op \in Operators : todo[op] # <<>>

Remembers == crossed' = (crossed \/ Crossing')

Acts ==
    \/ Operates
    \/ GoalEnds
    \/ LateSwitch
    \/ \E adapter \in Adapters : AdapterFails(adapter)
    \/ ArmMoves

Next == Acts /\ Remembers

Spec == Init /\ [][Next]_vars
-----------------------------------------------------------------------------
\* The state of the processes, the switches and the arm.
StateOK ==
    /\ active \in SUBSET Controllers /\ Exclusive(active)
    /\ moving \in Operators \cup {None, Orphan}
    /\ where \in Places
    /\ todo \in [Operators -> Seq(Steps)]
    /\ stream \in [Operators -> Places \cup {None}]
    /\ request \in [Operators -> Request \cup {None}]
    /\ late \in Request \cup {None}

(* The variables hold what the code may give them; in particular no        *)
(* command interface ever has two owners.                                  *)
TypeOK == StateOK /\ crossed \in BOOLEAN

\* The requests this step serves.
Served ==
    {request[op] : op \in {o \in Operators :
                             request[o] # None /\ request'[o] = None /\ late' = late}}
    \cup {r \in {late} : late # None /\ late' = None}

StockServes == \E r \in Served : r.kind = "stock"

\* A STRICT switch that happens without the adapter it names.
FailsToActivate(adapter) ==
    \E r \in Served : /\ r.kind = "strict" /\ Feasible(r, active)
                      /\ adapter \in r.activate \ active'

\* An adapter gives up in this step.
AdapterDropped ==
    \E adapter \in Adapters : active' = active \ {adapter} \/ FailsToActivate(adapter)

(* Whatever two operators do at once, and however late a request lands, a  *)
(* held arm is let go only by crisp_py's stock switcher or by an adapter   *)
(* that gives up, as it is activated or later: no STRICT switch of         *)
(* safe_switch or move_to_home does it.                                    *)
HoldLostOnlyByStock ==
    [][Held(active) /\ ~Held(active') => StockServes \/ AdapterDropped]_vars

(* Likewise for the claims: FRI keeps the last command of an interface     *)
(* nobody writes, so the position and the effort interface keep an owner.  *)
Claimed(controllers) ==
    PositionOwners \cap controllers # {} /\ EffortOwners \cap controllers # {}

ClaimLostOnlyByStock ==
    [][Claimed(active) /\ ~Claimed(active') => StockServes \/ AdapterDropped]_vars

(* "None of them may be active during a trajectory move": no torque        *)
(* controller is active while a goal runs, for its whole duration, against *)
(* any second operator, late request or failing adapter, if the cell was   *)
(* at rest or armed when the first operator came and crisp_py's switcher   *)
(* is never used beside other work.  (It is if somebody does: its list is  *)
(* out of date by then, and what it does of it may be a part.)             *)
NoOverlayDuringMove == ~crossed /\ moving # None => Overlays \cap active = {}

\* Whoever starts a process finds nothing unfinished: no process or Robot of
\* another, no goal that outlived its sender, no request still to be served.
TakesTurns ==
    \A op \in Operators : todo[op] \in Processes =>
        /\ moving = None /\ late = None
        /\ \A other \in Operators \ {op} : todo[other] = <<>> /\ stream[other] = None

\* A torque controller obeys this Robot, whose target is not where the arm is.
PulledAway(op) ==
    /\ Overlays \cap active # {}
    /\ stream[op] # None
    /\ \A other \in Operators \ {op} : stream[other] = None
    /\ stream[op] # where

(* A torque controller that obeys a Robot's stream never pulls the arm     *)
(* from where it stands: what homing moved, the process has made good by   *)
(* the time it arms, whoever homed before, and wherever Ctrl-C or a time-  *)
(* out cut it short.  This is said of operators who take turns, and of an  *)
(* arm held throughout: one that is let go and sags, or that an            *)
(* interrupted goal drives under a new Robot, leaves a stream behind.      *)
HeldArmNeverPulled ==
    [](Held(active) /\ TakesTurns) => [](\A op \in Operators : ~PulledAway(op))

(* The wrench estimate the broadcaster reads survives every switch.        *)
WrenchStays == WRENCH \in active

\* Who commands the position and who the torque; a double claim is TypeOK's.
PositionOf(set) ==
    IF TRAJECTORY \in set THEN "trajectory"
    ELSE IF PASSTHROUGH \in set THEN "passthrough" ELSE "nobody"

EffortOf(set) ==
    IF Overlays \cap set # {} THEN "overlay"
    ELSE IF ZERO_EFFORT \in set THEN "zero" ELSE "nobody"

Cell == INSTANCE ArmCell WITH
    position <- PositionOf(active), effort <- EffortOf(active), moving <- moving # None,
    crossed <- crossed

(* Whoever switches and whenever a request lands, each command of the arm  *)
(* has one owner or none and both change hands at once: the steps of every *)
(* operator, late request and failing adapter are those of ArmCell, those  *)
(* of crisp_py's switcher its Swap.                                        *)
KeepsOrder == Cell!Spec

-----------------------------------------------------------------------------
(***************************************************************************)
(* Statements of the source that the code does not keep.                   *)
(***************************************************************************)
(* "Switch controllers without ever leaving the arm unheld" (safe_switch). *)
HeldThroughout == Held(active)

(* safe_switch to zero effort answers "already at rest" only at rest.      *)
AtRestMeansZeroEffort ==
    [][\A op \in Operators :
        /\ At(op, "switch") /\ Head(todo[op]).to = ZERO_EFFORT
        /\ todo'[op] = Tail(todo[op])
        => ZERO_EFFORT \in active]_vars
=============================================================================
