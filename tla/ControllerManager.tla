-------------------------- MODULE ControllerManager --------------------------
(***************************************************************************)
(* What this repository uses of ros2_control's controller manager and of   *)
(* crisp_py's switcher: which controllers exist, what they claim, when a   *)
(* STRICT switch can happen and what a BEST_EFFORT one may leave behind.   *)
(* Both are outside src/; the claims come from config/controllers.yaml and *)
(* src/fri_command_controllers.cpp, the two strictnesses from how          *)
(* scripts/kuka_crisp.py relies on them.                                   *)
(*                                                                         *)
(* Every controller of the bringup that ends in "broadcaster" stays active *)
(* through every switch and is left out.                                   *)
(***************************************************************************)
EXTENDS Integers

CONSTANT Overlays   \* TORQUE_CONTROLLERS

PASSTHROUGH == "fri_position_passthrough_controller"
TRAJECTORY  == "joint_trajectory_controller"
ZERO_EFFORT == "zero_effort_controller"
WRENCH      == "estimated_wrench_interface"

ASSUME OverlaysAssumption ==
    Overlays \cap {PASSTHROUGH, TRAJECTORY, ZERO_EFFORT, WRENCH} = {}

\* Slip: the wrench source taken for a broadcaster.
PassthroughOnly == {PASSTHROUGH}

HOLD_ACTIVE == {PASSTHROUGH, WRENCH}

Controllers == Overlays \cup {PASSTHROUGH, TRAJECTORY, ZERO_EFFORT, WRENCH}

\* The two sets of command interfaces of the arm, by who can claim them.
PositionOwners == {PASSTHROUGH, TRAJECTORY}
EffortOwners   == Overlays \cup {ZERO_EFFORT}

\* This package's own controllers: their callbacks may return ERROR.
Adapters == {PASSTHROUGH, ZERO_EFFORT}

\* No command interface is claimed twice.
Exclusive(set) ==
    \A c, d \in set :
        c # d => /\ ~({c, d} \subseteq PositionOwners)
                 /\ ~({c, d} \subseteq EffortOwners)

(***************************************************************************)
(* A request to the switch service names what it activates and what it     *)
(* takes away, and how strictly.                                           *)
(***************************************************************************)
Request == [kind: {"strict", "stock"},
            activate: SUBSET Controllers, deactivate: SUBSET Controllers]

\* STRICT happens as a whole or not at all: every controller it names must
\* be able to change state, and the claims must fit.
Feasible(request, active) ==
    /\ request.activate \cap active = {}
    /\ request.deactivate \subseteq active
    /\ Exclusive((active \ request.deactivate) \cup request.activate)

Granted(request, active) == (active \ request.deactivate) \cup request.activate

\* crisp_py's switcher names its target and what is to be active with it,
\* and takes away the rest of a list of active controllers it has read.
StockRequest(target, listed) ==
    [kind       |-> "stock",
     activate   |-> HOLD_ACTIVE \cup {target},
     deactivate |-> listed \ (HOLD_ACTIVE \cup {target})]

\* It sends BEST_EFFORT, "which reports success after a partial switch": any
\* part of either list may be done, on whatever is active by then.
StockOutcomes(request, active) ==
    {set \in {(active \ gone) \cup granted :
                 gone \in SUBSET request.deactivate,
                 granted \in SUBSET request.activate} : Exclusive(set)}

(***************************************************************************)
(* When something holds the arm: a fixed position setpoint, or an overlay  *)
(* on top of the mirrored one.  Passthrough and zero effort hold nothing.  *)
(***************************************************************************)
Held(active) ==
    \/ TRAJECTORY \in active
    \/ PASSTHROUGH \in active /\ Overlays \cap active # {}

Rest     == {TRAJECTORY, ZERO_EFFORT, WRENCH}
Armed(c) == {PASSTHROUGH, c, WRENCH}
=============================================================================
