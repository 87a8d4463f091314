------------------------------- MODULE FriCell -------------------------------
(***************************************************************************)
(* src/fri_command_controllers.cpp under the switching of ControllerSwitch:*)
(* what the two adapters leave in FRI's command interfaces when they are   *)
(* activated, at each update and when an update fails half way.  FRI keeps *)
(* the last command of an interface that nobody writes.                    *)
(*                                                                         *)
(* Where the arm stands is a configuration here, joint by joint.           *)
(***************************************************************************)
EXTENDS ControllerSwitch

CONSTANTS
    Joints,     \* the adapters write them in this order: 1..Joints
    Travel      \* how far a joint moves between two updates

ASSUME CellAssumption ==
    /\ Joints \in Nat \ {0} /\ Travel \in Nat
    /\ Places \subseteq [1..Joints -> Int]

VARIABLES
    position,   \* the position command of each joint
    torque,     \* some joint's effort command is not zero
    due         \* the arm moved since the passthrough last wrote

cellVars == <<vars, position, torque, due>>

CellInit ==
    /\ Init
    /\ position = where
    /\ torque \in IF Overlays \cap active # {} THEN BOOLEAN ELSE {FALSE}
    /\ due = FALSE

-----------------------------------------------------------------------------
(***************************************************************************)
(* on_activate.  An operator named for a slip (Un.., ..Skips..) is a       *)
(* plausible mistake in the definition after it; no behaviour uses it.     *)
(***************************************************************************)
Activated == active' \ active

\* A mirror that fails at joint k has written the joints before it.
BrokenMirror(arm) ==
    {[j \in 1..Joints |-> IF j < k THEN arm[j] ELSE position[j]] : k \in 1..Joints}

\* The passthrough was to take the position command, which was free, and its
\* mirror broke off.
MirrorBreaksOff ==
    /\ PositionOwners \cap active' = {}
    /\ \/ FailsToActivate(PASSTHROUGH)
       \/ Faults /\ \E r \in Served : r.kind = "stock" /\ PASSTHROUGH \in r.activate

UnmirroredTaken ==
    position' = IF TRAJECTORY \in Activated THEN where' ELSE position

\* The passthrough mirrors the measured positions before its first update, or
\* those before the joint it fails at; the trajectory controller holds them.
PositionTaken ==
    position' \in IF PositionOwners \cap Activated # {} THEN {where'}
                  ELSE IF MirrorBreaksOff THEN BrokenMirror(where') ELSE {position}

UnzeroedTaken == UNCHANGED torque

\* Zero effort overwrites every torque, or those before the joint it fails at.
EffortTaken ==
    torque' \in IF ZERO_EFFORT \in Activated THEN {FALSE}
                ELSE IF FailsToActivate(ZERO_EFFORT) THEN {torque, FALSE} ELSE {torque}

HandsOver ==
    /\ PositionTaken
    /\ EffortTaken
    /\ due' = (due /\ PASSTHROUGH \in active \cap active')

(***************************************************************************)
(* update, once in a control period.                                       *)
(***************************************************************************)
\* Slip: a joint without a finite state is skipped.
MirrorSkipsJoint ==
    {where} \cup {[where EXCEPT ![k] = position[k]] : k \in 1..Joints}

\* What a mirror that succeeds leaves behind.
Mirror == {where}

\* The trajectory controller and a torque controller write as they like.
Update ==
    /\ position' \in IF PASSTHROUGH \in active THEN Mirror
                     ELSE IF TRAJECTORY \in active THEN Places ELSE {position}
    /\ torque' \in IF Overlays \cap active # {} THEN BOOLEAN
                   ELSE IF ZERO_EFFORT \in active THEN {FALSE} ELSE {torque}
    /\ due' = FALSE
    /\ UNCHANGED vars

\* update returns ERROR: the adapter is deactivated and nothing is undone.
UpdateFails(adapter) ==
    /\ AdapterFails(adapter)
    /\ position' \in IF adapter = PASSTHROUGH THEN BrokenMirror(where) ELSE {position}
    /\ torque' \in IF adapter = ZERO_EFFORT THEN {torque, FALSE} ELSE {torque}
    /\ due' = (due /\ adapter # PASSTHROUGH)

Distance(a, b) == IF a < b THEN b - a ELSE a - b

Near(a, b) == \A j \in 1..Joints : Distance(a[j], b[j]) <= Travel

\* The passthrough reads the arm at every update.
MovesBetweenUpdates ==
    /\ ArmMoves
    /\ PASSTHROUGH \in active => ~due /\ Near(where, where')
    /\ due' = (PASSTHROUGH \in active)
    /\ UNCHANGED <<position, torque>>

CellNext ==
    \/ (Operates \/ GoalEnds \/ LateSwitch) /\ HandsOver /\ Remembers
    \/ \E adapter \in Adapters : UpdateFails(adapter) /\ Remembers
    \/ MovesBetweenUpdates /\ Remembers
    \/ Update

CellSpec == CellInit /\ [][CellNext]_cellVars

\* Every process is scheduled and its requests are served; a goal ends.
CellFairness ==
    /\ \A op \in Operators : WF_cellVars(Works(op) /\ HandsOver /\ Remembers)
    /\ WF_cellVars(GoalEnds /\ HandsOver /\ Remembers)

FairCell == CellSpec /\ CellFairness

-----------------------------------------------------------------------------
(* While the passthrough owns the position command, Sunrise's spring is    *)
(* centred on every joint of the arm, give or take one control period:     *)
(* also right after a switch and whichever joints could not be read.       *)
MirrorsTheArm ==
    PASSTHROUGH \in active => Near(position, where)

(* When the position command changes hands, or is left to nobody because a *)
(* mirror broke off half way, what FRI goes on with is within one period   *)
(* of the arm on every joint.  A passthrough that fails as it is activated *)
(* leaves the joints it has not reached to what the trajectory controller  *)
(* wrote last, and that owner is gone; the stock switcher may do so too.   *)
PositionHandedOverAtArm ==
    [][PositionOwners \cap active' # PositionOwners \cap active =>
        \/ Near(position', where')
        \/ FailsToActivate(PASSTHROUGH)
        \/ StockServes]_cellVars

(* A torque that no controller commands any more is left on the arm only   *)
(* by the stock switcher, or by a zero effort controller that fails as it  *)
(* is activated; every other way out of an overlay writes zeros.           *)
TorqueLeft == torque /\ Overlays \cap active = {}

TorqueLeftByStockOrFault ==
    [][TorqueLeft' /\ ~TorqueLeft =>
        StockServes \/ FailsToActivate(ZERO_EFFORT)]_cellVars

(* Every command an operator starts comes to an end, whatever the adapters *)
(* do: a --home whose goal is aborted does not wait for it for ever, nor   *)
(* does a process whose switch cannot happen any more.                     *)
CommandsReturn == \A op \in Operators : todo[op] # <<>> ~> todo[op] = <<>>
=============================================================================
