---------------------------- MODULE FriCellProofs ----------------------------
(***************************************************************************)
(* What the adapters leave with FRI, for any number of joints, operators   *)
(* and torque controllers, whatever order switches, updates and failures   *)
(* come in.                                                                *)
(***************************************************************************)
EXTENDS FriCell, ControllerMoveProofs

(* A goal runs only under its controller, so the arm is not driven by one  *)
(* while the passthrough mirrors it.                                       *)
GoalsUnderTrajectory == moving # None => TRAJECTORY \in active

(* After an update the commands are the measured positions; a move later   *)
(* they are one period old.                                                *)
CInv ==
    /\ GoalsUnderTrajectory
    /\ position \in [1..Joints -> Int]
    /\ PASSTHROUGH \in active => Near(position, where)
    /\ PASSTHROUGH \in active /\ ~due => position = where
    /\ ZERO_EFFORT \in active => ~torque
    /\ torque \in BOOLEAN /\ due \in BOOLEAN

-----------------------------------------------------------------------------
LEMMA CellStepIsSwitchStep == [CellNext]_cellVars => [Next]_vars
BY DEF CellNext, cellVars, Next, Acts, UpdateFails, MovesBetweenUpdates, Update

(* A cell is a ControllerSwitch whose adapters write: every behaviour of   *)
(* the cell is one of the switching code.                                  *)
THEOREM CellSwitches == CellSpec => Spec
<1>1. CellInit => Init
  BY DEF CellInit
<1> QED
  BY <1>1, CellStepIsSwitchStep, PTL DEF CellSpec, Spec

LEMMA CellIInv == CellSpec => []IInv
BY CellSwitches, IInvHolds, PTL

(* With adapters that mirror, write and break off half way, too: the       *)
(* wrench source stays, no torque controller is active under a goal unless *)
(* crisp_py's switcher was used beside other work, and both commands of    *)
(* the arm change hands at once.                                           *)
THEOREM CellSwitchesSafely ==
    ASSUME OrderlyStart
    PROVE  /\ CellSpec => []WrenchStays
           /\ CellSpec => []NoOverlayDuringMove
           /\ CellSpec => KeepsOrder
<1>1. (Spec => []WrenchStays) /\ (Spec => []NoOverlayDuringMove) /\ (Spec => KeepsOrder)
  BY WrenchSafe, MoveSafe, CellKeepsOrder
<1> QED
  BY <1>1, CellSwitches, PTL

(* And operators who take turns never have a held arm pulled away.         *)
THEOREM CellParks == ASSUME OrderlyStart PROVE CellSpec => HeldArmNeverPulled
BY CellSwitches, ParkSafe, PTL

LEMMA PlaceTyped == \A place \in Places : place \in [1..Joints -> Int]
BY CellAssumption

LEMMA NearItself == \A place \in [1..Joints -> Int] : Near(place, place)
BY CellAssumption DEF Near, Distance

LEMMA OnePositionOwner ==
    ASSUME IInv, PASSTHROUGH \in active
    PROVE  TRAJECTORY \notin active
<1>1. PASSTHROUGH # TRAJECTORY
  BY DEF PASSTHROUGH, TRAJECTORY
<1> QED
  BY <1>1 DEF IInv, StateOK, Exclusive, PositionOwners

LEMMA OneEffortOwner ==
    ASSUME IInv, ZERO_EFFORT \in active
    PROVE  Overlays \cap active = {}
<1>1. ZERO_EFFORT \notin Overlays
  BY OverlaysAssumption
<1> QED
  BY <1>1 DEF IInv, StateOK, Exclusive, EffortOwners

-----------------------------------------------------------------------------
LEMMA InitCInv == CellInit => CInv
<1> SUFFICES ASSUME CellInit PROVE CInv
  OBVIOUS
<1>1. where \in [1..Joints -> Int] /\ position = where /\ moving = None
  BY PlaceTyped DEF CellInit, Init
<1>2. Near(position, where)
  BY <1>1, NearItself
<1>3. /\ torque \in BOOLEAN
      /\ ZERO_EFFORT \in active => ~torque
  BY InitIInv, OneEffortOwner DEF CellInit
<1> QED
  BY <1>1, <1>2, <1>3 DEF CInv, GoalsUnderTrajectory, CellInit

(* A goal is accepted under its controller and ends with it.               *)
LEMMA GoalsStayUnderTrajectory ==
    ASSUME IInv, GoalsUnderTrajectory, [Next]_vars
    PROVE  GoalsUnderTrajectory'
<1>0. TRAJECTORY # PASSTHROUGH /\ TRAJECTORY # ZERO_EFFORT
  BY DEF TRAJECTORY, PASSTHROUGH, ZERO_EFFORT
<1>1. ASSUME NEW set, Becomes(set) PROVE GoalsUnderTrajectory'
  BY <1>1 DEF Becomes, GoalsUnderTrajectory
<1>2. ASSUME NEW op \in Operators, StrictSwitch(op) \/ StockSwitch(op)
      PROVE  GoalsUnderTrajectory'
  BY <1>1, <1>2 DEF StrictSwitch, StockSwitch
<1>3. CASE LateSwitch
  BY <1>1, <1>3 DEF LateSwitch, GoalsUnderTrajectory
<1>4. ASSUME NEW op \in Operators, SendGoal(op) PROVE GoalsUnderTrajectory'
  BY <1>4 DEF SendGoal, GoalsUnderTrajectory
<1>5. ASSUME NEW op \in Operators, Interrupted(op) PROVE GoalsUnderTrajectory'
  BY <1>5, SwitchAssumption DEF Interrupted, GoalsUnderTrajectory
<1>6. CASE GoalEnds
  BY <1>6 DEF GoalEnds, GoalReached, GoalAborts, GoalsUnderTrajectory
<1>7. ASSUME NEW adapter \in Adapters, AdapterFails(adapter)
      PROVE  GoalsUnderTrajectory'
  BY <1>0, <1>7 DEF Adapters, AdapterFails, GoalsUnderTrajectory
<1>8. \/ UNCHANGED <<active, moving>>
      \/ \E op \in Operators : StrictSwitch(op) \/ StockSwitch(op) \/ SendGoal(op)
                                 \/ Interrupted(op)
      \/ LateSwitch
      \/ GoalEnds
      \/ \E adapter \in Adapters : AdapterFails(adapter)
  BY DEF Next, Acts, Operates, Works, vars, StartProcess, Spawn, Gate, RestFirst, Settle,
         Park, Exit, SafeSwitch, Arm, AlreadyAtRest, Disarm, Swap, Refuse, AskStock,
         BeginMove, RefuseMove, GoalLost, StrictFails, TimesOut, ArmMoves, Raises
<1> QED
  BY <1>2, <1>3, <1>4, <1>5, <1>6, <1>7, <1>8 DEF GoalsUnderTrajectory

(* Only a goal moves the arm in a step of a process or of a request.       *)
LEMMA StandsWhileMirrored ==
    ASSUME IInv, GoalsUnderTrajectory, Operates \/ GoalEnds \/ LateSwitch,
           PASSTHROUGH \in active
    PROVE  where' = where
<1>1. moving = None
  BY OnePositionOwner DEF GoalsUnderTrajectory
<1>2. ASSUME NEW set, Becomes(set) PROVE where' = where
  BY <1>1, <1>2 DEF Becomes
<1>3. CASE Operates
  BY <1>2, <1>3 DEF Operates, Works, StartProcess, Spawn, Gate, RestFirst, Settle, Park, Exit,
     SafeSwitch, Arm, AlreadyAtRest, Disarm, Swap, Refuse, AskStock, BeginMove, RefuseMove,
     SendGoal, GoalLost, StrictSwitch, StrictFails, StockSwitch, TimesOut, Interrupted, Raises
<1>4. CASE LateSwitch
  BY <1>2, <1>4 DEF LateSwitch
<1>5. CASE GoalEnds
  BY <1>1, <1>5 DEF GoalEnds, GoalReached, GoalAborts
<1> QED
  BY <1>3, <1>4, <1>5

-----------------------------------------------------------------------------
LEMMA BrokenMirrorTyped ==
    ASSUME position \in [1..Joints -> Int], NEW arm \in [1..Joints -> Int]
    PROVE  BrokenMirror(arm) \subseteq [1..Joints -> Int]
BY DEF BrokenMirror

LEMMA HandsOverKeepsCInv ==
    ASSUME IInv, IInv', CInv, GoalsUnderTrajectory',
           Operates \/ GoalEnds \/ LateSwitch, HandsOver
    PROVE  CInv'
<1>1. where' \in [1..Joints -> Int]
  BY PlaceTyped DEF IInv, StateOK
<1>2. position' \in [1..Joints -> Int]
  <2>1. position' \in {where', position} \cup BrokenMirror(where')
    BY DEF HandsOver, PositionTaken
  <2> QED
    BY <1>1, <2>1, BrokenMirrorTyped DEF CInv
<1>3. ASSUME PASSTHROUGH \in active', PASSTHROUGH \notin active
      PROVE  Near(position', where') /\ position' = where'
  BY <1>1, <1>3, NearItself DEF HandsOver, PositionTaken, Activated, PositionOwners
<1>4. ASSUME PASSTHROUGH \in active', PASSTHROUGH \in active
      PROVE  Near(position', where') /\ (~due' => position' = where')
  <2>1. where' = where
    BY <1>4, StandsWhileMirrored DEF CInv
  <2>2. PositionOwners \cap Activated = {}
    <3>1. PASSTHROUGH # TRAJECTORY /\ Exclusive(active')
      BY DEF IInv, StateOK, PASSTHROUGH, TRAJECTORY
    <3>2. TRAJECTORY \notin active'
      BY <1>4, <3>1 DEF Exclusive, PositionOwners
    <3> QED
      BY <1>4, <3>2 DEF Activated, PositionOwners
  <2>3. ~MirrorBreaksOff
    BY <1>4 DEF MirrorBreaksOff, PositionOwners
  <2>4. position' = position /\ due' = due
    BY <1>4, <2>2, <2>3 DEF HandsOver, PositionTaken, CInv
  <2> QED
    BY <1>4, <2>1, <2>4 DEF CInv
<1>5. ZERO_EFFORT \in active' => ~torque'
  BY DEF HandsOver, EffortTaken, Activated, CInv
<1>6. torque' \in BOOLEAN /\ due' \in BOOLEAN
  BY DEF HandsOver, EffortTaken, CInv
<1> QED
  BY <1>2, <1>3, <1>4, <1>5, <1>6 DEF CInv

LEMMA UpdateFailsKeepsCInv ==
    ASSUME IInv, IInv', CInv, GoalsUnderTrajectory',
           NEW adapter \in Adapters, UpdateFails(adapter)
    PROVE  CInv'
<1>1. /\ active' = active \ {adapter} /\ where' = where
      /\ torque' \in {torque, FALSE} /\ due' = (due /\ adapter # PASSTHROUGH)
  BY DEF UpdateFails, AdapterFails
<1>2. where \in [1..Joints -> Int]
  BY PlaceTyped DEF IInv, StateOK
<1>3. position' \in [1..Joints -> Int]
  <2>1. position' \in {position} \cup BrokenMirror(where)
    BY DEF UpdateFails
  <2> QED
    BY <1>2, <2>1, BrokenMirrorTyped DEF CInv
<1>4. PASSTHROUGH \in active' => position' = position
  BY <1>1 DEF UpdateFails
<1>5. torque \in BOOLEAN /\ (ZERO_EFFORT \in active => ~torque)
  BY DEF CInv
<1>6. torque' \in BOOLEAN /\ (ZERO_EFFORT \in active' => ~torque')
  <2>1. CASE torque' = FALSE
    BY <2>1
  <2>2. CASE torque' = torque
    BY <1>1, <1>5, <2>2
  <2> QED
    BY <1>1, <2>1, <2>2
<1>7. due \in BOOLEAN /\ due' \in BOOLEAN
  BY <1>1 DEF CInv
<1>8. PASSTHROUGH \in active' =>
        /\ Near(position', where')
        /\ ~due' => position' = where'
  BY <1>1, <1>4 DEF CInv
<1> QED
  BY <1>3, <1>6, <1>7, <1>8 DEF CInv

LEMMA ArmKeepsCInv ==
    ASSUME IInv, CInv, GoalsUnderTrajectory', MovesBetweenUpdates
    PROVE  CInv'
<1>1. /\ UNCHANGED <<active, position, torque>>
      /\ due' = (PASSTHROUGH \in active)
      /\ PASSTHROUGH \in active => position = where /\ Near(where, where')
  BY DEF MovesBetweenUpdates, ArmMoves, CInv
<1>2. PASSTHROUGH \in active' => Near(position', where') /\ due'
  BY <1>1
<1>3. due' \in BOOLEAN /\ torque' \in BOOLEAN /\ position' \in [1..Joints -> Int]
      /\ (ZERO_EFFORT \in active' => ~torque')
  BY <1>1 DEF CInv
<1> QED
  BY <1>2, <1>3 DEF CInv

LEMMA UpdateKeepsCInv ==
    ASSUME IInv, CInv, Update
    PROVE  CInv'
<1>1. where \in [1..Joints -> Int] /\ UNCHANGED <<active, where, moving>> /\ ~due' /\ due' \in BOOLEAN
  BY PlaceTyped DEF Update, vars, IInv, StateOK
<1>2. position' \in [1..Joints -> Int]
  BY <1>1, PlaceTyped DEF Update, Mirror, CInv
<1>3. PASSTHROUGH \in active => position' = where /\ Near(position', where)
  BY <1>1, NearItself DEF Update, Mirror
<1>4. torque' \in BOOLEAN /\ (ZERO_EFFORT \in active => ~torque')
  BY OneEffortOwner DEF Update, CInv
<1> QED
  BY <1>1, <1>2, <1>3, <1>4 DEF CInv, GoalsUnderTrajectory

LEMMA NextKeepsCInv == IInv /\ IInv' /\ CInv /\ [CellNext]_cellVars => CInv'
<1> SUFFICES ASSUME IInv, IInv', CInv, [CellNext]_cellVars PROVE CInv'
  OBVIOUS
<1>1. GoalsUnderTrajectory'
  BY CellStepIsSwitchStep, GoalsStayUnderTrajectory DEF CInv
<1>2. CASE UNCHANGED cellVars
  BY <1>2 DEF cellVars, vars, CInv, GoalsUnderTrajectory
<1> QED
  BY <1>1, <1>2, HandsOverKeepsCInv, UpdateFailsKeepsCInv, ArmKeepsCInv, UpdateKeepsCInv
     DEF CellNext

LEMMA CInvHolds == CellSpec => [](IInv /\ CInv)
<1>1. CellInit => IInv
  BY InitIInv DEF CellInit
<1>2. IInv /\ [CellNext]_cellVars => IInv'
  BY CellStepIsSwitchStep, NextKeepsIInv
<1> QED
  BY <1>1, <1>2, InitCInv, NextKeepsCInv, PTL DEF CellSpec

-----------------------------------------------------------------------------
(* Right after a switch, between updates and with any joint unreadable,    *)
(* the passthrough's setpoint is within one period of the arm.             *)
THEOREM MirrorSafe == CellSpec => []MirrorsTheArm
BY CInvHolds, PTL DEF CInv, MirrorsTheArm

(* A sound request that lets go of an owner activates another; a broken    *)
(* mirror leaves on each joint what it wrote now or a period ago.          *)
LEMMA StrictTakesOver ==
    ASSUME NEW set \in SUBSET Controllers, NEW r \in Request, r.kind = "strict",
           Sound(r), Feasible(r, set)
    PROVE  LET new == Granted(r, set)
           IN  /\ PositionOwners \cap new # PositionOwners \cap set =>
                      PositionOwners \cap (new \ set) # {}
               /\ Overlays \cap set # {} /\ Overlays \cap new = {} =>
                      ZERO_EFFORT \in new \ set
BY DEF Sound, Feasible, Granted, EffortOwners, Request

(* In what follows: a step of the switching that the stock switcher does   *)
(* not serve changes the active set by one sound request, wholly or but    *)
(* for an adapter that fails as it is activated.                           *)
LEMMA SwitchedSoundly ==
    ASSUME IInv, Operates \/ GoalEnds \/ LateSwitch, ~StockServes, active' # active
    PROVE  \E r \in Request : /\ r.kind = "strict" /\ Sound(r) /\ Feasible(r, active)
                              /\ \E failed \in FailedActivations(r) :
                                    active' = Granted(r, active) \ failed
                              /\ \A adapter \in r.activate \ active' :
                                    FailsToActivate(adapter)
<1>1. ASSUME NEW op \in Operators, StockSwitch(op) PROVE FALSE
  BY <1>1 DEF StockSwitch, StockServes, Served, Answered, IInv, StateOK
<1>2. \/ \E op \in Operators : StrictSwitch(op)
      \/ LateSwitch
  BY <1>1 DEF Operates, Works, GoalEnds, StartProcess, Spawn, Gate, RestFirst, Settle, Park,
     Exit, SafeSwitch, Arm, AlreadyAtRest, Disarm, Swap, Refuse, AskStock, BeginMove,
     RefuseMove, SendGoal, GoalLost, StrictFails, TimesOut, Interrupted, GoalReached,
     GoalAborts, Raises
<1>3. ASSUME NEW r \in Request, r.kind = "strict", Feasible(r, active), r \in Served
      PROVE  \A adapter \in r.activate \ active' : FailsToActivate(adapter)
  BY <1>3 DEF FailsToActivate
<1>4. ASSUME NEW op \in Operators, StrictSwitch(op)
      PROVE  /\ request[op] \in Request /\ request[op].kind = "strict" /\ Sound(request[op])
             /\ Feasible(request[op], active) /\ request[op] \in Served
             /\ \E failed \in FailedActivations(request[op]) :
                   active' = Granted(request[op], active) \ failed
  <2>1. /\ request[op] # None /\ request[op].kind = "strict" /\ Feasible(request[op], active)
        /\ late' = late /\ (Answered(op) \/ Ends(op))
        /\ \E failed \in FailedActivations(request[op]) :
              active' = Granted(request[op], active) \ failed
    BY <1>4 DEF StrictSwitch, Becomes
  <2>2. request'[op] = None
    BY <2>1 DEF Answered, Ends, IInv, StateOK
  <2> QED
    BY <2>1, <2>2 DEF Served, IInv, StateOK, RequestsSound
<1>5. CASE LateSwitch
  <2>1. /\ late # None /\ late \in Request /\ late' = None /\ Sound(late) /\ late \in Served
    BY <1>5 DEF LateSwitch, Served, IInv, StateOK, RequestsSound
  <2>2. late.kind # "stock"
    BY <2>1 DEF StockServes
  <2>3. Feasible(late, active)
    BY <1>5, <2>2 DEF LateSwitch, Becomes
  <2>4. \E failed \in FailedActivations(late) : active' = Granted(late, active) \ failed
    BY <1>5, <2>2, <2>3 DEF LateSwitch, Becomes
  <2>5. late.kind = "strict"
    BY <2>1, <2>2 DEF Request
  <2> QED
    BY <1>3, <2>1, <2>3, <2>4, <2>5
<1> QED
  BY <1>2, <1>3, <1>4, <1>5

(* The position command does not jump when it changes hands or is dropped, *)
(* unless the passthrough fails as it is activated or crisp_py's switcher  *)
(* was served.                                                             *)
THEOREM HandoverSafe == CellSpec => PositionHandedOverAtArm
<1>1. ASSUME IInv, IInv', CInv, [CellNext]_cellVars,
             ~StockServes, ~FailsToActivate(PASSTHROUGH),
             PositionOwners \cap active' # PositionOwners \cap active
      PROVE  Near(position', where')
  <2>0. where' \in [1..Joints -> Int] /\ where \in [1..Joints -> Int]
    BY <1>1, PlaceTyped DEF IInv, StateOK
  <2>1. CASE (Operates \/ GoalEnds \/ LateSwitch) /\ HandsOver
    <3>1. PICK r \in Request : /\ r.kind = "strict" /\ Sound(r) /\ Feasible(r, active)
                               /\ \E failed \in FailedActivations(r) :
                                     active' = Granted(r, active) \ failed
                               /\ \A adapter \in r.activate \ active' :
                                     FailsToActivate(adapter)
      BY <1>1, <2>1, SwitchedSoundly
    <3>2. PICK failed \in FailedActivations(r) : active' = Granted(r, active) \ failed
      BY <3>1
    <3>3. failed \subseteq r.activate /\ failed \subseteq {PASSTHROUGH, ZERO_EFFORT}
      BY FailedAreAdapters
    <3>4. PASSTHROUGH \notin failed
      BY <1>1, <3>1, <3>2, <3>3
    <3>5. PositionOwners \cap active' = PositionOwners \cap Granted(r, active)
      BY <3>2, <3>3, <3>4, Distinct DEF PositionOwners
    <3>6. PositionOwners \cap Activated # {}
      <4>1. PositionOwners \cap (Granted(r, active) \ active) # {}
        BY <1>1, <3>1, <3>5, StrictTakesOver DEF IInv, StateOK
      <4> QED
        BY <3>5, <4>1 DEF Activated
    <3> QED
      BY <2>0, <2>1, <3>6, NearItself DEF HandsOver, PositionTaken
  <2>2. ASSUME NEW adapter \in Adapters, UpdateFails(adapter)
        PROVE  Near(position', where')
    <3>1. adapter = PASSTHROUGH /\ PASSTHROUGH \in active /\ where' = where
      BY <1>1, <2>2 DEF UpdateFails, AdapterFails, Adapters, PositionOwners, PASSTHROUGH,
         TRAJECTORY, ZERO_EFFORT
    <3>2. PICK k \in 1..Joints :
              position' = [j \in 1..Joints |-> IF j < k THEN where[j] ELSE position[j]]
      BY <2>2, <3>1 DEF UpdateFails, BrokenMirror
    <3>3. Near(position, where) /\ Near(where, where)
      BY <1>1, <2>0, <3>1, NearItself DEF CInv
    <3> QED
      BY <3>1, <3>2, <3>3 DEF Near
  <2>3. CASE MovesBetweenUpdates \/ Update \/ UNCHANGED cellVars
    BY <1>1, <2>3 DEF MovesBetweenUpdates, ArmMoves, Update, vars, cellVars
  <2> QED
    BY <1>1, <2>1, <2>2, <2>3 DEF CellNext
<1>2. IInv /\ CInv /\ IInv' /\ [CellNext]_cellVars =>
        [PositionOwners \cap active' # PositionOwners \cap active =>
            \/ Near(position', where')
            \/ FailsToActivate(PASSTHROUGH)
            \/ StockServes]_cellVars
  BY <1>1
<1> QED
  BY <1>2, CInvHolds, PTL DEF CellSpec, PositionHandedOverAtArm

(* Nothing but the stock switcher, and a zero effort controller that fails *)
(* as it is activated, leaves a torque nobody commands.                    *)
THEOREM TorqueSafe == CellSpec => TorqueLeftByStockOrFault
<1>1. ASSUME IInv, CInv, [CellNext]_cellVars, ~StockServes, ~FailsToActivate(ZERO_EFFORT),
             TorqueLeft', ~TorqueLeft
      PROVE  FALSE
  <2>1. CASE (Operates \/ GoalEnds \/ LateSwitch) /\ HandsOver
    <3>1. torque /\ Overlays \cap active # {} /\ Overlays \cap active' = {}
          /\ ZERO_EFFORT \notin Activated
      BY <1>1, <2>1 DEF HandsOver, EffortTaken, TorqueLeft
    <3>2. PICK r \in Request : /\ r.kind = "strict" /\ Sound(r) /\ Feasible(r, active)
                               /\ \E failed \in FailedActivations(r) :
                                     active' = Granted(r, active) \ failed
                               /\ \A adapter \in r.activate \ active' :
                                     FailsToActivate(adapter)
      BY <1>1, <2>1, <3>1, SwitchedSoundly
    <3>3. PICK failed \in FailedActivations(r) : active' = Granted(r, active) \ failed
      BY <3>2
    <3>4. failed \subseteq r.activate /\ failed \subseteq {PASSTHROUGH, ZERO_EFFORT}
      BY FailedAreAdapters
    <3>5. ZERO_EFFORT \notin failed
      BY <1>1, <3>2, <3>3, <3>4
    <3>6. Overlays \cap Granted(r, active) = {}
      BY <3>1, <3>3, <3>4, Distinct
    <3>7. active \in SUBSET Controllers
      BY <1>1 DEF IInv, StateOK
    <3>8. Overlays \cap active # {}
      BY <3>1
    <3>9. r.kind = "strict" /\ Sound(r) /\ Feasible(r, active)
      BY <3>2
    <3>10. ZERO_EFFORT \in Granted(r, active) \ active
      BY <3>6, <3>7, <3>8, <3>9, StrictTakesOver
    <3> QED
      BY <3>1, <3>3, <3>5, <3>10 DEF Activated
  <2>2. ASSUME NEW adapter \in Adapters, UpdateFails(adapter)
        PROVE  FALSE
    <3>1. Overlays \cap active' = Overlays \cap active
      BY <2>2, OverlaysAssumption DEF UpdateFails, AdapterFails, Adapters
    <3> QED
      BY <1>1, <2>2, <3>1 DEF UpdateFails, TorqueLeft
  <2>3. CASE MovesBetweenUpdates \/ Update \/ UNCHANGED cellVars
    BY <1>1, <2>3 DEF MovesBetweenUpdates, ArmMoves, Update, vars, cellVars, TorqueLeft, CInv
  <2> QED
    BY <1>1, <2>1, <2>2, <2>3 DEF CellNext
<1>2. IInv /\ CInv /\ [CellNext]_cellVars =>
        [TorqueLeft' /\ ~TorqueLeft => StockServes \/ FailsToActivate(ZERO_EFFORT)]_cellVars
  BY <1>1
<1> QED
  BY <1>2, CInvHolds, PTL DEF CellSpec, TorqueLeftByStockOrFault
=============================================================================
