------------------------ MODULE ControllerMoveProofs ------------------------
(***************************************************************************)
(* No torque controller is active while a trajectory runs, for any number  *)
(* of operators, any set of torque controllers and however late a request  *)
(* is served, until crisp_py's switcher is used beside other work.  The    *)
(* check of move_to_home is made once, before the goal is sent; what keeps *)
(* it true is the form of every switch request.                            *)
(***************************************************************************)
EXTENDS ControllerSwitchProofs

(* What the cell is found in: with the trajectory controller no torque     *)
(* controller, and never the pair that holds nothing; bare, if the spawner *)
(* is still to come.                                                       *)
OrderlyStart ==
    \A set \in Initial :
        /\ TRAJECTORY \in set => Overlays \cap set = {}
        /\ ~({PASSTHROUGH, ZERO_EFFORT} \subseteq set)
        /\ Launcher \in Operators => set \subseteq {WRENCH, TRAJECTORY}

(* The forms of a request: safe_switch's two, move_to_home's, that of      *)
(* crisp_py's switcher and the spawner's.                                  *)
Arming(r) ==
    /\ r.kind = "strict"
    /\ {TRAJECTORY, ZERO_EFFORT} \subseteq r.deactivate
    /\ {TRAJECTORY, ZERO_EFFORT} \cap r.activate = {}
    /\ PASSTHROUGH \in r.activate /\ Overlays \cap r.activate # {}

Disarming(r) ==
    /\ r.kind = "strict"
    /\ {TRAJECTORY, ZERO_EFFORT} \subseteq r.activate
    /\ PASSTHROUGH \in r.deactivate /\ PASSTHROUGH \notin r.activate

Handing(r) ==
    /\ r.kind = "strict"
    /\ r.activate = {TRAJECTORY} /\ r.deactivate = {PASSTHROUGH}

Swapping(r) ==
    /\ r.kind = "stock"
    /\ ZERO_EFFORT \notin r.activate
    /\ PASSTHROUGH \notin r.deactivate

Spawning(r) ==
    /\ r.kind = "strict"
    /\ r.deactivate = {}
    /\ r.activate = {TRAJECTORY} \/ r.activate = {ZERO_EFFORT}

Spawns(todos) == \E i \in DOMAIN todos : todos[i].do = "spawn"

AtSend(op) == todo[op] # <<>> /\ Head(todo[op]).do = "send"

(* A goal is sent, and crisp_py's switcher called, as the very next step;  *)
(* safe_switch does not leave it zero effort.                              *)
HeadOnly(todos) ==
    \A i \in DOMAIN todos :
        /\ todos[i].do \in {"send", "stock"} => i = 1
        /\ todos[i].do = "stock" => todos[i].to # ZERO_EFFORT

HeadsOnly == \A op \in Operators : HeadOnly(todo[op])

(* What an operator's request is, given what it is doing.                  *)
Shaped(op) ==
    \/ Swapping(request[op]) /\ InStock(op)
    \/ /\ ~InStock(op)
       /\ \/ Arming(request[op])
          \/ Disarming(request[op])
          \/ (Handing(request[op]) /\ crossed)
          \/ /\ Spawning(request[op])
             /\ Spawns(todo[op])
             /\ request[op].activate = {Head(todo[op]).to}

RequestsShaped ==
    /\ \A op \in Operators : request[op] # None => Shaped(op)
    /\ late # None => \/ Arming(late) \/ Disarming(late) \/ Spawning(late)
                      \/ Swapping(late) \/ (Handing(late) /\ crossed)

(* The spawner is done, waiting for its first or for its second request.   *)
SpawnerInOrder ==
    \A op \in Operators :
        /\ Spawns(todo[op]) =>
              /\ op = Launcher
              /\ todo[op] = Bringup \/ todo[op] = Tail(Bringup)
              /\ late # None => ~Spawning(late)

(* Until the spawner's last request is served nothing can be armed: every  *)
(* other request names a controller that is not there yet.                 *)
Booting ==
    \/ \E op \in Operators : Spawns(todo[op])
    \/ late # None /\ Spawning(late)

BootsAlone ==
    Booting => /\ active \subseteq {WRENCH, TRAJECTORY}
               /\ \A op \in Operators : ~InStock(op)
               /\ late # None => ~Swapping(late)

MovesByTrajectory == moving # None => TRAJECTORY \in active

Remembered == crossed \in BOOLEAN /\ (Crossing => crossed)

(* While crisp_py's switcher has only been used alone: the pair that holds *)
(* nothing is never active; a torque controller beside the trajectory's,   *)
(* which a switch done in part can leave, meets no goal, now or to be sent;*)
(* and the switcher works on an armed arm only.                            *)
NeverUnheldPair == ~({PASSTHROUGH, ZERO_EFFORT} \subseteq active)

MixedIsIdle ==
    TRAJECTORY \in active /\ Overlays \cap active # {} =>
        moving = None /\ \A op \in Operators : ~AtSend(op)

StockFindsArmed ==
    \/ \E op \in Operators : InStock(op)
    \/ late # None /\ late.kind = "stock"
    => {TRAJECTORY, ZERO_EFFORT} \cap active = {}

InOrder == ~crossed => NeverUnheldPair /\ MixedIsIdle /\ StockFindsArmed

MInv == /\ MovesByTrajectory
        /\ RequestsShaped
        /\ HeadsOnly
        /\ SpawnerInOrder
        /\ BootsAlone
        /\ Remembered
        /\ InOrder

-----------------------------------------------------------------------------
LEMMA Distinct ==
    /\ PASSTHROUGH # TRAJECTORY /\ PASSTHROUGH # ZERO_EFFORT /\ PASSTHROUGH # WRENCH
    /\ TRAJECTORY # ZERO_EFFORT /\ TRAJECTORY # WRENCH /\ ZERO_EFFORT # WRENCH
    /\ Overlays \cap {PASSTHROUGH, TRAJECTORY, ZERO_EFFORT, WRENCH} = {}
BY OverlaysAssumption DEF PASSTHROUGH, TRAJECTORY, ZERO_EFFORT, WRENCH

LEMMA FormsDiffer ==
    ASSUME NEW r
    PROVE  /\ Swapping(r) => ~Arming(r) /\ ~Disarming(r) /\ ~Handing(r) /\ ~Spawning(r)
           /\ Spawning(r) => ~Arming(r) /\ ~Disarming(r) /\ ~Handing(r)
BY DEF Swapping, Arming, Disarming, Handing, Spawning

LEMMA FailedAreAdapters ==
    ASSUME NEW r, NEW failed \in FailedActivations(r)
    PROVE  failed \subseteq r.activate /\ failed \subseteq {PASSTHROUGH, ZERO_EFFORT}
BY DEF FailedActivations, Adapters

(* What safe_switch and the spawner ask for leaves the active set in order,*)
(* with an adapter that fails to come up or without.                       *)
LEMMA GrantedIsOrderly ==
    ASSUME NEW set \in SUBSET Controllers, NEW r \in Request, Feasible(r, set),
           NEW failed \in FailedActivations(r),
           \/ Arming(r)
           \/ Disarming(r)
           \/ Spawning(r) /\ set \subseteq {WRENCH, TRAJECTORY}
    PROVE  LET new == Granted(r, set) \ failed
           IN  /\ TRAJECTORY \in new => Overlays \cap new = {}
               /\ ~({PASSTHROUGH, ZERO_EFFORT} \subseteq new)
<1> DEFINE new == Granted(r, set)
<1>1. new = (set \ r.deactivate) \cup r.activate
  BY DEF Granted
<1>2. CASE Arming(r)
  BY <1>1, <1>2, Distinct DEF Arming
<1>3. CASE Disarming(r)
  <2>1. ZERO_EFFORT \in new /\ PASSTHROUGH \notin new
    BY <1>1, <1>3 DEF Disarming
  <2>2. Overlays \cap new = {}
    <3>1. \A c \in new : c # ZERO_EFFORT => c \notin EffortOwners
      BY <1>1, <2>1 DEF Feasible, Exclusive, EffortOwners
    <3> QED
      BY <3>1, Distinct DEF EffortOwners
  <2> QED
    BY <2>1, <2>2
<1>4. CASE Spawning(r) /\ set \subseteq {WRENCH, TRAJECTORY}
  BY <1>1, <1>4, Distinct DEF Spawning
<1> QED
  BY <1>2, <1>3, <1>4

(* A request that takes away what is not there is not served.              *)
LEMMA BootingServesSpawnsOnly ==
    ASSUME NEW set, set \subseteq {WRENCH, TRAJECTORY}, NEW r, Feasible(r, set)
    PROVE  ~Arming(r) /\ ~Disarming(r) /\ ~Handing(r)
BY Distinct DEF Feasible, Arming, Disarming, Handing

LEMMA StockKeepsPassthrough ==
    ASSUME NEW set \in SUBSET Controllers, NEW r \in Request, Swapping(r),
           NEW outcome \in StockOutcomes(r, set)
    PROVE  /\ PASSTHROUGH \in set => PASSTHROUGH \in outcome
           /\ ZERO_EFFORT \notin set => ZERO_EFFORT \notin outcome
<1>1. PICK gone \in SUBSET r.deactivate, granted \in SUBSET r.activate :
          outcome = (set \ gone) \cup granted
  BY DEF StockOutcomes
<1> QED
  BY <1>1 DEF Swapping

LEMMA BringupSteps ==
    /\ Bringup # <<>> /\ Head(Bringup) = Step("spawn", TRAJECTORY)
    /\ Tail(Bringup) # <<>> /\ Head(Tail(Bringup)) = Step("spawn", ZERO_EFFORT)
    /\ ~Spawns(Tail(Tail(Bringup)))
    /\ ~Spawns(<<>>)
    /\ Head(Bringup).do = "spawn" /\ Head(Tail(Bringup)).do = "spawn"
    /\ Head(Bringup).to = TRAJECTORY /\ Head(Tail(Bringup)).to = ZERO_EFFORT
BY DEF Bringup, Step, Spawns

LEMMA SpawnsTail ==
    ASSUME NEW s \in Seq(Steps), s # <<>>
    PROVE  Spawns(Tail(s)) => Spawns(s)
BY DEF Spawns

LEMMA SpawnsInstead ==
    ASSUME NEW s \in Seq(Steps), s # <<>>, NEW step \in Steps, step.do # "spawn",
           Spawns(<<step>> \o Tail(s))
    PROVE  Spawns(s)
<1> DEFINE t == <<step>> \o Tail(s)
<1>1. PICK i \in DOMAIN t : t[i].do = "spawn"
  BY DEF Spawns
<1>2. Tail(s) \in Seq(Steps) /\ Len(t) = Len(s) /\ t \in Seq(Steps)
  OBVIOUS
<1>3. i \in 1..Len(t)
  BY <1>1, <1>2
<1>4. i # 1 /\ t[i] = s[i]
  BY <1>1, <1>2, <1>3
<1> QED
  BY <1>1, <1>2, <1>3, <1>4 DEF Spawns

LEMMA HeadOnlyTail ==
    ASSUME NEW s \in Seq(Steps), s # <<>>, HeadOnly(s)
    PROVE  /\ HeadOnly(Tail(s))
           /\ Tail(s) # <<>> => Head(Tail(s)).do \notin {"send", "stock"}
<1>1. /\ Tail(s) \in Seq(Steps) /\ DOMAIN Tail(s) = 1..(Len(s) - 1) /\ Len(s) \in Nat
      /\ DOMAIN s = 1..Len(s)
      /\ \A i \in 1..(Len(s) - 1) : Tail(s)[i] = s[i + 1]
  OBVIOUS
<1>2. \A i \in DOMAIN Tail(s) : Tail(s)[i].do \notin {"send", "stock"}
  <2> SUFFICES ASSUME NEW i \in 1..(Len(s) - 1) PROVE s[i + 1].do \notin {"send", "stock"}
    BY <1>1
  <2>1. i + 1 \in DOMAIN s /\ i + 1 # 1
    BY <1>1
  <2> QED
    BY <2>1 DEF HeadOnly
<1>3. Tail(s) # <<>> => 1 \in DOMAIN Tail(s) /\ Head(Tail(s)) = Tail(s)[1]
  BY <1>1
<1> QED
  BY <1>2, <1>3 DEF HeadOnly

LEMMA HeadOnlyInstead ==
    ASSUME NEW s \in Seq(Steps), s # <<>>, HeadOnly(s), NEW step \in Steps,
           step.do = "stock" => step.to # ZERO_EFFORT
    PROVE  HeadOnly(<<step>> \o Tail(s))
<1> DEFINE t == <<step>> \o Tail(s)
<1>1. /\ Len(t) = Len(s) /\ Len(s) \in Nat /\ DOMAIN t = 1..Len(s) /\ DOMAIN s = 1..Len(s)
      /\ t[1] = step
      /\ \A i \in 2..Len(s) : t[i] = s[i]
  OBVIOUS
<1> HIDE DEF t
<1>2. SUFFICES ASSUME NEW i \in 1..Len(s), t[i].do \in {"send", "stock"}, i # 1 PROVE FALSE
  BY <1>1 DEF HeadOnly, t
<1>3. i \in DOMAIN s /\ s[i] = t[i]
  BY <1>1, <1>2
<1> QED
  BY <1>2, <1>3 DEF HeadOnly

LEMMA ProcessesInOrder ==
    ASSUME NEW process \in Processes
    PROVE  /\ ~Spawns(process) /\ HeadOnly(process)
           /\ Head(process).do \notin {"send", "stock"}
BY DEF Processes, SwitchSession, HomeSession, Prepare, Step, Spawns, HeadOnly

LEMMA BringupInOrder == HeadOnly(Bringup) /\ HeadOnly(<<>>)
BY DEF Bringup, Step, HeadOnly
-----------------------------------------------------------------------------
LEMMA InitMInv == ASSUME OrderlyStart PROVE Init => MInv
<1> SUFFICES ASSUME Init PROVE MInv
  OBVIOUS
<1>1. \A op \in Operators : Spawns(todo[op]) => op = Launcher /\ todo[op] = Bringup
  BY BringupSteps DEF Init
<1>2. late = None /\ moving = None /\ crossed = FALSE /\ \A op \in Operators : request[op] = None
  BY DEF Init
<1>3. \A op \in Operators : ~InStock(op) /\ HeadOnly(todo[op])
  BY BringupSteps, BringupInOrder DEF Init, InStock
<1>4. BootsAlone
  BY <1>1, <1>2, <1>3 DEF BootsAlone, Booting, OrderlyStart, Init
<1>5. Remembered
  BY <1>2, <1>3 DEF Remembered, Crossing
<1>6. InOrder
  BY <1>2, <1>3 DEF InOrder, NeverUnheldPair, MixedIsIdle, StockFindsArmed, OrderlyStart, Init
<1> QED
  BY <1>1, <1>2, <1>3, <1>4, <1>5, <1>6
     DEF MInv, MovesByTrajectory, RequestsShaped, SpawnerInOrder, HeadsOnly

-----------------------------------------------------------------------------
(***************************************************************************)
(* How a step changes what an operator does, what it asks for and what it  *)
(* leaves behind.                                                          *)
(***************************************************************************)
Stays(op) == todo'[op] = todo[op] /\ request'[op] = request[op]

(* A process ends, begins, goes on, or puts a step before the next one: to *)
(* send a goal if move_to_home's check held, to call crisp_py's switcher   *)
(* if the passthrough had the position command.                            *)
Inserts(op, step) ==
    /\ todo'[op] = <<step>> \o Tail(todo[op])
    /\ active' = active
    /\ \/ step.do \in {"switch", "arrive"}
       \/ /\ step.do = "stock" /\ step.to # ZERO_EFFORT
          /\ PASSTHROUGH \in active /\ TRAJECTORY \notin active
       \/ step.do = "send" /\ MayMove

Goes(op) ==
    \/ todo'[op] = todo[op]
    \/ todo'[op] = <<>>
    \/ todo'[op] \in Processes
    \/ todo[op] # <<>> /\ todo'[op] = Tail(todo[op])
    \/ /\ todo[op] # <<>> /\ Head(todo[op]).do # "spawn"
       /\ \E step \in Steps : Inserts(op, step)

(* A request is kept with the step that waits for it, or newly put.        *)
Asks(op) == request'[op] # None => Stays(op) \/ Shaped(op)'

LeavesBehind ==
    \/ late' = late
    \/ late' = None
    \/ \E op \in Operators : /\ request[op] # None /\ late' = request[op]
                             /\ todo'[op] = <<>>

Proceeds == LeavesBehind /\ \A op \in Operators : Goes(op) /\ Asks(op)

LEMMA OneProceeds ==
    ASSUME LeavesBehind, NEW op \in Operators, Goes(op), Asks(op),
           \A other \in Operators \ {op} : Stays(other)
    PROVE  Proceeds
BY DEF Proceeds, Stays, Goes, Asks

LEMMA EndsProceeds ==
    ASSUME IInv, NEW op \in Operators, Ends(op),
           late' = late \/ (request[op] # None /\ late' = request[op])
    PROVE  Proceeds
<1>1. todo'[op] = <<>> /\ request'[op] = None /\ \A other \in Operators \ {op} : Stays(other)
  BY DEF Ends, Stays, IInv, StateOK
<1> QED
  BY <1>1, OneProceeds DEF Goes, Asks, LeavesBehind

(* A process takes its next step without asking for anything.              *)
LEMMA StepProceeds ==
    ASSUME IInv, NEW op \in Operators, todo[op] # <<>>, request[op] = None,
           Head(todo[op]).do # "spawn",
           UNCHANGED <<request, late>>,
           \/ Advance(op)
           \/ \E step \in Steps :
                 /\ Instead(op, step) /\ active' = active
                 /\ \/ step.do \in {"switch", "arrive"}
                    \/ /\ step.do = "stock" /\ step.to # ZERO_EFFORT
                       /\ PASSTHROUGH \in active /\ TRAJECTORY \notin active
                    \/ step.do = "send" /\ MayMove
    PROVE  Proceeds
<1>1. \A other \in Operators \ {op} : Stays(other)
  BY DEF Advance, Instead, Stays, IInv, StateOK
<1>2. Goes(op)
  <2>1. CASE Advance(op)
    BY <2>1 DEF Goes, Advance, IInv, StateOK
  <2>2. CASE ~Advance(op)
    BY <2>2 DEF Goes, Instead, Inserts, IInv, StateOK
  <2> QED
    BY <2>1, <2>2
<1> QED
  BY <1>1, <1>2, OneProceeds DEF Asks, LeavesBehind

(* A request is put; the step that asked for it stays, or becomes "send".  *)
LEMMA AskProceeds ==
    ASSUME IInv, NEW op \in Operators, todo[op] # <<>>, Head(todo[op]).do # "spawn",
           NEW asked, Ask(op, asked), UNCHANGED <<active, late>>,
           \/ UNCHANGED todo
           \/ Instead(op, Step("send", None)) /\ MayMove,
           \/ Swapping(asked) /\ InStock(op)'
           \/ /\ ~InStock(op)'
              /\ \/ Arming(asked) \/ Disarming(asked)
                 \/ Handing(asked) /\ crossed'
    PROVE  Proceeds
<1>1. /\ request'[op] = asked
      /\ \A other \in Operators \ {op} : Stays(other)
  BY DEF Ask, Instead, Stays, IInv, StateOK
<1>2. Step("send", None) \in Steps /\ Step("send", None).do = "send"
  BY StepTyped
<1>3. Goes(op)
  BY <1>2 DEF Goes, Instead, Inserts, IInv, StateOK
<1>4. Asks(op)
  BY <1>1 DEF Asks, Shaped
<1> QED
  BY <1>1, <1>3, <1>4, OneProceeds DEF LeavesBehind

LEMMA SafeSwitchProceeds ==
    ASSUME IInv, NEW op \in Operators, SafeSwitch(op)
    PROVE  Proceeds
<1> DEFINE name == Head(todo[op]).to
<1>1. /\ todo[op] # <<>> /\ request[op] = None
      /\ Head(todo[op]) \in Steps /\ Head(todo[op]).do = "switch" /\ name \in Controllers
  <2>1. todo[op] # <<>> /\ request[op] = None /\ Head(todo[op]).do = "switch"
    BY DEF SafeSwitch, At
  <2>2. Head(todo[op]) \in Steps
    BY <2>1, TailTyped DEF IInv, StateOK
  <2> QED
    BY <2>1, <2>2 DEF Steps
<1>2. todo' = todo => ~InStock(op)'
  BY <1>1 DEF InStock
<1>3. CASE Arm(op, name)
  <2>1. Arming([kind |-> "strict", activate |-> {PASSTHROUGH, name},
                deactivate |-> {TRAJECTORY, ZERO_EFFORT}])
    BY <1>3, Distinct DEF Arm, Arming
  <2> QED
    BY <1>1, <1>2, <1>3, <2>1, AskProceeds DEF Arm, AskStrict
<1>4. CASE AlreadyAtRest(op, name)
  BY <1>1, <1>4, StepProceeds DEF AlreadyAtRest
<1>5. CASE Disarm(op, name)
  <2>1. Disarming([kind |-> "strict", activate |-> {TRAJECTORY, ZERO_EFFORT},
                   deactivate |-> {PASSTHROUGH} \cup (Overlays \cap active)])
    BY Distinct DEF Disarming
  <2> QED
    BY <1>1, <1>2, <1>5, <2>1, AskProceeds DEF Disarm, AskStrict
<1>6. CASE Swap(op, name)
  <2>1. /\ Step("stock", name) \in Steps /\ Step("stock", name).do = "stock"
        /\ Step("stock", name).to = name
    BY <1>1, StepTyped DEF Step
  <2> QED
    BY <1>1, <1>6, <2>1, StepProceeds DEF Swap
<1>7. CASE Refuse(op, name)
  BY <1>7, EndsProceeds DEF Refuse, Raises
<1> QED
  BY <1>3, <1>4, <1>5, <1>6, <1>7 DEF SafeSwitch

(* The target of crisp_py's switcher is never zero effort: safe_switch     *)
(* leaves it every other name.                                             *)
LEMMA AskStockProceeds ==
    ASSUME IInv, MInv, NEW op \in Operators, AskStock(op)
    PROVE  Proceeds
<1> DEFINE asked == StockRequest(Head(todo[op]).to, active)
<1>0. Head(todo[op]).to # ZERO_EFFORT
  <2>1. todo[op] \in Seq(Steps) /\ todo[op] # <<>> /\ Head(todo[op]).do = "stock"
    BY DEF AskStock, At, IInv, StateOK
  <2>2. 1 \in DOMAIN todo[op] /\ Head(todo[op]) = todo[op][1]
    BY <2>1
  <2> QED
    BY <2>1, <2>2 DEF MInv, HeadsOnly, HeadOnly
<1>1. Swapping(asked)
  BY <1>0, Distinct DEF Swapping, StockRequest, HOLD_ACTIVE
<1>2. /\ todo[op] # <<>> /\ Head(todo[op]).do = "stock" /\ Ask(op, asked)
      /\ UNCHANGED <<active, todo, late>>
  BY DEF AskStock, At
<1>3. InStock(op)'
  BY <1>2 DEF InStock
<1> HIDE DEF asked
<1> QED
  BY <1>1, <1>2, <1>3, AskProceeds

(* move_to_home takes the position command over only from the pair that    *)
(* holds nothing.                                                          *)
LEMMA MoveProceeds ==
    ASSUME IInv, MInv, crossed => crossed', NEW op \in Operators,
           BeginMove(op) \/ RefuseMove(op) \/ SendGoal(op) \/ GoalLost(op)
    PROVE  Proceeds
<1>1. /\ Step("send", None) \in Steps /\ Step("arrive", None) \in Steps
      /\ Step("send", None).do = "send" /\ Step("arrive", None).do = "arrive"
  BY StepTyped
<1>2. CASE BeginMove(op) /\ TRAJECTORY \in active
  BY <1>1, <1>2, StepProceeds DEF BeginMove, At
<1>3. CASE BeginMove(op) /\ TRAJECTORY \notin active
  <2>1. /\ todo[op] # <<>> /\ Head(todo[op]).do = "move" /\ MayMove
        /\ Instead(op, Step("send", None)) /\ UNCHANGED <<active, late>>
        /\ Ask(op, [kind |-> "strict", activate |-> {TRAJECTORY}, deactivate |-> {PASSTHROUGH}])
    BY <1>3 DEF BeginMove, At, AskStrict
  <2>2. crossed'
    BY <1>3, <2>1 DEF MayMove, PositionOwners, MInv, InOrder, NeverUnheldPair
  <2>3. Handing([kind |-> "strict", activate |-> {TRAJECTORY}, deactivate |-> {PASSTHROUGH}])
    BY DEF Handing
  <2>4. todo'[op] = <<Step("send", None)>> \o Tail(todo[op])
    BY <2>1 DEF Instead, IInv, StateOK
  <2>5. ~InStock(op)'
    BY <1>1, <2>1, <2>4, InsteadTyped DEF InStock, IInv, StateOK
  <2> QED
    BY <2>1, <2>2, <2>3, <2>5, AskProceeds
<1>4. CASE SendGoal(op)
  BY <1>1, <1>4, StepProceeds DEF SendGoal, At
<1>5. CASE RefuseMove(op)
  BY <1>5, EndsProceeds DEF RefuseMove, Raises
<1>6. CASE GoalLost(op)
  BY <1>6, StepProceeds, EndsProceeds DEF GoalLost, At, Raises
<1> QED
  BY <1>2, <1>3, <1>4, <1>5, <1>6

LEMMA SpawnProceeds ==
    ASSUME IInv, MInv, NEW op \in Operators, Spawn(op)
    PROVE  Proceeds
<1> DEFINE asked == [kind |-> "strict", activate |-> {Head(todo[op]).to}, deactivate |-> {}]
<1>1. /\ todo[op] # <<>> /\ Head(todo[op]).do = "spawn" /\ todo[op] \in Seq(Steps)
      /\ Ask(op, asked) /\ UNCHANGED <<active, todo, late>>
  BY DEF Spawn, At, AskStrict, IInv, StateOK
<1>2. Spawns(todo[op])
  <2>1. todo[op][1].do = "spawn" /\ 1 \in DOMAIN todo[op]
    BY <1>1
  <2> QED
    BY <2>1 DEF Spawns
<1>3. Head(todo[op]).to \in {TRAJECTORY, ZERO_EFFORT}
  BY <1>2, BringupSteps DEF MInv, SpawnerInOrder
<1>4. Spawning(asked) /\ asked.activate = {Head(todo[op]).to}
  BY <1>3 DEF Spawning
<1>5. request'[op] = asked /\ \A other \in Operators \ {op} : Stays(other)
  BY <1>1 DEF Ask, Stays, IInv, StateOK
<1> HIDE DEF asked
<1>6. Goes(op) /\ Asks(op)
  BY <1>1, <1>2, <1>4, <1>5 DEF Goes, Asks, Shaped, InStock
<1> QED
  BY <1>1, <1>5, <1>6, OneProceeds DEF LeavesBehind

(* A served request: its process goes on or ends.                          *)
LEMMA AnsweredProceeds ==
    ASSUME IInv, NEW op \in Operators, request[op] # None, Answered(op), late' = late
    PROVE  Proceeds
<1>1. todo[op] # <<>>
  BY DEF IInv, Waiting
<1>2. request'[op] = None /\ \A other \in Operators \ {op} : Stays(other)
  BY DEF Answered, Advance, Stays, IInv, StateOK
<1>3. todo'[op] = todo[op] \/ todo'[op] = Tail(todo[op])
  BY DEF Answered, Advance, IInv, StateOK
<1> QED
  BY <1>1, <1>2, <1>3, OneProceeds DEF Goes, Asks, LeavesBehind

LEMMA ChecksProceed ==
    ASSUME IInv, NEW op \in Operators,
           Gate(op) \/ RestFirst(op) \/ Settle(op) \/ Park(op) \/ Exit(op)
    PROVE  Proceeds
<1>1. Step("switch", ZERO_EFFORT) \in Steps /\ Step("switch", ZERO_EFFORT).do = "switch"
  BY StepTyped DEF Controllers
<1>2. CASE Gate(op) \/ Park(op) \/ Exit(op)
  BY <1>2, StepProceeds, EndsProceeds DEF Gate, Park, Exit, At, Raises
<1>3. CASE RestFirst(op) \/ Settle(op)
  BY <1>1, <1>3, StepProceeds DEF RestFirst, Settle, At
<1> QED
  BY <1>2, <1>3

LEMMA StartProceeds ==
    ASSUME IInv, NEW op \in Operators, NEW process \in Processes, StartProcess(op, process)
    PROVE  Proceeds
<1>1. request[op] = None /\ todo'[op] = process /\ request' = request /\ late' = late
  BY DEF StartProcess, IInv, StateOK, Waiting
<1>2. \A other \in Operators \ {op} : Stays(other)
  BY DEF StartProcess, Stays, IInv, StateOK
<1> QED
  BY <1>1, <1>2, OneProceeds DEF Goes, Asks, LeavesBehind

LEMMA ManagerProceeds ==
    ASSUME IInv, NEW op \in Operators,
           \/ StrictSwitch(op) \/ StrictFails(op) \/ StockSwitch(op)
           \/ TimesOut(op) \/ Interrupted(op)
    PROVE  Proceeds
<1>1. CASE StrictSwitch(op)
  <2>1. request[op] # None /\ late' = late /\ (Answered(op) \/ Ends(op))
    BY <1>1 DEF StrictSwitch
  <2> QED
    BY <2>1, AnsweredProceeds, EndsProceeds
<1>2. CASE StockSwitch(op)
  BY <1>2, AnsweredProceeds DEF StockSwitch
<1>3. CASE StrictFails(op)
  BY <1>3, EndsProceeds DEF StrictFails, Raises
<1>4. CASE TimesOut(op) \/ Interrupted(op)
  BY <1>4, EndsProceeds DEF TimesOut, Interrupted, Abandons
<1> QED
  BY <1>1, <1>2, <1>3, <1>4

LEMMA RestProceeds ==
    ASSUME IInv,
           \/ GoalReached \/ GoalAborts \/ LateSwitch \/ ArmMoves \/ UNCHANGED vars
           \/ \E adapter \in Adapters : AdapterFails(adapter)
    PROVE  Proceeds
<1>1. CASE GoalReached /\ moving # Orphan
  <2>1. moving \in Operators /\ todo[moving] # <<>> /\ Head(todo[moving]).do = "arrive"
        /\ request[moving] = None
    BY <1>1, SwitchAssumption DEF GoalReached, IInv, StateOK, Waiting
  <2> QED
    BY <1>1, <2>1, StepProceeds DEF GoalReached
<1>2. CASE ~(GoalReached /\ moving # Orphan)
  <2>1. UNCHANGED <<todo, request>> /\ (late' = late \/ late' = None)
    BY <1>2 DEF GoalReached, GoalAborts, LateSwitch, ArmMoves, vars, AdapterFails
  <2> QED
    BY <2>1 DEF Proceeds, LeavesBehind, Goes, Asks, Stays
<1> QED
  BY <1>1, <1>2

LEMMA CrossedIsKept == [Next]_vars /\ crossed => crossed'
BY DEF Next, Remembers, vars

LEMMA NextProceeds == IInv /\ MInv /\ [Next]_vars => Proceeds
BY CrossedIsKept, StartProceeds, ChecksProceed, SafeSwitchProceeds, AskStockProceeds, MoveProceeds,
   SpawnProceeds, ManagerProceeds, RestProceeds
   DEF Next, Acts, Operates, Works, GoalEnds

-----------------------------------------------------------------------------
(***************************************************************************)
(* What that says of the next step of each operator.                       *)
(***************************************************************************)
LEMMA StepsFollow ==
    ASSUME IInv, MInv, NEW op \in Operators, Goes(op)
    PROVE  /\ HeadOnly(todo'[op])
           /\ Spawns(todo'[op]) =>
                 /\ Spawns(todo[op])
                 /\ todo'[op] = todo[op] \/ todo'[op] = Tail(todo[op])
           /\ InStock(op)' =>
                 \/ InStock(op) /\ todo'[op] = todo[op]
                 \/ active' = active /\ PASSTHROUGH \in active /\ TRAJECTORY \notin active
           /\ AtSend(op)' =>
                 \/ AtSend(op)
                 \/ active' = active /\ MayMove
<1>1. todo[op] \in Seq(Steps) /\ HeadOnly(todo[op])
  BY DEF IInv, StateOK, MInv, HeadsOnly
<1>2. CASE todo'[op] = todo[op]
  BY <1>1, <1>2 DEF InStock, AtSend
<1>3. CASE todo'[op] = <<>>
  BY <1>3, BringupSteps, BringupInOrder DEF InStock, AtSend
<1>4. CASE todo'[op] \in Processes
  BY <1>4, ProcessesInOrder DEF InStock, AtSend
<1>5. CASE todo[op] # <<>> /\ todo'[op] = Tail(todo[op])
  BY <1>1, <1>5, HeadOnlyTail, SpawnsTail DEF InStock, AtSend
<1>6. CASE /\ todo[op] # <<>> /\ Head(todo[op]).do # "spawn"
           /\ \E step \in Steps : Inserts(op, step)
  <2>1. PICK step \in Steps : Inserts(op, step)
    BY <1>6
  <2>2. HeadOnly(todo'[op])
    BY <1>1, <1>6, <2>1, HeadOnlyInstead DEF Inserts
  <2>3. ~Spawns(todo'[op])
    <3>1. step.do # "spawn"
      BY <2>1 DEF Inserts
    <3>2. ~Spawns(todo[op])
      BY <1>6, BringupSteps DEF MInv, SpawnerInOrder
    <3> QED
      BY <1>1, <1>6, <2>1, <3>1, <3>2, SpawnsInstead DEF Inserts
  <2>4. todo'[op] # <<>> /\ Head(todo'[op]) = step
    BY <1>1, <1>6, <2>1, InsteadTyped DEF Inserts
  <2> QED
    BY <2>1, <2>2, <2>3, <2>4 DEF Inserts, InStock, AtSend
<1> QED
  BY <1>2, <1>3, <1>4, <1>5, <1>6 DEF Goes

LEMMA KeepsHeadsOnly == IInv /\ MInv /\ Proceeds => HeadsOnly'
BY StepsFollow DEF Proceeds, HeadsOnly

(* The spawner's request left behind has no spawner any more.              *)
LEMMA SpawnsLeft ==
    ASSUME IInv, MInv, Proceeds, late' # None, Spawning(late')
    PROVE  /\ Booting
           /\ \A op \in Operators : ~Spawns(todo'[op])
<1>1. CASE late' = late
  BY <1>1, StepsFollow DEF MInv, SpawnerInOrder, Booting, Proceeds
<1>2. CASE \E op \in Operators : /\ request[op] # None /\ late' = request[op]
                                 /\ todo'[op] = <<>>
  <2>1. PICK op \in Operators : /\ request[op] # None /\ late' = request[op]
                                /\ todo'[op] = <<>>
    BY <1>2
  <2>2. Spawns(todo[op])
    BY <2>1, FormsDiffer DEF MInv, RequestsShaped, Shaped
  <2>3. op = Launcher /\ \A other \in Operators \ {op} : ~Spawns(todo[other])
    BY <2>2 DEF MInv, SpawnerInOrder
  <2> QED
    BY <2>1, <2>2, <2>3, StepsFollow, BringupSteps DEF Booting, Proceeds
<1> QED
  BY <1>1, <1>2 DEF Proceeds, LeavesBehind

LEMMA KeepsSpawnerInOrder == IInv /\ MInv /\ Proceeds => SpawnerInOrder'
<1> SUFFICES ASSUME IInv, MInv, Proceeds, NEW op \in Operators, Spawns(todo'[op])
             PROVE  /\ op = Launcher
                    /\ todo'[op] = Bringup \/ todo'[op] = Tail(Bringup)
                    /\ late' # None => ~Spawning(late')
  BY DEF SpawnerInOrder
<1>1. Spawns(todo[op]) /\ (todo'[op] = todo[op] \/ todo'[op] = Tail(todo[op]))
  BY StepsFollow DEF Proceeds
<1>2. op = Launcher /\ (todo[op] = Bringup \/ todo[op] = Tail(Bringup))
  BY <1>1 DEF MInv, SpawnerInOrder
<1>3. late' # None => ~Spawning(late')
  BY SpawnsLeft
<1> QED
  BY <1>1, <1>2, <1>3, BringupSteps

LEMMA KeepsBooting == IInv /\ MInv /\ Proceeds /\ Booting' => Booting
<1> SUFFICES ASSUME IInv, MInv, Proceeds, Booting' PROVE Booting
  OBVIOUS
<1>1. CASE \E op \in Operators : Spawns(todo'[op])
  BY <1>1, StepsFollow DEF Booting, Proceeds
<1>2. CASE late' # None /\ Spawning(late')
  BY <1>2, SpawnsLeft
<1> QED
  BY <1>1, <1>2 DEF Booting

LEMMA KeepsRequestsShaped ==
    ASSUME IInv, MInv, Proceeds, crossed => crossed'
    PROVE  RequestsShaped'
<1>1. ASSUME NEW op \in Operators, request'[op] # None
      PROVE  Shaped(op)'
  <2>1. CASE Stays(op)
    BY <1>1, <2>1 DEF Stays, MInv, RequestsShaped, Shaped, InStock
  <2> QED
    BY <1>1, <2>1 DEF Proceeds, Asks
<1>2. ASSUME late' # None
      PROVE  \/ Arming(late') \/ Disarming(late') \/ Spawning(late')
             \/ Swapping(late') \/ (Handing(late') /\ crossed')
  <2>1. CASE late' = late
    BY <1>2, <2>1 DEF MInv, RequestsShaped
  <2>2. ASSUME NEW op \in Operators, request[op] # None, late' = request[op]
        PROVE  \/ Arming(late') \/ Disarming(late') \/ Spawning(late')
               \/ Swapping(late') \/ (Handing(late') /\ crossed')
    <3>1. Shaped(op)
      BY <2>2 DEF MInv, RequestsShaped
    <3>2. \/ Arming(request[op]) \/ Disarming(request[op]) \/ Spawning(request[op])
          \/ Swapping(request[op]) \/ (Handing(request[op]) /\ crossed')
      BY <3>1, Zenon DEF Shaped
    <3> QED
      BY <2>2, <3>2, Zenon
  <2> QED
    BY <1>2, <2>1, <2>2 DEF Proceeds, LeavesBehind
<1> QED
  BY <1>1, <1>2 DEF RequestsShaped

LEMMA KeepsRemembered == MInv /\ [Next]_vars => Remembered'
<1>1. ASSUME MInv, Next PROVE Remembered'
  BY <1>1 DEF Next, Remembers, Remembered, MInv
<1>2. ASSUME MInv, UNCHANGED vars PROVE Remembered'
  BY <1>2 DEF vars, Remembered, Crossing, InStock, MInv
<1> QED
  BY <1>1, <1>2

(* A goal runs on, or is sent with the trajectory controller active.       *)
LEMMA GoalsFollow ==
    ASSUME IInv, MInv, [Next]_vars, moving' # None
    PROVE  /\ TRAJECTORY \in active'
           /\ \/ moving # None
              \/ active' = active /\ \E op \in Operators : AtSend(op)
<1>1. moving # None => TRAJECTORY \in active
  BY DEF MInv, MovesByTrajectory
<1>2. ASSUME NEW set, Becomes(set) PROVE TRAJECTORY \in active' /\ moving # None
  BY <1>2 DEF Becomes
<1>3. ASSUME UNCHANGED <<active, moving>> PROVE TRAJECTORY \in active' /\ moving # None
  BY <1>1, <1>3
<1>4. ASSUME NEW op \in Operators, NEW process, StartProcess(op, process)
      PROVE  UNCHANGED <<active, moving>>
  BY <1>4 DEF StartProcess
<1>5. ASSUME NEW op \in Operators,
             \/ Spawn(op) \/ Gate(op) \/ RestFirst(op) \/ Settle(op) \/ Park(op) \/ Exit(op)
             \/ SafeSwitch(op) \/ AskStock(op) \/ BeginMove(op) \/ RefuseMove(op)
             \/ GoalLost(op) \/ StrictFails(op) \/ TimesOut(op)
      PROVE  UNCHANGED <<active, moving>>
  BY <1>5 DEF Spawn, Gate, RestFirst, Settle, Park, Exit, SafeSwitch, Arm, AlreadyAtRest,
              Disarm, Swap, Refuse, AskStock, BeginMove, RefuseMove, GoalLost, StrictFails,
              TimesOut, Raises
<1>6. ASSUME NEW op \in Operators, SendGoal(op)
      PROVE  /\ TRAJECTORY \in active' \/ UNCHANGED <<active, moving>>
             /\ active' = active /\ AtSend(op)
  BY <1>6 DEF SendGoal, At, AtSend
<1>7. ASSUME NEW op \in Operators, Interrupted(op) PROVE active' = active /\ moving # None
  BY <1>7, SwitchAssumption DEF Interrupted
<1>8. ASSUME NEW op \in Operators, StrictSwitch(op) \/ StockSwitch(op)
      PROVE  \E set : Becomes(set)
  BY <1>8 DEF StrictSwitch, StockSwitch
<1>9. LateSwitch => \E set : Becomes(set)
  BY DEF LateSwitch
<1>10. ~GoalReached /\ ~GoalAborts
  BY DEF GoalReached, GoalAborts
<1>11. ASSUME NEW adapter \in Adapters, AdapterFails(adapter)
       PROVE  TRAJECTORY \in active' /\ moving # None
  BY <1>1, <1>11, Distinct DEF AdapterFails, Adapters
<1>12. ArmMoves \/ UNCHANGED vars => UNCHANGED <<active, moving>>
  BY DEF ArmMoves, vars
<1>13. ASSUME NEW op \in Operators, Works(op)
       PROVE  /\ TRAJECTORY \in active'
              /\ \/ moving # None
                 \/ active' = active /\ \E o \in Operators : AtSend(o)
  BY <1>2, <1>3, <1>5, <1>6, <1>8, <1>13 DEF Works
<1> QED
  BY <1>1, <1>2, <1>3, <1>4, <1>5, <1>7, <1>9, <1>10, <1>11, <1>12, <1>13
     DEF Next, Acts, Operates, GoalEnds

-----------------------------------------------------------------------------
(***************************************************************************)
(* What a step changes of the active set.                                  *)
(***************************************************************************)
(* A STRICT request r is served, wholly but for adapters that fail.        *)
ServedStrict(r) ==
    /\ r \in Request /\ r.kind = "strict" /\ Feasible(r, active)
    /\ \E failed \in FailedActivations(r) : Becomes(Granted(r, active) \ failed)
    /\ \/ Arming(r) \/ Disarming(r) \/ (Handing(r) /\ crossed)
       \/ Spawning(r) /\ active \subseteq {WRENCH, TRAJECTORY}

(* A request of crisp_py's switcher is, on an armed arm if it is alone.    *)
ServedStock(r) ==
    /\ r \in Request /\ Swapping(r)
    /\ \E outcome \in StockOutcomes(r, active) : Becomes(outcome)
    /\ ~Booting
    /\ ~crossed => /\ {TRAJECTORY, ZERO_EFFORT} \cap active = {}
                   /\ moving = None /\ \A op \in Operators : ~AtSend(op)

Drops(adapter) ==
    /\ adapter \in active /\ active' = active \ {adapter}
    /\ UNCHANGED <<moving, todo, request, late>>

LEMMA StrictServesOperator ==
    ASSUME IInv, MInv, NEW op \in Operators, StrictSwitch(op)
    PROVE  /\ ServedStrict(request[op]) /\ ~InStock(op)
           /\ late' = late /\ todo[op] # <<>> /\ request'[op] = None
           /\ Spawning(request[op]) =>
                 /\ request[op].activate = {Head(todo[op]).to} /\ Spawns(todo[op])
                 /\ todo'[op] = <<>> \/ todo'[op] = Tail(todo[op])
<1>1. /\ request[op] \in Request /\ request[op] # None /\ request[op].kind = "strict"
      /\ Feasible(request[op], active) /\ late' = late /\ todo[op] # <<>>
  BY DEF StrictSwitch, IInv, StateOK, Waiting
<1>2. \E failed \in FailedActivations(request[op]) :
          Becomes(Granted(request[op], active) \ failed)
  BY DEF StrictSwitch
<1>3. Shaped(op)
  BY <1>1 DEF MInv, RequestsShaped
<1>4. /\ ~InStock(op)
      /\ \/ Arming(request[op]) \/ Disarming(request[op]) \/ (Handing(request[op]) /\ crossed)
         \/ /\ Spawning(request[op]) /\ Spawns(todo[op])
            /\ request[op].activate = {Head(todo[op]).to}
  <2>1. ~Swapping(request[op])
    BY <1>1 DEF Swapping
  <2> QED
    BY <1>3, <2>1, Zenon DEF Shaped
<1>5. Spawns(todo[op]) => active \subseteq {WRENCH, TRAJECTORY}
  BY DEF MInv, BootsAlone, Booting
<1>6. Answered(op) \/ Ends(op)
  BY DEF StrictSwitch
<1>7. request'[op] = None
  BY <1>6 DEF Answered, Ends, IInv, StateOK
<1>8. Spawns(todo[op]) => todo'[op] = <<>> \/ todo'[op] = Tail(todo[op])
  <2>1. Spawns(todo[op]) => Head(todo[op]).do = "spawn"
    BY BringupSteps DEF MInv, SpawnerInOrder
  <2> QED
    BY <1>6, <2>1 DEF Answered, Advance, Ends, IInv, StateOK
<1> QED
  BY <1>1, <1>2, <1>4, <1>5, <1>7, <1>8, FormsDiffer DEF ServedStrict

LEMMA StockServesOperator ==
    ASSUME IInv, MInv, NEW op \in Operators, StockSwitch(op)
    PROVE  /\ ServedStock(request[op]) /\ InStock(op)
           /\ late' = late /\ todo'[op] = Tail(todo[op])
<1>1. /\ request[op] \in Request /\ request[op] # None /\ request[op].kind = "stock"
      /\ late' = late
      /\ \E outcome \in StockOutcomes(request[op], active) : Becomes(outcome)
  BY DEF StockSwitch, IInv, StateOK
<1>2. Swapping(request[op]) /\ InStock(op)
  BY <1>1 DEF MInv, RequestsShaped, Shaped, Arming, Disarming, Handing, Spawning
<1>3. ~Booting
  BY <1>2 DEF MInv, BootsAlone
<1>4. ASSUME ~crossed
      PROVE  /\ {TRAJECTORY, ZERO_EFFORT} \cap active = {}
             /\ moving = None /\ \A o \in Operators : ~AtSend(o)
  <2>1. ~Crossing
    BY <1>4 DEF MInv, Remembered
  <2>2. moving = None /\ \A o \in Operators \ {op} : todo[o] = <<>>
    BY <1>2, <2>1 DEF Crossing
  <2>3. {TRAJECTORY, ZERO_EFFORT} \cap active = {}
    BY <1>2, <1>4 DEF MInv, InOrder, StockFindsArmed
  <2> QED
    BY <1>2, <2>2, <2>3 DEF InStock, AtSend
<1>5. todo'[op] = Tail(todo[op])
  BY <1>2 DEF StockSwitch, Answered, Advance, InStock, IInv, StateOK
<1> QED
  BY <1>1, <1>2, <1>3, <1>4, <1>5 DEF ServedStock

LEMMA LateServes ==
    ASSUME IInv, MInv, LateSwitch, active' # active
    PROVE  /\ ServedStrict(late) \/ ServedStock(late)
           /\ late # None /\ late' = None /\ UNCHANGED <<todo, request>>
<1>1. /\ late # None /\ late \in Request /\ late' = None /\ UNCHANGED <<todo, request>>
  BY DEF LateSwitch, IInv, StateOK
<1>2. CASE late.kind = "stock"
  <2>1. Swapping(late)
    BY <1>1, <1>2 DEF MInv, RequestsShaped, Arming, Disarming, Handing, Spawning
  <2>2. ~Booting
    BY <1>1, <2>1 DEF MInv, BootsAlone
  <2>3. ASSUME ~crossed
        PROVE  /\ {TRAJECTORY, ZERO_EFFORT} \cap active = {}
               /\ moving = None /\ \A o \in Operators : ~AtSend(o)
    <3>1. moving = None /\ \A o \in Operators : todo[o] = <<>>
      BY <1>1, <1>2, <2>3 DEF MInv, Remembered, Crossing
    <3> QED
      BY <1>1, <1>2, <2>3, <3>1 DEF MInv, InOrder, StockFindsArmed, AtSend
  <2>4. \E outcome \in StockOutcomes(late, active) : Becomes(outcome)
    BY <1>2 DEF LateSwitch
  <2> QED
    BY <1>1, <2>1, <2>2, <2>3, <2>4 DEF ServedStock
<1>3. CASE late.kind # "stock"
  <2>1. Feasible(late, active)
    BY <1>3 DEF LateSwitch, Becomes
  <2>2. \E failed \in FailedActivations(late) : Becomes(Granted(late, active) \ failed)
    BY <1>3, <2>1 DEF LateSwitch
  <2>3. late.kind = "strict" /\ ~Swapping(late)
    BY <1>1, <1>3 DEF Request, Swapping
  <2>4. Spawning(late) => active \subseteq {WRENCH, TRAJECTORY}
    BY <1>1 DEF MInv, BootsAlone, Booting
  <2>5. \/ Arming(late) \/ Disarming(late) \/ (Handing(late) /\ crossed)
        \/ Spawning(late) /\ active \subseteq {WRENCH, TRAJECTORY}
    BY <1>1, <2>3, <2>4, Zenon DEF MInv, RequestsShaped
  <2> QED
    BY <1>1, <2>1, <2>2, <2>3, <2>5, Zenon DEF ServedStrict
<1> QED
  BY <1>1, <1>2, <1>3

LEMMA HowActiveChanges ==
    ASSUME IInv, MInv, [Next]_vars, active' # active
    PROVE  \/ \E op \in Operators : StrictSwitch(op) \/ StockSwitch(op)
           \/ LateSwitch
           \/ \E adapter \in {PASSTHROUGH, ZERO_EFFORT} : Drops(adapter)
BY OnlyServicesSwitch DEF AdapterFails, Adapters, Drops

(* What of it is in order, whatever was active.                            *)
LEMMA StrictLeavesOrder ==
    ASSUME IInv, NEW r, ServedStrict(r), ~crossed
    PROVE  /\ TRAJECTORY \in active' => Overlays \cap active' = {}
           /\ ~({PASSTHROUGH, ZERO_EFFORT} \subseteq active')
BY GrantedIsOrderly DEF ServedStrict, Becomes, IInv, StateOK

LEMMA StockLeavesOrder ==
    ASSUME IInv, NEW r, ServedStock(r), ~crossed
    PROVE  moving' = None /\ ZERO_EFFORT \notin active'
BY StockKeepsPassthrough DEF ServedStock, Becomes, IInv, StateOK

-----------------------------------------------------------------------------
LEMMA KeepsMovesByTrajectory == IInv /\ MInv /\ [Next]_vars => MovesByTrajectory'
BY GoalsFollow DEF MovesByTrajectory

(* The last spawn that is served has no spawner after it.                  *)
LEMMA SpawnKeepsBare ==
    ASSUME IInv, MInv, Proceeds, NEW op \in Operators, StrictSwitch(op), Booting'
    PROVE  active' \subseteq {WRENCH, TRAJECTORY}
<1> DEFINE r == request[op]
<1>1. Booting /\ active \subseteq {WRENCH, TRAJECTORY}
  BY KeepsBooting DEF MInv, BootsAlone
<1>2. /\ ServedStrict(r) /\ late' = late
      /\ Spawning(r) => /\ r.activate = {Head(todo[op]).to} /\ Spawns(todo[op])
                        /\ todo'[op] = <<>> \/ todo'[op] = Tail(todo[op])
  BY StrictServesOperator
<1>3. Spawning(r)
  BY <1>1, <1>2, BootingServesSpawnsOnly DEF ServedStrict
<1>4. /\ op = Launcher /\ (todo[op] = Bringup \/ todo[op] = Tail(Bringup))
      /\ late # None => ~Spawning(late)
      /\ \A other \in Operators \ {op} : ~Spawns(todo[other])
  BY <1>2, <1>3 DEF MInv, SpawnerInOrder
<1>5. Spawns(todo'[op])
  <2>1. \A other \in Operators \ {op} : ~Spawns(todo'[other])
    BY <1>4, StepsFollow DEF Proceeds
  <2> QED
    BY <1>2, <1>4, <2>1 DEF Booting
<1>6. todo[op] = Bringup
  BY <1>2, <1>3, <1>4, <1>5, BringupSteps
<1>7. r.activate = {TRAJECTORY}
  BY <1>2, <1>3, <1>6, BringupSteps
<1>8. \E failed : active' = Granted(r, active) \ failed
  BY <1>2 DEF ServedStrict, Becomes
<1> QED
  BY <1>1, <1>3, <1>7, <1>8 DEF Granted, Spawning

LEMMA KeepsBootsAlone ==
    ASSUME IInv, MInv, [Next]_vars, Booting'
    PROVE  /\ active' \subseteq {WRENCH, TRAJECTORY}
           /\ \A op \in Operators : ~InStock(op)'
           /\ late' # None => ~Swapping(late')
<1>1. Proceeds
  BY NextProceeds
<1>2. /\ Booting /\ active \subseteq {WRENCH, TRAJECTORY}
      /\ \A op \in Operators : ~InStock(op)
      /\ late # None => ~Swapping(late)
  BY <1>1, KeepsBooting DEF MInv, BootsAlone
<1>3. active' \subseteq {WRENCH, TRAJECTORY}
  <2>1. ASSUME NEW op \in Operators, StockSwitch(op) PROVE FALSE
    BY <1>2, <2>1, StockServesOperator
  <2>2. ASSUME LateSwitch, active' # active PROVE FALSE
    <3>1. /\ ServedStrict(late) \/ ServedStock(late)
          /\ late # None /\ late' = None /\ todo' = todo
      BY <2>2, LateServes
    <3>2. ServedStrict(late)
      BY <1>2, <3>1 DEF ServedStock
    <3>3. Spawning(late)
      BY <1>2, <3>2, BootingServesSpawnsOnly DEF ServedStrict
    <3>4. \A op \in Operators : ~Spawns(todo'[op])
      BY <3>1, <3>3 DEF MInv, SpawnerInOrder
    <3> QED
      BY <3>1, <3>4 DEF Booting
  <2>3. CASE active' # active
    BY <1>1, <1>2, <2>1, <2>2, <2>3, HowActiveChanges, SpawnKeepsBare DEF Drops
  <2> QED
    BY <1>2, <2>3
<1>4. \A op \in Operators : ~InStock(op)'
  BY <1>1, <1>2, Distinct, StepsFollow DEF Proceeds
<1>5. late' # None => ~Swapping(late')
  <2>1. ASSUME NEW op \in Operators, request[op] # None, Swapping(request[op]) PROVE FALSE
    <3>1. Shaped(op)
      BY <2>1 DEF MInv, RequestsShaped
    <3> QED
      BY <1>2, <2>1, <3>1, FormsDiffer, Zenon DEF Shaped
  <2> QED
    BY <1>1, <1>2, <2>1 DEF Proceeds, LeavesBehind
<1> QED
  BY <1>3, <1>4, <1>5

-----------------------------------------------------------------------------
LEMMA KeepsNeverUnheldPair ==
    ASSUME IInv, MInv, [Next]_vars, ~crossed
    PROVE  NeverUnheldPair'
<1>1. NeverUnheldPair
  BY DEF MInv, InOrder
<1>2. ASSUME NEW r, ServedStrict(r) \/ ServedStock(r) PROVE NeverUnheldPair'
  BY <1>2, StrictLeavesOrder, StockLeavesOrder DEF NeverUnheldPair
<1>3. CASE active' # active
  BY <1>1, <1>2, <1>3, HowActiveChanges, StrictServesOperator, StockServesOperator, LateServes
     DEF Drops, NeverUnheldPair
<1> QED
  BY <1>1, <1>3 DEF NeverUnheldPair

LEMMA KeepsMixedIsIdle ==
    ASSUME IInv, MInv, [Next]_vars, ~crossed, TRAJECTORY \in active', Overlays \cap active' # {}
    PROVE  moving' = None /\ \A op \in Operators : ~AtSend(op)'
<1>1. Proceeds
  BY NextProceeds
<1>2. ASSUME NEW r, ServedStrict(r) PROVE FALSE
  BY <1>2, StrictLeavesOrder
<1>3. ASSUME active' # active, NEW r, ServedStock(r)
      PROVE  moving' = None /\ \A op \in Operators : ~AtSend(op)'
  BY <1>1, <1>3, StockLeavesOrder, StepsFollow DEF ServedStock, Proceeds
<1>4. ASSUME TRAJECTORY \in active, Overlays \cap active # {}
      PROVE  moving = None /\ \A op \in Operators : ~AtSend(op)
  BY <1>4 DEF MInv, InOrder, MixedIsIdle
<1>5. ASSUME NEW adapter \in {PASSTHROUGH, ZERO_EFFORT}, Drops(adapter)
      PROVE  moving' = None /\ \A op \in Operators : ~AtSend(op)'
  BY <1>4, <1>5 DEF Drops, AtSend
<1>6. CASE active' # active
  BY <1>2, <1>3, <1>5, <1>6, HowActiveChanges, StrictServesOperator, StockServesOperator, LateServes
<1>7. CASE active' = active
  <2>1. moving = None /\ \A op \in Operators : ~AtSend(op)
    BY <1>4, <1>7
  <2>2. moving' = None
    BY <2>1, GoalsFollow
  <2>3. \A op \in Operators : ~AtSend(op)'
    BY <1>1, <1>7, <2>1, StepsFollow DEF Proceeds, MayMove
  <2> QED
    BY <2>2, <2>3
<1> QED
  BY <1>6, <1>7

(* Alone, the switcher is called on an armed arm, and what is armed stays  *)
(* so until its request is served.                                         *)
LEMMA KeepsStockFindsArmed ==
    ASSUME IInv, MInv, [Next]_vars, ~crossed'
    PROVE  StockFindsArmed'
<1>1. Proceeds /\ ~crossed /\ Remembered'
  BY NextProceeds, CrossedIsKept, KeepsRemembered
<1>2. ASSUME NEW op \in Operators, InStock(op)
      PROVE  /\ {TRAJECTORY, ZERO_EFFORT} \cap active = {}
             /\ late = None /\ \A other \in Operators \ {op} : request[other] = None
  <2>1. ~Crossing
    BY <1>1 DEF MInv, Remembered
  <2> QED
    BY <1>1, <1>2, <2>1 DEF Crossing, MInv, InOrder, StockFindsArmed, IInv, Waiting
<1>3. ASSUME NEW op \in Operators, InStock(op)'
      PROVE  {TRAJECTORY, ZERO_EFFORT} \cap active' = {}
  <2>1. \/ InStock(op) /\ todo'[op] = todo[op]
        \/ active' = active /\ PASSTHROUGH \in active /\ TRAJECTORY \notin active
    BY <1>1, <1>3, StepsFollow DEF Proceeds
  <2>2. CASE active' = active
    BY <1>1, <1>2, <2>1, <2>2 DEF MInv, InOrder, NeverUnheldPair
  <2>3. CASE active' # active
    <3>1. /\ InStock(op) /\ {TRAJECTORY, ZERO_EFFORT} \cap active = {} /\ late = None
          /\ \A other \in Operators \ {op} : request[other] = None
      BY <1>2, <2>1, <2>3
    <3>2. ~LateSwitch
      BY <3>1 DEF LateSwitch
    <3>3. ASSUME NEW other \in Operators, StrictSwitch(other) PROVE FALSE
      BY <3>1, <3>3, StrictServesOperator DEF StrictSwitch
    <3>4. ASSUME NEW other \in Operators, StockSwitch(other) PROVE FALSE
      <4>1. other = op /\ todo'[op] = Tail(todo[op]) /\ todo[op] # <<>> /\ todo[op] \in Seq(Steps)
        BY <3>1, <3>4, StockServesOperator DEF StockSwitch, InStock, IInv, StateOK
      <4> QED
        BY <1>3, <4>1, HeadOnlyTail DEF InStock, MInv, HeadsOnly
    <3> QED
      BY <2>3, <3>1, <3>2, <3>3, <3>4, HowActiveChanges DEF Drops
  <2> QED
    BY <2>2, <2>3
<1>4. ASSUME late' # None, late'.kind = "stock"
      PROVE  {TRAJECTORY, ZERO_EFFORT} \cap active' = {}
  <2>1. CASE late' = late
    <3>1. \A op \in Operators : request[op] = None
      BY <1>1, <1>4, <2>1 DEF MInv, Remembered, Crossing, IInv, Waiting
    <3>2. {TRAJECTORY, ZERO_EFFORT} \cap active = {}
      BY <1>1, <1>4, <2>1 DEF MInv, InOrder, StockFindsArmed
    <3>3. active' # active => \E adapter \in {PASSTHROUGH, ZERO_EFFORT} : Drops(adapter)
      BY <1>4, <2>1, <3>1, HowActiveChanges DEF StrictSwitch, StockSwitch, LateSwitch
    <3> QED
      BY <3>2, <3>3 DEF Drops
  <2>2. ASSUME NEW op \in Operators, request[op] # None, late' = request[op], late' # late
        PROVE  {TRAJECTORY, ZERO_EFFORT} \cap active' = {}
    <3>1. request[op].kind = "stock"
      BY <1>4, <2>2
    <3>2. ~Arming(request[op]) /\ ~Disarming(request[op]) /\ ~Handing(request[op])
          /\ ~Spawning(request[op])
      BY <3>1 DEF Arming, Disarming, Handing, Spawning
    <3>3. InStock(op)
      BY <2>2, <3>2 DEF MInv, RequestsShaped, Shaped
    <3>4. {TRAJECTORY, ZERO_EFFORT} \cap active = {}
      BY <1>2, <3>3
    <3>5. active' # active => \E adapter \in {PASSTHROUGH, ZERO_EFFORT} : Drops(adapter)
      BY <1>4, <2>2, HowActiveChanges, StrictServesOperator, StockServesOperator DEF LateSwitch
    <3> QED
      BY <3>4, <3>5 DEF Drops
  <2> QED
    BY <1>1, <1>4, <2>1, <2>2 DEF Proceeds, LeavesBehind
<1> QED
  BY <1>3, <1>4 DEF StockFindsArmed

LEMMA KeepsInOrder == IInv /\ MInv /\ [Next]_vars => InOrder'
<1> SUFFICES ASSUME IInv, MInv, [Next]_vars, ~crossed'
             PROVE  NeverUnheldPair' /\ MixedIsIdle' /\ StockFindsArmed'
  BY DEF InOrder
<1>1. ~crossed
  BY CrossedIsKept
<1> QED
  BY <1>1, KeepsNeverUnheldPair, KeepsMixedIsIdle, KeepsStockFindsArmed DEF MixedIsIdle

LEMMA NextKeepsMInv == IInv /\ MInv /\ [Next]_vars => MInv'
<1> SUFFICES ASSUME IInv, MInv, [Next]_vars PROVE MInv'
  OBVIOUS
<1>1. Proceeds /\ (crossed => crossed')
  BY NextProceeds, CrossedIsKept
<1>2. RequestsShaped' /\ HeadsOnly' /\ SpawnerInOrder'
  BY <1>1, KeepsRequestsShaped, KeepsHeadsOnly, KeepsSpawnerInOrder
<1>3. BootsAlone'
  BY KeepsBootsAlone DEF BootsAlone
<1> QED
  BY <1>2, <1>3, KeepsMovesByTrajectory, KeepsRemembered, KeepsInOrder DEF MInv

(* "None of them may be active during a trajectory move": from an orderly  *)
(* start, with the spawner still at work or not, against any number of     *)
(* operators, requests served late, interruptions, failing adapters and    *)
(* crisp_py's switcher, as long as that is used alone.                     *)
THEOREM MoveSafe == ASSUME OrderlyStart PROVE Spec => []NoOverlayDuringMove
<1>1. Init => MInv
  BY InitMInv
<1>2. MInv => NoOverlayDuringMove
  BY DEF MInv, MovesByTrajectory, InOrder, MixedIsIdle, NoOverlayDuringMove
<1> QED
  BY <1>1, <1>2, IInvHolds, NextKeepsMInv, PTL DEF Spec

(* The swap move_to_home asks for before a move never happens: the pair it *)
(* starts from, passthrough and zero effort, is never active again unless  *)
(* crisp_py's switcher is used beside other work.                          *)
Unheld == ~crossed /\ {PASSTHROUGH, ZERO_EFFORT} \subseteq active

THEOREM NeverTheOldRest == ASSUME OrderlyStart PROVE Spec => []~Unheld
<1>1. Init => MInv
  BY InitMInv
<1>2. MInv => ~Unheld
  BY DEF MInv, InOrder, NeverUnheldPair, Unheld
<1> QED
  BY <1>1, <1>2, IInvHolds, NextKeepsMInv, PTL DEF Spec
-----------------------------------------------------------------------------
(***************************************************************************)
(* The cell implements ArmCell: however stale the list a request was       *)
(* decided on, what its service changes is one step of an arm whose        *)
(* position and effort command have one owner each.                        *)
(***************************************************************************)
(* A STRICT service hands both commands over at once, or claims a free one.*)
LEMMA StrictIsOrdered ==
    ASSUME IInv, MInv, NEW r, ServedStrict(r)
    PROVE  Cell!BringUp \/ Cell!Arm \/ Cell!Disarm \/ Cell!TakeOver \/ Cell!Idle
<1>1. PICK failed \in FailedActivations(r) : Becomes(Granted(r, active) \ failed)
  BY DEF ServedStrict
<1> DEFINE granted == (active \ r.deactivate) \cup r.activate
<1>2. /\ active' = granted \ failed
      /\ r.activate \cap active = {} /\ r.deactivate \subseteq active
      /\ Exclusive(active) /\ Exclusive(granted)
      /\ moving # None => TRAJECTORY \in active
      /\ failed \subseteq r.activate /\ failed \subseteq {PASSTHROUGH, ZERO_EFFORT}
  BY <1>1, FailedAreAdapters
     DEF Becomes, Granted, Feasible, ServedStrict, IInv, StateOK, MInv, MovesByTrajectory
<1>3. CASE Arming(r)
  <2>1. /\ TRAJECTORY \in active /\ ZERO_EFFORT \in active
        /\ TRAJECTORY \notin active' /\ Overlays \cap active' # {}
    BY <1>2, <1>3, Distinct DEF Arming
  <2>2. Overlays \cap active = {}
    BY <1>2, <2>1, Distinct DEF Exclusive, EffortOwners
  <2>3. moving' = None
    BY <1>1, <1>2, <2>1 DEF Becomes
  <2> QED
    BY <2>1, <2>2, <2>3 DEF Cell!Arm, PositionOf, EffortOf
<1>4. CASE Disarming(r)
  <2>1. /\ PASSTHROUGH \in active /\ ZERO_EFFORT \notin active /\ TRAJECTORY \notin active
        /\ TRAJECTORY \in active' /\ ZERO_EFFORT \in granted
    BY <1>2, <1>4, Distinct DEF Disarming
  <2>2. Overlays \cap active' = {}
    BY <1>2, <2>1, Distinct DEF Exclusive, EffortOwners
  <2>3. moving' = moving
    BY <1>1, <1>2, <2>1 DEF Becomes
  <2> QED
    BY <2>1, <2>2, <2>3 DEF Cell!Disarm, PositionOf, EffortOf
<1>5. CASE Handing(r) /\ crossed
  <2>1. /\ PASSTHROUGH \in active /\ TRAJECTORY \notin active /\ TRAJECTORY \in active'
        /\ \A c : c \notin {PASSTHROUGH, TRAJECTORY} => (c \in active' <=> c \in active)
    BY <1>2, <1>5, Distinct DEF Handing
  <2>2. moving' = moving
    BY <1>1, <1>2, <2>1 DEF Becomes
  <2>3. EffortOf(active') = EffortOf(active)
    BY <2>1, Distinct DEF EffortOf
  <2> QED
    BY <1>5, <2>1, <2>2, <2>3 DEF Cell!TakeOver, PositionOf
<1>6. CASE Spawning(r) /\ active \subseteq {WRENCH, TRAJECTORY}
  <2>1. /\ PASSTHROUGH \notin active /\ ZERO_EFFORT \notin active /\ Overlays \cap active = {}
    BY <1>6, Distinct
  <2>2. \/ /\ active' = active \cup {TRAJECTORY} /\ TRAJECTORY \notin active
        \/ active' = active \cup {ZERO_EFFORT}
        \/ active' = active
    BY <1>2, <1>6, Distinct DEF Spawning
  <2>3. moving' = moving
    BY <1>1, <1>2, <2>2 DEF Becomes
  <2> QED
    BY <2>1, <2>2, <2>3, Distinct DEF Cell!BringUp, Cell!Idle, PositionOf, EffortOf
<1> QED
  BY <1>3, <1>4, <1>5, <1>6 DEF ServedStrict

(* A stock service never takes the position command from the passthrough   *)
(* and never raises zero effort.                                           *)
LEMMA StockIsOrdered ==
    ASSUME IInv, MInv, NEW r, ServedStock(r)
    PROVE  Cell!Swap
<1>1. PICK outcome \in StockOutcomes(r, active) : Becomes(outcome)
  BY DEF ServedStock
<1>2. /\ active' = outcome /\ Exclusive(outcome) /\ Exclusive(active)
      /\ PASSTHROUGH \in active => PASSTHROUGH \in outcome
      /\ ZERO_EFFORT \notin active => ZERO_EFFORT \notin outcome
      /\ moving # None => TRAJECTORY \in active
  <2>1. /\ r \in Request /\ Swapping(r) /\ active \in SUBSET Controllers /\ Exclusive(active)
        /\ moving # None => TRAJECTORY \in active
    BY DEF ServedStock, IInv, StateOK, MInv, MovesByTrajectory
  <2>2. active' = outcome /\ Exclusive(outcome)
    BY <1>1 DEF Becomes, StockOutcomes
  <2> QED
    BY <2>1, <2>2, StockKeepsPassthrough
<1>3. PASSTHROUGH \in outcome => TRAJECTORY \notin outcome
  BY <1>2, Distinct DEF Exclusive, PositionOwners
<1>4. (moving' # None) = (moving # None /\ TRAJECTORY \in outcome)
  BY <1>1, <1>2 DEF Becomes
<1>5. ZERO_EFFORT \in active => Overlays \cap active = {}
  BY <1>2, Distinct DEF Exclusive, EffortOwners
<1>6. ~crossed => TRAJECTORY \notin active /\ ZERO_EFFORT \notin active
  BY DEF ServedStock
<1>7. /\ PositionOf(active) = "passthrough" => PositionOf(active') = "passthrough"
      /\ EffortOf(active') \in {"overlay", "nobody"} \/ EffortOf(active') = EffortOf(active)
  BY <1>2, <1>3, <1>5 DEF PositionOf, EffortOf
<1>8. (moving' # None) = (moving # None /\ PositionOf(active') = "trajectory")
  BY <1>2, <1>4 DEF PositionOf
<1>9. ~crossed => PositionOf(active) # "trajectory" /\ EffortOf(active) # "zero"
  BY <1>6 DEF PositionOf, EffortOf
<1>10. PositionOf(active') \in {"trajectory", "passthrough", "nobody"}
  BY DEF PositionOf
<1> QED
  BY <1>7, <1>8, <1>9, <1>10 DEF Cell!Swap

(* What changes no controller is a goal that begins or ends, or nothing.   *)
LEMMA QuietIsOrdered ==
    ASSUME IInv, MInv, [Next]_vars, active' = active
    PROVE  Cell!MoveBegins \/ Cell!MoveEnds \/ Cell!Idle
<1>1. UNCHANGED <<PositionOf(active), EffortOf(active)>>
  OBVIOUS
<1>2. CASE moving = None /\ moving' # None
  <2>1. TRAJECTORY \in active /\ \E op \in Operators : AtSend(op)
    BY <1>2, GoalsFollow
  <2>2. ~crossed => Overlays \cap active = {}
    BY <2>1 DEF MInv, InOrder, MixedIsIdle
  <2>3. /\ PositionOf(active) = "trajectory"
        /\ ~crossed => EffortOf(active) # "overlay"
        /\ (moving' # None) = TRUE
    BY <1>2, <2>1, <2>2 DEF PositionOf, EffortOf
  <2>4. Cell!MoveBegins
    BY <1>1, <2>3 DEF Cell!MoveBegins
  <2> QED
    BY <2>4
<1>3. CASE moving' = None
  BY <1>1, <1>3 DEF Cell!MoveEnds
<1>4. CASE moving # None /\ moving' # None
  BY <1>1, <1>4 DEF Cell!Idle
<1> QED
  BY <1>2, <1>3, <1>4

LEMMA FailureIsOrdered ==
    ASSUME IInv, MInv, NEW adapter \in {PASSTHROUGH, ZERO_EFFORT}, Drops(adapter)
    PROVE  Cell!Fail
<1>1. /\ adapter \in active /\ active' = active \ {adapter} /\ moving' = moving
      /\ Exclusive(active)
  BY DEF Drops, IInv, StateOK
<1>2. CASE adapter = PASSTHROUGH
  <2>1. TRAJECTORY \notin active
    BY <1>1, <1>2, Distinct DEF Exclusive, PositionOwners
  <2> QED
    BY <1>1, <1>2, <2>1, Distinct DEF Cell!Fail, PositionOf, EffortOf
<1>3. CASE adapter = ZERO_EFFORT
  <2>1. Overlays \cap active = {}
    BY <1>1, <1>3, Distinct DEF Exclusive, EffortOwners
  <2> QED
    BY <1>1, <1>3, <2>1, Distinct DEF Cell!Fail, PositionOf, EffortOf
<1> QED
  BY <1>2, <1>3

LEMMA InitIsOrdered == ASSUME OrderlyStart PROVE Init => Cell!Init
<1> SUFFICES ASSUME Init PROVE Cell!Init
  OBVIOUS
<1>1. /\ TRAJECTORY \in active => Overlays \cap active = {}
      /\ ~({PASSTHROUGH, ZERO_EFFORT} \subseteq active)
      /\ moving = None /\ crossed = FALSE
  BY DEF OrderlyStart, Init
<1>2. Cell!Orderly
  BY <1>1 DEF PositionOf, EffortOf, Cell!Orderly
<1> QED
  BY <1>1, <1>2 DEF PositionOf, EffortOf, Cell!Init

LEMMA NextIsOrdered == IInv /\ MInv /\ [Next]_vars => [Cell!Next]_(Cell!vars)
<1> SUFFICES ASSUME IInv, MInv, [Next]_vars PROVE Cell!Next
  OBVIOUS
<1>1. crossed' \in BOOLEAN /\ (crossed => crossed')
  BY KeepsRemembered, CrossedIsKept DEF Remembered
<1>2. CASE active' = active
  BY <1>1, <1>2, QuietIsOrdered DEF Cell!Next
<1>3. CASE active' # active
  BY <1>1, <1>3, HowActiveChanges, StrictServesOperator, StockServesOperator, LateServes,
     StrictIsOrdered, StockIsOrdered, FailureIsOrdered DEF Cell!Next
<1> QED
  BY <1>2, <1>3

(* Each command of the arm has one owner or none and both change hands at  *)
(* once, whoever switches: from an orderly start every behaviour of the    *)
(* cell is a behaviour of ArmCell.                                         *)
THEOREM CellKeepsOrder == ASSUME OrderlyStart PROVE Spec => KeepsOrder
<1>1. Init => MInv
  BY InitMInv
<1>2. Init => Cell!Init
  BY InitIsOrdered
<1>3. IInv /\ MInv /\ [Next]_vars => [Cell!Next]_(Cell!vars)
  BY NextIsOrdered
<1> QED
  BY <1>1, <1>2, <1>3, IInvHolds, NextKeepsMInv, PTL DEF Spec, KeepsOrder, Cell!Spec
-----------------------------------------------------------------------------
(***************************************************************************)
(* Homing leaves no stale target behind: as long as operators take turns,  *)
(* an arm held throughout is never pulled to a target a Robot latched      *)
(* before the arm was moved.                                               *)
(***************************************************************************)
(* What a process does after it has moved the arm: set its own target, or  *)
(* end.                                                                    *)
Moves(step) == step.do \in {"move", "send", "arrive"}

ParksAfterMoves(todos) ==
    \A i \in DOMAIN todos : Moves(todos[i]) =>
        i + 1 \in DOMAIN todos /\ todos[i + 1].do \in {"park", "exit"}

Stale(me) == stream[me] # None /\ stream[me] # where

(* A stale target exists only from the end of the goal to the next step of *)
(* the process, with no torque controller active and none asked for.       *)
StaleIsHarmless(me) ==
    Stale(me) => /\ Overlays \cap active = {}
                 /\ request[me] = None
                 /\ todo[me] # <<>> /\ Head(todo[me]).do \in {"arrive", "park", "exit"}

(* Nothing of an earlier process is outstanding.                           *)
NothingLeft(me) == late = None /\ moving \in {None, me}

Turn(me) == /\ StaleIsHarmless(me)
            /\ NothingLeft(me)
            /\ ParksAfterMoves(todo[me])

Busy(op) == todo[op] # <<>> \/ stream[op] # None

(* Whoever runs a process has the turn, and nobody else runs one; what one *)
(* leaves behind is a goal or a request, and neither meets crisp_py's      *)
(* switcher.                                                               *)
OneAtATime ==
    /\ \A op \in Operators : Busy(op) =>
          Turn(op) /\ \A other \in Operators \ {op} : ~Busy(other)
    /\ late # None => moving = None

TurnsTaken == OneAtATime /\ ~crossed

-----------------------------------------------------------------------------
LEMMA ProcessesPark ==
    ASSUME NEW process \in Processes
    PROVE  ParksAfterMoves(process)
BY DEF Processes, SwitchSession, HomeSession, Prepare, Step, ParksAfterMoves, Moves

LEMMA BringupParks == ParksAfterMoves(Bringup) /\ ParksAfterMoves(<<>>)
BY DEF Bringup, Step, ParksAfterMoves, Moves

LEMMA TailParks ==
    ASSUME NEW s \in Seq(Steps), s # <<>>, ParksAfterMoves(s)
    PROVE  ParksAfterMoves(Tail(s))
<1> SUFFICES ASSUME NEW i \in DOMAIN Tail(s), Moves(Tail(s)[i])
             PROVE  /\ i + 1 \in DOMAIN Tail(s)
                    /\ Tail(s)[i + 1].do \in {"park", "exit"}
  BY DEF ParksAfterMoves
<1>1. /\ DOMAIN Tail(s) = 1..(Len(s) - 1) /\ DOMAIN s = 1..Len(s) /\ Len(s) \in Nat
      /\ \A j \in 1..(Len(s) - 1) : Tail(s)[j] = s[j + 1]
  OBVIOUS
<1>2. i \in 1..(Len(s) - 1) /\ i + 1 \in DOMAIN s /\ Moves(s[i + 1])
  BY <1>1
<1>3. (i + 1) + 1 \in DOMAIN s /\ s[(i + 1) + 1].do \in {"park", "exit"}
  BY <1>2 DEF ParksAfterMoves
<1>4. i + 1 \in 1..(Len(s) - 1)
  BY <1>1, <1>2, <1>3
<1> QED
  BY <1>1, <1>3, <1>4

LEMMA NextParks ==
    ASSUME NEW s \in Seq(Steps), s # <<>>, ParksAfterMoves(s), Moves(Head(s))
    PROVE  Tail(s) # <<>> /\ Head(Tail(s)).do \in {"park", "exit"}
<1>1. 1 \in DOMAIN s /\ s[1] = Head(s)
  OBVIOUS
<1>2. 2 \in DOMAIN s /\ s[2].do \in {"park", "exit"}
  BY <1>1 DEF ParksAfterMoves
<1>3. /\ DOMAIN s = 1..Len(s) /\ Len(s) \in Nat
      /\ Tail(s) \in Seq(Steps) /\ Len(Tail(s)) = Len(s) - 1
      /\ \A j \in 1..(Len(s) - 1) : Tail(s)[j] = s[j + 1]
  OBVIOUS
<1>4. Len(Tail(s)) >= 1 /\ Tail(s)[1] = s[2]
  BY <1>2, <1>3
<1>5. Tail(s) # <<>> /\ Head(Tail(s)) = s[2]
  BY <1>3, <1>4
<1> QED
  BY <1>2, <1>5

LEMMA InsteadParks ==
    ASSUME NEW s \in Seq(Steps), s # <<>>, ParksAfterMoves(s), NEW step \in Steps,
           Moves(step) => Moves(Head(s))
    PROVE  ParksAfterMoves(<<step>> \o Tail(s))
<1> DEFINE t == <<step>> \o Tail(s)
<1>1. /\ t \in Seq(Steps) /\ Len(t) = Len(s) /\ t[1] = step
      /\ \A i \in 2..Len(s) : t[i] = s[i]
  OBVIOUS
<1> HIDE DEF t
<1>2. SUFFICES ASSUME NEW i \in DOMAIN t, Moves(t[i])
               PROVE  i + 1 \in DOMAIN t /\ t[i + 1].do \in {"park", "exit"}
  BY DEF ParksAfterMoves, t
<1>3. i \in 1..Len(s) /\ Moves(s[i])
  <2>1. CASE i = 1
    BY <1>1, <1>2, <2>1
  <2>2. CASE i # 1
    BY <1>1, <1>2, <2>2
  <2> QED
    BY <2>1, <2>2
<1>4. i + 1 \in DOMAIN s /\ s[i + 1].do \in {"park", "exit"}
  BY <1>3 DEF ParksAfterMoves
<1> QED
  BY <1>1, <1>3, <1>4
-----------------------------------------------------------------------------
LEMMA InitTurnsTaken == Init => TurnsTaken
<1> SUFFICES ASSUME Init PROVE TurnsTaken
  OBVIOUS
<1>1. /\ stream = [o \in Operators |-> None]
      /\ todo = [o \in Operators |-> IF o = Launcher THEN Bringup ELSE <<>>]
      /\ late = None /\ moving = None /\ ~crossed
  BY DEF Init
<1>2. ASSUME NEW op \in Operators, Busy(op)
      PROVE  Turn(op) /\ \A other \in Operators \ {op} : ~Busy(other)
  <2>1. op = Launcher
    BY <1>1, <1>2 DEF Busy
  <2>2. \A other \in Operators \ {op} : ~Busy(other)
    BY <1>1, <2>1 DEF Busy
  <2> QED
    BY <1>1, <2>2, BringupParks DEF Turn, StaleIsHarmless, Stale, NothingLeft
<1> QED
  BY <1>1, <1>2 DEF TurnsTaken, OneAtATime

(* What a step of the process itself keeps: it goes on, asks or ends while *)
(* the arm stands where it stood.                                          *)
LEMMA GoesOnKeepsTurn ==
    ASSUME IInv, NEW me \in Operators, Turn(me), todo[me] # <<>>,
           UNCHANGED <<active, where, late>>,
           stream' = stream,
           moving' = moving \/ moving' = me,
           \/ Advance(me)
           \/ \E step \in Steps : /\ Instead(me, step)
                                  /\ Moves(step) => Moves(Head(todo[me]))
           \/ UNCHANGED todo,
           Stale(me) => /\ request' = request
                        /\ \/ todo' = todo
                           \/ Advance(me) /\ Moves(Head(todo[me]))
    PROVE  Turn(me)'
<1> USE DEF Turn
<1>1. me \in Operators /\ todo[me] \in Seq(Steps)
  BY DEF IInv, StateOK
<1>2. ParksAfterMoves(todo'[me])
  <2>1. CASE Advance(me)
    <3>1. todo'[me] = Tail(todo[me])
      BY <1>1, <2>1 DEF Advance, IInv, StateOK
    <3> QED
      BY <1>1, <3>1, TailParks
  <2>2. CASE \E step \in Steps : /\ Instead(me, step)
                                 /\ Moves(step) => Moves(Head(todo[me]))
    <3>1. PICK step \in Steps : /\ Instead(me, step)
                                /\ Moves(step) => Moves(Head(todo[me]))
      BY <2>2
    <3>2. todo'[me] = <<step>> \o Tail(todo[me])
      BY <1>1, <3>1 DEF Instead, IInv, StateOK
    <3> QED
      BY <1>1, <3>1, <3>2, InsteadParks
  <2>3. CASE UNCHANGED todo
    BY <2>3
  <2> QED
    BY <2>1, <2>2, <2>3
<1>3. NothingLeft(me)'
  BY DEF NothingLeft
<1>4. Stale(me)' => Stale(me)
  BY DEF Stale
<1>5. StaleIsHarmless(me)'
  <2> SUFFICES ASSUME Stale(me)
               PROVE  todo'[me] # <<>> /\ Head(todo'[me]).do \in {"arrive", "park", "exit"}
    BY <1>4 DEF StaleIsHarmless
  <2>1. CASE todo' = todo
    BY <2>1 DEF StaleIsHarmless
  <2>2. CASE Advance(me) /\ Moves(Head(todo[me]))
    <3>1. todo'[me] = Tail(todo[me])
      BY <1>1, <2>2 DEF Advance, IInv, StateOK
    <3> QED
      BY <1>1, <2>2, <3>1, NextParks
  <2> QED
    BY <2>1, <2>2
<1> QED
  BY <1>2, <1>3, <1>5

LEMMA EndsKeepsTurn ==
    ASSUME IInv, NEW me \in Operators, Turn(me), Ends(me), UNCHANGED <<moving, late>>
    PROVE  Turn(me)'
<1>1. todo'[me] = <<>> /\ stream'[me] = None
  BY DEF Ends, IInv, StateOK
<1> QED
  BY <1>1, BringupParks DEF Turn, StaleIsHarmless, Stale, NothingLeft

LEMMA OperatorKeepsTurn ==
    ASSUME IInv, MInv, NEW me \in Operators, Turn(me),
           \/ Spawn(me) \/ Gate(me) \/ RestFirst(me) \/ Settle(me) \/ Park(me) \/ Exit(me)
           \/ SafeSwitch(me) \/ AskStock(me)
           \/ BeginMove(me) \/ RefuseMove(me) \/ SendGoal(me) \/ GoalLost(me)
           \/ StrictFails(me)
    PROVE  Turn(me)'
<1>1. Stale(me) => /\ request[me] = None /\ todo[me] # <<>>
                   /\ Head(todo[me]).do \in {"arrive", "park", "exit"}
  BY DEF Turn, StaleIsHarmless
<1>2. /\ Step("switch", ZERO_EFFORT) \in Steps /\ ~Moves(Step("switch", ZERO_EFFORT))
      /\ Step("send", None) \in Steps /\ Step("arrive", None) \in Steps
  BY StepTyped DEF Controllers, Moves
<1>4. CASE Gate(me) \/ RestFirst(me) \/ Settle(me)
  BY <1>1, <1>2, <1>4, GoesOnKeepsTurn, EndsKeepsTurn
     DEF Gate, RestFirst, Settle, At, Raises
<1>5. CASE Park(me)
  <2>1. /\ stream'[me] = where' /\ todo'[me] = Tail(todo[me]) /\ todo[me] # <<>>
        /\ UNCHANGED <<moving, late>>
    BY <1>1, <1>5 DEF Park, At, Advance, IInv, StateOK
  <2>2. ParksAfterMoves(todo'[me])
    BY <1>1, <2>1, TailParks DEF Turn, IInv, StateOK
  <2> QED
    BY <2>1, <2>2 DEF Turn, StaleIsHarmless, Stale, NothingLeft
<1>6. CASE Exit(me) \/ RefuseMove(me) \/ StrictFails(me)
  BY <1>6, EndsKeepsTurn DEF Exit, RefuseMove, StrictFails, Raises
<1>7. CASE Spawn(me)
  BY <1>1, <1>7, GoesOnKeepsTurn DEF Spawn, At
<1>8. CASE SafeSwitch(me)
  <2> DEFINE name == Head(todo[me]).to
  <2>1. /\ todo[me] # <<>> /\ request[me] = None /\ ~Stale(me)
        /\ Head(todo[me]) \in Steps /\ Head(todo[me]).do = "switch" /\ name \in Controllers
    <3>1. todo[me] # <<>> /\ request[me] = None /\ Head(todo[me]).do = "switch"
      BY <1>8 DEF SafeSwitch, At
    <3>2. Head(todo[me]) \in Steps
      BY <3>1, TailTyped DEF IInv, StateOK
    <3> QED
      BY <1>1, <3>1, <3>2 DEF Steps
  <2>2. Step("stock", name) \in Steps /\ ~Moves(Step("stock", name))
    BY <2>1, StepTyped DEF Moves
  <2>3. CASE Swap(me, name)
    BY <2>1, <2>2, <2>3, GoesOnKeepsTurn DEF Swap
  <2>4. CASE ~Swap(me, name)
    BY <1>8, <2>1, <2>4, GoesOnKeepsTurn, EndsKeepsTurn
       DEF SafeSwitch, Arm, AlreadyAtRest, Disarm, Refuse, Raises
  <2> QED
    BY <2>3, <2>4
<1>12. CASE AskStock(me)
  BY <1>1, <1>12, GoesOnKeepsTurn DEF AskStock, At
<1>9. CASE BeginMove(me)
  <2>1. Moves(Head(todo[me])) /\ ~Stale(me)
    BY <1>1, <1>9 DEF BeginMove, At, Moves
  <2> QED
    BY <1>1, <1>2, <1>9, <2>1, GoesOnKeepsTurn DEF BeginMove, At
<1>10. CASE SendGoal(me)
  <2>1. Moves(Head(todo[me])) /\ ~Stale(me)
    BY <1>1, <1>10 DEF SendGoal, At, Moves
  <2> QED
    BY <1>1, <1>2, <1>10, <2>1, GoesOnKeepsTurn DEF SendGoal, At
<1>11. CASE GoalLost(me)
  <2>1. Moves(Head(todo[me])) /\ todo[me] # <<>>
    BY <1>11 DEF GoalLost, At, Moves
  <2> QED
    BY <1>11, <2>1, GoesOnKeepsTurn, EndsKeepsTurn DEF GoalLost, Raises
<1> QED
  BY <1>4, <1>5, <1>6, <1>7, <1>8, <1>9, <1>10, <1>11, <1>12

(* A goal is the operator's own: when it ends, the next step parks or ends.*)
LEMMA GoalEndsKeepsTurn ==
    ASSUME IInv, MInv, ~crossed, NEW me \in Operators, Turn(me),
           GoalReached \/ GoalAborts
    PROVE  Turn(me)'
<1>1. /\ me \in Operators /\ moving = me /\ moving' = None
      /\ UNCHANGED <<active, stream, request, late>>
  BY DEF Turn, NothingLeft, GoalReached, GoalAborts
<1>2. /\ todo[me] # <<>> /\ Head(todo[me]).do = "arrive" /\ request[me] = None
      /\ todo[me] \in Seq(Steps)
  BY <1>1 DEF IInv, Waiting, StateOK
<1>3. Overlays \cap active = {}
  BY <1>1, SwitchAssumption DEF MInv, MovesByTrajectory, InOrder, MixedIsIdle
<1>4. todo'[me] = todo[me] \/ todo'[me] = Tail(todo[me])
  BY <1>1 DEF GoalReached, GoalAborts, Advance, IInv, StateOK
<1>5. /\ ParksAfterMoves(todo'[me]) /\ todo'[me] # <<>>
      /\ Head(todo'[me]).do \in {"arrive", "park", "exit"}
  BY <1>2, <1>4, TailParks, NextParks DEF Turn, Moves
<1> QED
  BY <1>1, <1>2, <1>3, <1>5 DEF Turn, StaleIsHarmless, NothingLeft

(* A served request finds the process waiting, so no goal of its own runs  *)
(* and the arm stays where it stands.                                      *)
LEMMA ServedKeepsTurn ==
    ASSUME IInv, NEW me \in Operators, Turn(me), Busy(me),
           StrictSwitch(me) \/ StockSwitch(me)
    PROVE  Turn(me)' \/ ~Busy(me)'
<1>1. /\ me \in Operators /\ request[me] # None /\ late' = late
      /\ \E set : Becomes(set)
      /\ \/ Answered(me) /\ stream' = stream
         \/ Ends(me)
  BY DEF StrictSwitch, StockSwitch
<1>2. moving = None
  BY <1>1 DEF Turn, NothingLeft, IInv, Waiting
<1>3. UNCHANGED <<moving, where>>
  BY <1>1, <1>2 DEF Becomes
<1>4. todo[me] # <<>> /\ todo[me] \in Seq(Steps)
  BY <1>1 DEF IInv, Waiting, StateOK
<1>5. CASE Answered(me) /\ stream' = stream
  <2>1. ~Stale(me)'
    BY <1>1, <1>3, <1>5 DEF Turn, StaleIsHarmless, Stale
  <2>2. ParksAfterMoves(todo'[me])
    BY <1>4, <1>5, TailParks DEF Turn, Answered, Advance, IInv, StateOK
  <2> QED
    BY <1>1, <1>3, <2>1, <2>2 DEF Turn, StaleIsHarmless, NothingLeft
<1>6. CASE Ends(me)
  BY <1>6 DEF Ends, Busy, IInv, StateOK
<1> QED
  BY <1>1, <1>5, <1>6

(* No other process notices what one of them does.                         *)
LEMMA OthersRest ==
    ASSUME IInv, NEW me \in Operators, NEW other \in Operators \ {me},
           \/ \E process \in Processes : StartProcess(me, process)
           \/ Works(me) \/ TimesOut(me) \/ Interrupted(me)
    PROVE  todo'[other] = todo[other] /\ stream'[other] = stream[other]
<1>1. /\ todo \in [Operators -> Seq(Steps)]
      /\ stream \in [Operators -> Places \cup {None}]
  BY DEF IInv, StateOK
<1>2. Ends(me) \/ Raises(me) => todo'[other] = todo[other] /\ stream'[other] = stream[other]
  BY <1>1 DEF Ends, Raises
<1>3. \/ Advance(me) \/ \E step : Instead(me, step)
      => todo'[other] = todo[other]
  BY <1>1 DEF Advance, Instead
<1>4. CASE \E process \in Processes : StartProcess(me, process)
  BY <1>1, <1>4 DEF StartProcess
<1>5. CASE TimesOut(me) \/ Interrupted(me)
  BY <1>2, <1>5 DEF TimesOut, Interrupted, Abandons
<1>6. CASE Spawn(me) \/ Gate(me) \/ RestFirst(me) \/ Settle(me) \/ Park(me) \/ Exit(me)
  BY <1>1, <1>2, <1>3, <1>6 DEF Spawn, Gate, RestFirst, Settle, Park, Exit
<1>7. CASE SafeSwitch(me) \/ AskStock(me)
  BY <1>2, <1>3, <1>7 DEF AskStock, SafeSwitch, Arm, AlreadyAtRest, Disarm, Swap, Refuse
<1>8. CASE BeginMove(me) \/ RefuseMove(me) \/ SendGoal(me) \/ GoalLost(me)
  BY <1>2, <1>3, <1>8 DEF BeginMove, RefuseMove, SendGoal, GoalLost
<1>9. CASE StrictSwitch(me) \/ StrictFails(me) \/ StockSwitch(me)
  BY <1>2, <1>3, <1>9 DEF StrictSwitch, StrictFails, StockSwitch, Answered
<1> QED
  BY <1>4, <1>5, <1>6, <1>7, <1>8, <1>9 DEF Works

LEMMA WhoeverWorksIsBusy ==
    ASSUME IInv, NEW me \in Operators, Works(me) \/ TimesOut(me) \/ Interrupted(me)
    PROVE  Busy(me)
<1>1. request[me] # None => todo[me] # <<>>
  BY DEF IInv, Waiting
<1> QED
  BY <1>1 DEF Works, Spawn, Gate, RestFirst, Settle, Park, Exit, SafeSwitch, AskStock, BeginMove,
              RefuseMove, SendGoal, GoalLost, StrictSwitch, StrictFails, StockSwitch,
              TimesOut, Interrupted, Abandons, At, Busy

(* What one of them leaves behind it leaves on an arm that stands.         *)
LEMMA WorkLeavesStanding ==
    ASSUME IInv, MInv, NEW me \in Operators, Turn(me), Busy(me),
           Works(me) \/ TimesOut(me) \/ Interrupted(me)
    PROVE  late' # None => moving' = None
<1>1. late = None /\ moving \in {None, me}
  BY DEF Turn, NothingLeft
<1>2. Works(me) => late' = late
  BY DEF Works, Spawn, Gate, RestFirst, Settle, Park, Exit, SafeSwitch, Arm, AlreadyAtRest,
         Disarm, Swap, Refuse, AskStock, BeginMove, RefuseMove, SendGoal, GoalLost,
         StrictSwitch, StrictFails, StockSwitch, Raises
<1>3. request[me] # None => moving = None
  BY <1>1 DEF IInv, Waiting
<1>4. TimesOut(me) => request[me] # None /\ moving' = moving
  BY DEF TimesOut
<1>5. Interrupted(me) =>
        \/ late' = late
        \/ request[me] # None /\ moving' = IF moving = me THEN Orphan ELSE moving
  BY DEF Interrupted
<1>6. None # me
  BY SwitchAssumption
<1> QED
  BY <1>1, <1>2, <1>3, <1>4, <1>5, <1>6

(* One process runs and goes on, ends or is cut short.                     *)
LEMMA WorkKeepsTurns ==
    ASSUME IInv, MInv, OneAtATime, ~crossed,
           NEW me \in Operators, Works(me) \/ TimesOut(me) \/ Interrupted(me)
    PROVE  OneAtATime'
<1>1. Busy(me) /\ Turn(me) /\ \A other \in Operators \ {me} : ~Busy(other)
  BY WhoeverWorksIsBusy DEF OneAtATime
<1>2. \A other \in Operators \ {me} : ~Busy(other)'
  BY <1>1, OthersRest DEF Busy
<1>3. Turn(me)' \/ ~Busy(me)'
  <2>1. CASE TimesOut(me) \/ Interrupted(me)
    <3>1. Ends(me)
      BY <2>1 DEF TimesOut, Interrupted, Abandons
    <3>2. todo'[me] = <<>> /\ stream'[me] = None
      BY <3>1 DEF Ends, IInv, StateOK
    <3> QED
      BY <3>2 DEF Busy
  <2>2. CASE Works(me)
    BY <1>1, <2>2, OperatorKeepsTurn, ServedKeepsTurn DEF Works
  <2> QED
    BY <2>1, <2>2
<1> QED
  BY <1>1, <1>2, <1>3, WorkLeavesStanding DEF OneAtATime

(* One process begins, with nothing of an earlier one left.                *)
LEMMA StartTakesTurn ==
    ASSUME IInv, TakesTurns', NEW me \in Operators,
           NEW process \in Processes, StartProcess(me, process)
    PROVE  OneAtATime'
<1>1. /\ stream'[me] = where' /\ todo'[me] = process
  BY DEF StartProcess, IInv, StateOK
<1>2. /\ moving' = None /\ late' = None
      /\ \A other \in Operators \ {me} : todo'[other] = <<>> /\ stream'[other] = None
  BY <1>1 DEF TakesTurns
<1>3. Turn(me)'
  BY <1>1, <1>2, ProcessesPark DEF Turn, StaleIsHarmless, Stale, NothingLeft
<1> QED
  BY <1>2, <1>3 DEF OneAtATime, Busy

(* A goal without a sender, or a request without one, ends or is served    *)
(* while nobody runs a process.                                            *)
LEMMA LeftoversKeepTurns ==
    ASSUME IInv, MInv, OneAtATime, ~crossed, GoalReached \/ GoalAborts \/ LateSwitch
    PROVE  OneAtATime'
<1>1. CASE LateSwitch \/ moving = Orphan
  <2>1. \A op \in Operators : ~Busy(op)
    BY <1>1, SwitchAssumption DEF OneAtATime, Turn, NothingLeft, LateSwitch
  <2>2. UNCHANGED <<todo, stream>> /\ (late' = None \/ moving' = None)
    BY <1>1 DEF GoalReached, GoalAborts, LateSwitch
  <2> QED
    BY <2>1, <2>2 DEF OneAtATime, Busy
<1>2. CASE ~LateSwitch /\ moving # Orphan
  <2>1. PICK me \in Operators : moving = me /\ (GoalReached \/ GoalAborts)
    BY <1>2 DEF GoalReached, GoalAborts, IInv, StateOK
  <2>2. Busy(me) /\ Turn(me) /\ \A other \in Operators \ {me} : ~Busy(other)
    BY <2>1 DEF OneAtATime, Busy, IInv, Waiting
  <2>3. Turn(me)' /\ moving' = None
    BY <2>1, <2>2, GoalEndsKeepsTurn DEF GoalReached, GoalAborts
  <2>4. \A other \in Operators \ {me} : ~Busy(other)'
    BY <2>1, <2>2 DEF GoalReached, GoalAborts, Advance, Busy, IInv, StateOK
  <2> QED
    BY <2>3, <2>4 DEF OneAtATime
<1> QED
  BY <1>1, <1>2

(* What the cell does on its own.                                          *)
LEMMA CellKeepsTurns ==
    ASSUME OneAtATime, Held(active),
           \/ \E adapter \in Adapters : AdapterFails(adapter)
           \/ ArmMoves
           \/ UNCHANGED vars
    PROVE  OneAtATime'
<1>1. UNCHANGED <<moving, todo, stream, request, late>> /\ active' \subseteq active
  BY DEF AdapterFails, ArmMoves, vars
<1>2. \A op \in Operators : Stale(op)' => Stale(op)
  BY <1>1 DEF AdapterFails, ArmMoves, vars, Stale
<1> QED
  BY <1>1, <1>2 DEF OneAtATime, Turn, Busy, StaleIsHarmless, NothingLeft

(* Taking turns, nobody uses crisp_py's switcher beside other work.        *)
LEMMA TurnsDoNotCross == IInv /\ OneAtATime => ~Crossing
<1> SUFFICES ASSUME IInv, OneAtATime PROVE ~Crossing
  OBVIOUS
<1>1. ASSUME NEW op \in Operators, InStock(op)
      PROVE  moving = None /\ late = None /\ \A other \in Operators \ {op} : todo[other] = <<>>
  <2>1. Turn(op) /\ \A other \in Operators \ {op} : ~Busy(other)
    BY <1>1 DEF OneAtATime, Busy, InStock
  <2>2. moving # op
    BY <1>1 DEF InStock, IInv, Waiting
  <2> QED
    BY <2>1, <2>2 DEF Turn, NothingLeft, Busy
<1>2. ASSUME late # None
      PROVE  moving = None /\ \A op \in Operators : todo[op] = <<>>
  BY <1>2 DEF OneAtATime, Turn, NothingLeft, Busy
<1> QED
  BY <1>1, <1>2 DEF Crossing

LEMMA NextKeepsTurns ==
    IInv /\ MInv /\ Held(active) /\ TakesTurns' /\ TurnsTaken /\ [Next]_vars => TurnsTaken'
<1>1. IInv /\ MInv /\ Held(active) /\ TakesTurns' /\ TurnsTaken /\ [Next]_vars => OneAtATime'
  BY WorkKeepsTurns, StartTakesTurn, LeftoversKeepTurns, CellKeepsTurns
     DEF Next, Acts, Operates, GoalEnds, TurnsTaken
<1>2. IInv' /\ OneAtATime' => ~Crossing'
  BY TurnsDoNotCross, PTL
<1>3. ~crossed /\ ~Crossing' /\ [Next]_vars => ~crossed'
  BY DEF Next, Remembers, vars
<1> QED
  BY <1>1, <1>2, <1>3, NextKeepsIInv DEF TurnsTaken

(* Whatever any number of operators run one after another, in any order,   *)
(* however a process is cut short, and even if an adapter gives up: as     *)
(* long as the arm is held it is not pulled away.                          *)
THEOREM ParkSafe == ASSUME OrderlyStart PROVE Spec => HeldArmNeverPulled
<1>1. Init => IInv /\ MInv /\ TurnsTaken
  BY InitIInv, InitMInv, InitTurnsTaken
<1>2. IInv /\ MInv /\ [Next]_vars => IInv' /\ MInv'
  BY NextKeepsIInv, NextKeepsMInv
<1>3. IInv /\ MInv /\ Held(active) /\ TakesTurns' /\ TurnsTaken /\ [Next]_vars => TurnsTaken'
  BY NextKeepsTurns
<1>4. TurnsTaken => \A op \in Operators : ~PulledAway(op)
  BY DEF TurnsTaken, OneAtATime, Turn, Busy, StaleIsHarmless, Stale, PulledAway
<1> QED
  BY <1>1, <1>2, <1>3, <1>4, PTL DEF Spec, HeldArmNeverPulled
=============================================================================
