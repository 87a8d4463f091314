----------------------- MODULE ControllerSwitchProofs -----------------------
(***************************************************************************)
(* The switching code for any number of operators, any set of torque       *)
(* controllers, any place the arm can stand: what STRICT requests keep,    *)
(* however stale the list each of them was decided on.                     *)
(***************************************************************************)
EXTENDS ControllerSwitch, TLAPS

(* A process that waits or moves the arm has that step still to finish.    *)
Waiting ==
    \A op \in Operators :
        /\ request[op] # None => todo[op] # <<>>
        /\ moving = op => /\ todo[op] # <<>> /\ Head(todo[op]).do = "arrive"
                          /\ request[op] = None

(* What every STRICT request of kuka_crisp.py has in itself, so that no    *)
(* check made when it was decided matters when it is served: it takes      *)
(* nothing away, or activates something that holds and an owner for each   *)
(* kind of interface it takes, and it never drops the wrench source.       *)
Sound(r) ==
    /\ WRENCH \notin r.deactivate
    /\ r.kind = "strict" =>
        \/ r.deactivate = {}
        \/ /\ Held(r.activate)
           /\ PositionOwners \cap r.activate # {}
           /\ EffortOwners \cap r.activate # {} \/ EffortOwners \cap r.deactivate = {}

RequestsSound ==
    /\ \A op \in Operators : request[op] # None => Sound(request[op])
    /\ late # None => Sound(late)

IInv == StateOK /\ Waiting /\ RequestsSound /\ WrenchStays

-----------------------------------------------------------------------------
LEMMA StepTyped ==
    /\ \A name \in Controllers :
          \A do \in {"switch", "stock", "spawn"} :
              Step(do, name) \in Steps /\ Step(do, name).do = do
    /\ \A do \in {"gate", "rest", "settle", "move", "send", "arrive", "park", "exit"} :
          Step(do, None) \in Steps /\ Step(do, None).do = do
BY DEF Step, Steps

LEMMA ProcessesTyped ==
    ASSUME NEW process \in Processes
    PROVE  process \in Seq(Steps) /\ process # <<>>
<1>1. \A n \in Controllers :
          /\ SwitchSession(n) \in Seq(Steps) /\ SwitchSession(n) # <<>>
          /\ Prepare(n) \in Seq(Steps) /\ Prepare(n) # <<>>
  BY StepTyped DEF SwitchSession, Prepare
<1>2. HomeSession \in Seq(Steps) /\ HomeSession # <<>>
  BY StepTyped DEF HomeSession
<1>3. Switchable \subseteq Controllers /\ ZERO_EFFORT \in Controllers
  BY SwitchAssumption DEF Controllers
<1> QED
  BY <1>1, <1>2, <1>3 DEF Processes

LEMMA BringupTyped == Bringup \in Seq(Steps)
BY StepTyped DEF Bringup, Controllers

LEMMA TailTyped ==
    ASSUME NEW s \in Seq(Steps), s # <<>>
    PROVE  Head(s) \in Steps /\ Tail(s) \in Seq(Steps)
OBVIOUS

LEMMA InsteadTyped ==
    ASSUME NEW s \in Seq(Steps), s # <<>>, NEW step \in Steps
    PROVE  /\ <<step>> \o Tail(s) \in Seq(Steps)
           /\ <<step>> \o Tail(s) # <<>>
           /\ Head(<<step>> \o Tail(s)) = step
<1> DEFINE t == Tail(s)
<1>1. t \in Seq(Steps) /\ <<step>> \in Seq(Steps)
  BY TailTyped
<1> HIDE DEF t
<1>2. /\ <<step>> \o t \in Seq(Steps) /\ <<step>> \o t # <<>>
      /\ Head(<<step>> \o t) = step
  BY <1>1
<1> QED
  BY <1>2 DEF t

(* Every request the code asks for is a sound one.                         *)
LEMMA StrictRequestsSound ==
    ASSUME NEW name \in Overlays, NEW seen \in SUBSET Controllers
    PROVE  /\ Sound([kind |-> "strict", activate |-> {PASSTHROUGH, name},
                     deactivate |-> {TRAJECTORY, ZERO_EFFORT}])
           /\ [kind |-> "strict", activate |-> {PASSTHROUGH, name},
               deactivate |-> {TRAJECTORY, ZERO_EFFORT}] \in Request
BY OverlaysAssumption
   DEF Sound, Held, Request, Controllers, PositionOwners, EffortOwners,
       PASSTHROUGH, TRAJECTORY, ZERO_EFFORT, WRENCH

LEMMA RestRequestsSound ==
    ASSUME NEW seen \in SUBSET Controllers
    PROVE  /\ Sound([kind |-> "strict", activate |-> {TRAJECTORY, ZERO_EFFORT},
                     deactivate |-> {PASSTHROUGH} \cup (Overlays \cap seen)])
           /\ [kind |-> "strict", activate |-> {TRAJECTORY, ZERO_EFFORT},
               deactivate |-> {PASSTHROUGH} \cup (Overlays \cap seen)] \in Request
           /\ Sound([kind |-> "strict", activate |-> {TRAJECTORY},
                     deactivate |-> {PASSTHROUGH}])
           /\ [kind |-> "strict", activate |-> {TRAJECTORY},
               deactivate |-> {PASSTHROUGH}] \in Request
BY OverlaysAssumption
   DEF Sound, Held, Request, Controllers, PositionOwners, EffortOwners,
       PASSTHROUGH, TRAJECTORY, ZERO_EFFORT, WRENCH

LEMMA SpawnRequestSound ==
    ASSUME NEW name \in Controllers
    PROVE  LET asked == [kind |-> "strict", activate |-> {name}, deactivate |-> {}]
           IN  asked \in Request /\ Sound(asked)
BY DEF Request, Sound

(* A sound STRICT request that is feasible leaves the arm held and both    *)
(* kinds of interface owned if they were, no interface owned twice.        *)
LEMMA GrantedIsSafe ==
    ASSUME NEW r \in Request, r.kind = "strict", Sound(r),
           NEW set \in SUBSET Controllers, Feasible(r, set)
    PROVE  /\ Granted(r, set) \in SUBSET Controllers
           /\ Exclusive(Granted(r, set))
           /\ Held(set) => Held(Granted(r, set))
           /\ Claimed(set) => Claimed(Granted(r, set))
           /\ WRENCH \in set => WRENCH \in Granted(r, set)
<1>1. r.activate \in SUBSET Controllers
  BY DEF Request
<1>2. Granted(r, set) = (set \ r.deactivate) \cup r.activate
  BY DEF Granted
<1>3. Exclusive(Granted(r, set))
  BY <1>2 DEF Feasible
<1>4. Held(set) => Held(Granted(r, set))
  BY <1>2 DEF Sound, Held
<1>5. Claimed(set) => Claimed(Granted(r, set))
  BY <1>2 DEF Sound, Claimed
<1>6. WRENCH \in set => WRENCH \in Granted(r, set)
  BY <1>2 DEF Sound
<1> QED
  BY <1>1, <1>2, <1>3, <1>4, <1>5, <1>6

(* What an adapter that fails to come up leaves of a safe set.             *)
LEMMA FailuresAreTyped ==
    ASSUME NEW set \in SUBSET Controllers, Exclusive(set), WRENCH \in set,
           NEW r, NEW failed \in FailedActivations(r)
    PROVE  /\ set \ failed \in SUBSET Controllers
           /\ Exclusive(set \ failed)
           /\ WRENCH \in set \ failed
<1>1. failed \subseteq {PASSTHROUGH, ZERO_EFFORT} /\ WRENCH \notin {PASSTHROUGH, ZERO_EFFORT}
  BY DEF FailedActivations, Adapters, WRENCH, PASSTHROUGH, ZERO_EFFORT
<1> QED
  BY <1>1 DEF Exclusive

LEMMA StockRequestSound ==
    ASSUME NEW name \in Controllers, NEW listed \in SUBSET Controllers
    PROVE  StockRequest(name, listed) \in Request /\ Sound(StockRequest(name, listed))
BY DEF StockRequest, Request, Sound, HOLD_ACTIVE, Controllers

LEMMA StockIsTyped ==
    ASSUME NEW r \in Request, Sound(r), NEW set \in SUBSET Controllers,
           NEW outcome \in StockOutcomes(r, set)
    PROVE  /\ outcome \in SUBSET Controllers /\ Exclusive(outcome)
           /\ WRENCH \in set => WRENCH \in outcome
<1>1. PICK gone \in SUBSET r.deactivate, granted \in SUBSET r.activate :
          outcome = (set \ gone) \cup granted
  BY DEF StockOutcomes
<1>2. Exclusive(outcome)
  BY DEF StockOutcomes
<1> QED
  BY <1>1, <1>2 DEF Request, Sound

-----------------------------------------------------------------------------
LEMMA InitIInv == Init => IInv
<1> SUFFICES ASSUME Init PROVE IInv
  OBVIOUS
<1>1. active \in SUBSET Controllers /\ Exclusive(active) /\ WRENCH \in active
  BY SwitchAssumption DEF Init
<1>2. <<>> \in Seq(Steps)
  OBVIOUS
<1>3. StateOK
  BY <1>1, <1>2, BringupTyped DEF Init, StateOK
<1>4. Waiting /\ RequestsSound
  BY SwitchAssumption DEF Init, Waiting, RequestsSound
<1> QED
  BY <1>1, <1>3, <1>4 DEF IInv, WrenchStays

(* A process that ends, by any route, with at most its request left behind.*)
LEMMA EndsKeepsIInv ==
    ASSUME IInv, NEW op \in Operators, Ends(op),
           UNCHANGED <<active, where>>,
           moving' = moving \/ moving' = Orphan,
           moving = op => moving' = Orphan,
           late' = late \/ (request[op] # None /\ late' = request[op])
    PROVE  IInv'
<1> USE DEF IInv
<1>1. <<>> \in Seq(Steps)
  OBVIOUS
<1>2. Orphan \notin Operators
  BY SwitchAssumption
<1>3. StateOK'
  BY <1>1 DEF StateOK, Ends
<1>4. Waiting'
  BY <1>2 DEF Waiting, StateOK, Ends
<1>5. RequestsSound'
  BY DEF RequestsSound, StateOK, Ends
<1> QED
  BY <1>3, <1>4, <1>5 DEF WrenchStays

(* A process that goes on to its next step, or puts one before it.         *)
LEMMA GoesOn ==
    ASSUME IInv, NEW op \in Operators, todo[op] # <<>>, request[op] = None,
           NEW rest \in Seq(Steps), todo' = [todo EXCEPT ![op] = rest],
           UNCHANGED <<active, where, late>>,
           stream' \in [Operators -> Places \cup {None}],
           moving' \in Operators \cup {None, Orphan},
           \A other \in Operators \ {op} : moving' = other => moving = other,
           moving' = op => rest # <<>> /\ Head(rest).do = "arrive" /\ request' = request,
           NEW asked \in Request \cup {None},
           request' = [request EXCEPT ![op] = asked],
           asked # None => rest # <<>> /\ Sound(asked)
    PROVE  IInv'
<1> USE DEF IInv
<1>1. StateOK'
  BY DEF StateOK
<1>2. Waiting'
  <2> SUFFICES ASSUME NEW other \in Operators
               PROVE  /\ request'[other] # None => todo'[other] # <<>>
                      /\ moving' = other => /\ todo'[other] # <<>>
                                            /\ Head(todo'[other]).do = "arrive"
                                            /\ request'[other] = None
    BY DEF Waiting
  <2>1. CASE other = op
    BY <2>1 DEF StateOK
  <2>2. CASE other # op
    BY <2>2 DEF StateOK, Waiting
  <2> QED
    BY <2>1, <2>2
<1>3. RequestsSound'
  BY DEF RequestsSound, StateOK
<1> QED
  BY <1>1, <1>2, <1>3 DEF WrenchStays

(* The same without a request: what most steps of a process do.            *)
LEMMA AdvancesKeepsIInv ==
    ASSUME IInv, NEW op \in Operators, todo[op] # <<>>, request[op] = None,
           moving # op,
           Advance(op) \/ \E step \in Steps : Instead(op, step),
           UNCHANGED <<active, moving, where, request, late>>,
           stream' \in [Operators -> Places \cup {None}]
    PROVE  IInv'
<1>1. todo[op] \in Seq(Steps)
  BY DEF IInv, StateOK
<1>2. request' = [request EXCEPT ![op] = None]
  BY DEF IInv, StateOK
<1>3. moving' \in Operators \cup {None, Orphan} /\ moving' # op
  BY DEF IInv, StateOK
<1>4. CASE Advance(op)
  BY <1>1, <1>2, <1>3, <1>4, TailTyped, GoesOn DEF Advance
<1>5. CASE \E step \in Steps : Instead(op, step)
  <2>1. PICK step \in Steps : Instead(op, step)
    BY <1>5
  <2>2. <<step>> \o Tail(todo[op]) \in Seq(Steps)
    BY <1>1, InsteadTyped
  <2> QED
    BY <1>2, <1>3, <2>1, <2>2, GoesOn DEF Instead
<1> QED
  BY <1>4, <1>5

LEMMA NotMoving ==
    ASSUME IInv, NEW op \in Operators, todo[op] # <<>>, Head(todo[op]).do # "arrive"
    PROVE  moving # op
BY DEF IInv, Waiting

(* A request is put while the step that asked for it is still at the head. *)
LEMMA AsksKeepsIInv ==
    ASSUME IInv, NEW op \in Operators, todo[op] # <<>>, request[op] = None,
           moving # op,
           NEW asked \in Request, Sound(asked),
           request' = [request EXCEPT ![op] = asked],
           UNCHANGED todo \/ \E step \in Steps : Instead(op, step),
           UNCHANGED <<active, moving, where, stream, late>>
    PROVE  IInv'
<1>1. todo[op] \in Seq(Steps) /\ moving' # op
  BY DEF IInv, StateOK
<1>2. stream' \in [Operators -> Places \cup {None}] /\ moving' \in Operators \cup {None, Orphan}
  BY DEF IInv, StateOK
<1>3. CASE UNCHANGED todo
  <2>1. todo' = [todo EXCEPT ![op] = todo[op]]
    BY <1>3 DEF IInv, StateOK
  <2> QED
    BY <1>1, <1>2, <2>1, GoesOn
<1>4. CASE \E step \in Steps : Instead(op, step)
  <2>1. PICK step \in Steps : Instead(op, step)
    BY <1>4
  <2>2. /\ <<step>> \o Tail(todo[op]) \in Seq(Steps)
        /\ <<step>> \o Tail(todo[op]) # <<>>
    BY <1>1, InsteadTyped
  <2> QED
    BY <1>1, <1>2, <2>1, <2>2, GoesOn DEF Instead
<1> QED
  BY <1>3, <1>4

LEMMA RaisesKeepsIInv ==
    ASSUME IInv, NEW op \in Operators, todo[op] # <<>>, moving # op, Raises(op)
    PROVE  IInv'
BY EndsKeepsIInv DEF Raises

-----------------------------------------------------------------------------
LEMMA SafeSwitchKeepsIInv ==
    ASSUME IInv, NEW op \in Operators, SafeSwitch(op)
    PROVE  IInv'
<1> DEFINE name == Head(todo[op]).to
<1>1. todo[op] # <<>> /\ request[op] = None /\ moving # op
  BY NotMoving DEF SafeSwitch, At
<1>2. name \in Controllers /\ active \in SUBSET Controllers
  <2>1. Head(todo[op]) \in Steps /\ Head(todo[op]).do = "switch"
    BY <1>1, TailTyped DEF IInv, StateOK, SafeSwitch, At
  <2> QED
    BY <2>1 DEF Steps, IInv, StateOK
<1>3. CASE Arm(op, name)
  BY <1>1, <1>2, <1>3, StrictRequestsSound, AsksKeepsIInv DEF Arm, AskStrict, Ask
<1>4. CASE AlreadyAtRest(op, name)
  <2>1. stream' \in [Operators -> Places \cup {None}]
    BY <1>4 DEF AlreadyAtRest, IInv, StateOK
  <2> QED
    BY <1>1, <1>4, <2>1, AdvancesKeepsIInv DEF AlreadyAtRest
<1>5. CASE Disarm(op, name)
  BY <1>1, <1>2, <1>5, RestRequestsSound, AsksKeepsIInv DEF Disarm, AskStrict, Ask
<1>6. CASE Swap(op, name)
  <2>1. stream' \in [Operators -> Places \cup {None}]
    BY <1>6 DEF Swap, IInv, StateOK
  <2>2. Step("stock", name) \in Steps
    BY <1>2, StepTyped
  <2> QED
    BY <1>1, <1>6, <2>1, <2>2, AdvancesKeepsIInv DEF Swap
<1>7. CASE Refuse(op, name)
  BY <1>1, <1>7, RaisesKeepsIInv DEF Refuse
<1> QED
  BY <1>3, <1>4, <1>5, <1>6, <1>7 DEF SafeSwitch

LEMMA AskStockKeepsIInv ==
    ASSUME IInv, NEW op \in Operators, AskStock(op)
    PROVE  IInv'
<1>1. todo[op] # <<>> /\ request[op] = None /\ moving # op
  BY NotMoving DEF AskStock, At
<1>2. Head(todo[op]) \in Steps /\ Head(todo[op]).do = "stock"
  BY <1>1, TailTyped DEF IInv, StateOK, AskStock, At
<1>3. Head(todo[op]).to \in Controllers /\ active \in SUBSET Controllers
  BY <1>2 DEF Steps, IInv, StateOK
<1> QED
  BY <1>1, <1>3, StockRequestSound, AsksKeepsIInv DEF AskStock, Ask

LEMMA ChecksKeepIInv ==
    ASSUME IInv, NEW op \in Operators,
           Gate(op) \/ RestFirst(op) \/ Settle(op) \/ Park(op) \/ Exit(op)
    PROVE  IInv'
<1>1. todo[op] # <<>> /\ request[op] = None /\ moving # op
  BY NotMoving DEF Gate, RestFirst, Settle, Park, Exit, At
<1>2. Step("switch", ZERO_EFFORT) \in Steps
  BY StepTyped DEF Controllers
<1>3. stream \in [Operators -> Places \cup {None}] /\ where \in Places
  BY DEF IInv, StateOK
<1>4. CASE Gate(op)
  BY <1>1, <1>3, <1>4, AdvancesKeepsIInv, RaisesKeepsIInv DEF Gate
<1>5. CASE RestFirst(op)
  BY <1>1, <1>2, <1>3, <1>5, AdvancesKeepsIInv DEF RestFirst
<1>6. CASE Settle(op)
  BY <1>1, <1>2, <1>3, <1>6, AdvancesKeepsIInv DEF Settle
<1>7. CASE Park(op)
  BY <1>1, <1>3, <1>7, AdvancesKeepsIInv DEF Park
<1>8. CASE Exit(op)
  BY <1>1, <1>8, RaisesKeepsIInv DEF Exit
<1> QED
  BY <1>4, <1>5, <1>6, <1>7, <1>8

LEMMA StartKeepsIInv ==
    ASSUME IInv, NEW op \in Operators, NEW process \in Processes,
           StartProcess(op, process)
    PROVE  IInv'
<1> USE DEF IInv, StartProcess
<1>1. process \in Seq(Steps) /\ process # <<>>
  BY ProcessesTyped
<1>2. StateOK'
  BY <1>1 DEF StateOK
<1>3. Waiting'
  BY <1>1 DEF Waiting, StateOK
<1>4. RequestsSound' /\ WrenchStays'
  BY DEF RequestsSound, WrenchStays
<1> QED
  BY <1>2, <1>3, <1>4

LEMMA MoveKeepsIInv ==
    ASSUME IInv, NEW op \in Operators,
           BeginMove(op) \/ RefuseMove(op) \/ SendGoal(op) \/ GoalLost(op)
    PROVE  IInv'
<1>1. /\ todo[op] # <<>> /\ request[op] = None
      /\ todo[op] \in Seq(Steps)
      /\ stream \in [Operators -> Places \cup {None}]
      /\ moving \in Operators \cup {None, Orphan}
      /\ request \in [Operators -> Request \cup {None}]
      /\ active \in SUBSET Controllers
  BY DEF BeginMove, RefuseMove, SendGoal, GoalLost, At, IInv, StateOK
<1>2. Step("send", None) \in Steps /\ Step("arrive", None) \in Steps
      /\ Step("arrive", None).do = "arrive"
  BY StepTyped
<1>3. CASE BeginMove(op)
  <2>1. moving # op
    BY <1>3, NotMoving DEF BeginMove, At
  <2>2. CASE TRAJECTORY \in active
    BY <1>1, <1>2, <1>3, <2>1, <2>2, AdvancesKeepsIInv DEF BeginMove
  <2>3. CASE TRAJECTORY \notin active
    BY <1>1, <1>2, <1>3, <2>1, <2>3, RestRequestsSound, AsksKeepsIInv DEF BeginMove, AskStrict, Ask
  <2> QED
    BY <2>2, <2>3
<1>4. CASE RefuseMove(op)
  BY <1>1, <1>4, NotMoving, RaisesKeepsIInv DEF RefuseMove, At
<1>5. CASE SendGoal(op)
  <2> DEFINE rest == <<Step("arrive", None)>> \o Tail(todo[op])
  <2>1. rest \in Seq(Steps) /\ rest # <<>> /\ Head(rest) = Step("arrive", None)
    BY <1>1, <1>2, InsteadTyped
  <2> HIDE DEF rest
  <2>2. todo' = [todo EXCEPT ![op] = rest]
    BY <1>5 DEF SendGoal, Instead, rest
  <2>3. request' = [request EXCEPT ![op] = None] /\ request' = request
    BY <1>1, <1>5 DEF SendGoal
  <2>4. /\ moving' \in Operators \cup {None, Orphan}
        /\ \A other \in Operators \ {op} : moving' = other => moving = other
    BY <1>1, <1>5 DEF SendGoal
  <2>5. UNCHANGED <<active, where, late>> /\ stream' = stream
    BY <1>5 DEF SendGoal
  <2> QED
    BY <1>1, <1>2, <2>1, <2>2, <2>3, <2>4, <2>5, GoesOn
<1>6. CASE GoalLost(op)
  BY <1>1, <1>6, AdvancesKeepsIInv, RaisesKeepsIInv DEF GoalLost
<1> QED
  BY <1>3, <1>4, <1>5, <1>6

LEMMA GoalEndsKeepsIInv ==
    ASSUME IInv, GoalReached \/ GoalAborts
    PROVE  IInv'
<1>1. moving \in Operators \cup {Orphan} /\ moving' = None /\ where' \in Places
  BY SwitchAssumption DEF GoalReached, GoalAborts, IInv, StateOK
<1>2. \A op \in Operators : request'[op] # None => todo'[op] # <<>>
  BY DEF GoalReached, GoalAborts, Advance, IInv, StateOK, Waiting
<1>3. todo' \in [Operators -> Seq(Steps)]
  <2>1. CASE GoalReached /\ moving # Orphan
    <3>1. moving \in Operators /\ todo[moving] # <<>>
      BY <1>1, <2>1 DEF IInv, Waiting
    <3>2. Tail(todo[moving]) \in Seq(Steps)
      BY <3>1, TailTyped DEF IInv, StateOK
    <3> QED
      BY <2>1, <3>2 DEF GoalReached, Advance, IInv, StateOK
  <2>2. CASE ~(GoalReached /\ moving # Orphan)
    BY <2>2 DEF GoalReached, GoalAborts, IInv, StateOK
  <2> QED
    BY <2>1, <2>2
<1>4. UNCHANGED <<active, stream, request, late>>
  BY DEF GoalReached, GoalAborts
<1>5. None \notin Operators
  BY SwitchAssumption
<1>6. StateOK'
  BY <1>1, <1>3, <1>4 DEF IInv, StateOK
<1>7. Waiting'
  BY <1>1, <1>2, <1>5 DEF Waiting
<1>8. RequestsSound' /\ WrenchStays'
  BY <1>4 DEF IInv, RequestsSound, WrenchStays
<1> QED
  BY <1>6, <1>7, <1>8 DEF IInv

-----------------------------------------------------------------------------
(* The manager's side: an answered request leaves the queue.               *)
LEMMA AnsweredTyped ==
    ASSUME IInv, NEW op \in Operators, request[op] # None, Answered(op)
    PROVE  /\ todo' \in [Operators -> Seq(Steps)]
           /\ request' \in [Operators -> Request \cup {None}]
           /\ \A other \in Operators :
                 /\ request'[other] # None => todo'[other] # <<>> /\ request[other] # None
                                              /\ request'[other] = request[other]
                 /\ moving = other => /\ todo'[other] # <<>>
                                      /\ Head(todo'[other]).do = "arrive"
                                      /\ request'[other] = None
<1>1. todo[op] \in Seq(Steps) /\ todo[op] # <<>> /\ moving # op
  BY DEF IInv, StateOK, Waiting
<1>2. Tail(todo[op]) \in Seq(Steps)
  BY <1>1, TailTyped
<1>3. todo' = todo \/ todo' = [todo EXCEPT ![op] = Tail(todo[op])]
  BY DEF Answered, Advance
<1>4. request' = [request EXCEPT ![op] = None]
  BY DEF Answered
<1>5. todo' \in [Operators -> Seq(Steps)] /\ request' \in [Operators -> Request \cup {None}]
  BY <1>2, <1>3, <1>4 DEF IInv, StateOK
<1>6. ASSUME NEW other \in Operators
      PROVE  /\ request'[other] # None => todo'[other] # <<>> /\ request[other] # None
                                          /\ request'[other] = request[other]
             /\ moving = other => /\ todo'[other] # <<>>
                                  /\ Head(todo'[other]).do = "arrive"
                                  /\ request'[other] = None
  <2>1. CASE other = op
    BY <1>1, <1>4, <2>1 DEF IInv, StateOK
  <2>2. CASE other # op
    BY <1>3, <1>4, <2>2 DEF IInv, StateOK, Waiting
  <2> QED
    BY <2>1, <2>2
<1> QED
  BY <1>5, <1>6

LEMMA BecomesTyped ==
    ASSUME IInv, NEW set \in SUBSET Controllers, Becomes(set)
    PROVE  /\ active' = set /\ where' \in Places
           /\ moving' = moving \/ moving' = None
BY DEF Becomes, IInv, StateOK

LEMMA ServesKeepsIInv ==
    ASSUME IInv, NEW op \in Operators, request[op] # None, Answered(op),
           NEW set \in SUBSET Controllers, Exclusive(set), WRENCH \in set,
           Becomes(set), UNCHANGED <<stream, late>>
    PROVE  IInv'
<1>1. /\ active' = set /\ where' \in Places
      /\ moving' = moving \/ moving' = None
  BY BecomesTyped
<1>2. None \notin Operators
  BY SwitchAssumption
<1>3. StateOK'
  BY <1>1, AnsweredTyped DEF IInv, StateOK
<1>4. Waiting'
  BY <1>1, <1>2, AnsweredTyped DEF Waiting
<1>5. RequestsSound'
  BY AnsweredTyped DEF IInv, RequestsSound
<1>6. WrenchStays'
  BY <1>1 DEF WrenchStays
<1> QED
  BY <1>3, <1>4, <1>5, <1>6 DEF IInv

(* A switch that happened, but not as it was asked: the process ends.      *)
LEMMA EndsServedKeepsIInv ==
    ASSUME IInv, NEW op \in Operators, request[op] # None, Ends(op),
           NEW set \in SUBSET Controllers, Exclusive(set), WRENCH \in set,
           Becomes(set), UNCHANGED late
    PROVE  IInv'
<1>1. /\ active' = set /\ where' \in Places
      /\ moving' = moving \/ moving' = None
  BY BecomesTyped
<1>2. None \notin Operators /\ moving # op
  BY SwitchAssumption DEF IInv, Waiting
<1>3. <<>> \in Seq(Steps)
  OBVIOUS
<1>4. StateOK'
  BY <1>1, <1>3 DEF IInv, StateOK, Ends
<1>5. Waiting'
  BY <1>1, <1>2 DEF IInv, Waiting, StateOK, Ends
<1>6. RequestsSound' /\ WrenchStays'
  BY <1>1 DEF IInv, RequestsSound, WrenchStays, StateOK, Ends
<1> QED
  BY <1>4, <1>5, <1>6 DEF IInv

LEMMA ManagerKeepsIInv ==
    ASSUME IInv, NEW op \in Operators,
           StrictSwitch(op) \/ StrictFails(op) \/ StockSwitch(op) \/ TimesOut(op)
    PROVE  IInv'
<1>1. /\ request[op] \in Request /\ request[op] # None /\ Sound(request[op])
      /\ active \in SUBSET Controllers /\ Exclusive(active) /\ WRENCH \in active
  BY DEF StrictSwitch, StrictFails, StockSwitch, TimesOut, IInv, StateOK, RequestsSound,
         WrenchStays
<1>2. todo[op] # <<>> /\ moving # op
  BY <1>1 DEF IInv, Waiting
<1>3. CASE StrictSwitch(op)
  <2>1. PICK failed \in FailedActivations(request[op]) :
            /\ Becomes(Granted(request[op], active) \ failed)
            /\ \/ Answered(op) /\ UNCHANGED stream
               \/ Ends(op)
    BY <1>3 DEF StrictSwitch
  <2> DEFINE set == Granted(request[op], active) \ failed
  <2>2. set \in SUBSET Controllers /\ Exclusive(set) /\ WRENCH \in set
    BY <1>1, <1>3, GrantedIsSafe, FailuresAreTyped DEF StrictSwitch
  <2>3. late' = late
    BY <1>3 DEF StrictSwitch
  <2> HIDE DEF set
  <2>4. CASE Answered(op) /\ UNCHANGED stream
    BY <1>1, <2>1, <2>2, <2>3, <2>4, ServesKeepsIInv DEF set
  <2>5. CASE Ends(op)
    BY <1>1, <2>1, <2>2, <2>3, <2>5, EndsServedKeepsIInv DEF set
  <2> QED
    BY <2>1, <2>4, <2>5
<1>4. CASE StrictFails(op)
  BY <1>2, <1>4, RaisesKeepsIInv DEF StrictFails
<1>5. CASE StockSwitch(op)
  <2>1. PICK outcome \in StockOutcomes(request[op], active) : Becomes(outcome)
    BY <1>5 DEF StockSwitch
  <2>2. outcome \in SUBSET Controllers /\ Exclusive(outcome) /\ WRENCH \in outcome
    BY <1>1, StockIsTyped
  <2> QED
    BY <1>1, <1>5, <2>1, <2>2, ServesKeepsIInv DEF StockSwitch
<1>6. CASE TimesOut(op)
  BY <1>1, <1>2, <1>6, EndsKeepsIInv DEF TimesOut, Abandons
<1> QED
  BY <1>3, <1>4, <1>5, <1>6

LEMMA LateKeepsIInv ==
    ASSUME IInv, LateSwitch
    PROVE  IInv'
<1>1. /\ late \in Request /\ Sound(late)
      /\ active \in SUBSET Controllers /\ Exclusive(active) /\ WRENCH \in active
  BY DEF LateSwitch, IInv, StateOK, RequestsSound, WrenchStays
<1>2. /\ active' \in SUBSET Controllers /\ Exclusive(active') /\ WRENCH \in active'
      /\ where' \in Places /\ (moving' = moving \/ moving' = None)
  <2>1. ASSUME NEW set \in SUBSET Controllers, Exclusive(set), WRENCH \in set, Becomes(set)
        PROVE  /\ active' \in SUBSET Controllers /\ Exclusive(active') /\ WRENCH \in active'
               /\ where' \in Places /\ (moving' = moving \/ moving' = None)
    BY <2>1, BecomesTyped
  <2>2. CASE late.kind = "stock"
    <3>1. PICK outcome \in StockOutcomes(late, active) : Becomes(outcome)
      BY <2>2 DEF LateSwitch
    <3> QED
      BY <1>1, <2>1, <3>1, StockIsTyped
  <2>3. CASE late.kind = "strict" /\ Feasible(late, active)
    <3>1. PICK failed \in FailedActivations(late) : Becomes(Granted(late, active) \ failed)
      BY <2>3 DEF LateSwitch
    <3>2. /\ Granted(late, active) \in SUBSET Controllers
          /\ Exclusive(Granted(late, active)) /\ WRENCH \in Granted(late, active)
      BY <1>1, <2>3, GrantedIsSafe
    <3> QED
      BY <2>1, <3>1, <3>2, FailuresAreTyped
  <2>4. CASE late.kind = "strict" /\ ~Feasible(late, active)
    <3>1. Becomes(active)
      BY <2>4 DEF LateSwitch
    <3> QED
      BY <1>1, <2>1, <3>1
  <2> QED
    BY <1>1, <2>2, <2>3, <2>4 DEF Request
<1>3. late' = None /\ UNCHANGED <<todo, stream, request>>
  BY DEF LateSwitch
<1>4. None \notin Operators
  BY SwitchAssumption
<1>5. StateOK'
  BY <1>2, <1>3 DEF IInv, StateOK
<1>6. Waiting'
  BY <1>2, <1>3, <1>4 DEF IInv, Waiting
<1>7. RequestsSound' /\ WrenchStays'
  BY <1>2, <1>3 DEF IInv, RequestsSound, WrenchStays
<1> QED
  BY <1>5, <1>6, <1>7 DEF IInv

LEMMA CellKeepsIInv ==
    ASSUME IInv,
           \/ \E op \in Operators : Interrupted(op)
           \/ \E adapter \in Adapters : AdapterFails(adapter)
           \/ ArmMoves
           \/ UNCHANGED vars
    PROVE  IInv'
<1>1. ASSUME NEW op \in Operators, Interrupted(op) PROVE IInv'
  BY <1>1, EndsKeepsIInv DEF Interrupted, Abandons, IInv, Waiting
<1>2. ASSUME NEW adapter \in Adapters, AdapterFails(adapter) PROVE IInv'
  <2>1. WRENCH # adapter
    BY <1>2 DEF Adapters, WRENCH, PASSTHROUGH, ZERO_EFFORT
  <2>2. StateOK'
    BY <1>2 DEF AdapterFails, IInv, StateOK, Exclusive
  <2>3. Waiting' /\ RequestsSound' /\ WrenchStays'
    BY <1>2, <2>1 DEF AdapterFails, IInv, Waiting, RequestsSound, WrenchStays
  <2> QED
    BY <2>2, <2>3 DEF IInv
<1>3. CASE ArmMoves
  BY <1>3 DEF ArmMoves, IInv, StateOK, Waiting, RequestsSound, WrenchStays
<1>4. CASE UNCHANGED vars
  BY <1>4 DEF vars, IInv, StateOK, Waiting, RequestsSound, WrenchStays
<1> QED
  BY <1>1, <1>2, <1>3, <1>4

LEMMA SpawnKeepsIInv ==
    ASSUME IInv, NEW op \in Operators, Spawn(op)
    PROVE  IInv'
<1>1. todo[op] # <<>> /\ request[op] = None /\ moving # op
  BY NotMoving DEF Spawn, At
<1>2. Head(todo[op]) \in Steps /\ Head(todo[op]).do = "spawn"
  BY <1>1, TailTyped DEF IInv, StateOK, Spawn, At
<1>3. Head(todo[op]).to \in Controllers
  BY <1>2 DEF Steps
<1> QED
  BY <1>1, <1>3, SpawnRequestSound, AsksKeepsIInv DEF Spawn, AskStrict, Ask

LEMMA NextKeepsIInv == IInv /\ [Next]_vars => IInv'
BY AskStockKeepsIInv, SpawnKeepsIInv, StartKeepsIInv, ChecksKeepIInv, SafeSwitchKeepsIInv, MoveKeepsIInv, GoalEndsKeepsIInv,
   ManagerKeepsIInv, LateKeepsIInv, CellKeepsIInv DEF Next, Acts, Operates, Works, GoalEnds

THEOREM IInvHolds == Spec => []IInv
BY InitIInv, NextKeepsIInv, PTL DEF Spec

-----------------------------------------------------------------------------
(* No command interface ever has two owners, and the processes' records    *)
(* stay well formed, for any number of operators.                          *)
THEOREM TypeSafe == Spec => []TypeOK
<1>1. Init => crossed \in BOOLEAN
  BY DEF Init
<1>2. crossed \in BOOLEAN /\ [Next]_vars => (crossed \in BOOLEAN)'
  BY DEF Next, Remembers, vars
<1>3. IInv /\ crossed \in BOOLEAN => TypeOK
  BY DEF IInv, TypeOK
<1> QED
  BY <1>1, <1>2, <1>3, IInvHolds, PTL DEF Spec

(* No switch ever drops the wrench source.                                 *)
THEOREM WrenchSafe == Spec => []WrenchStays
BY IInvHolds, PTL DEF IInv

(* Processes only ask: the active set changes by a service or a failure.   *)
LEMMA OnlyServicesSwitch ==
    ASSUME [Next]_vars, active' # active
    PROVE  \/ \E op \in Operators : StrictSwitch(op) \/ StockSwitch(op)
           \/ LateSwitch
           \/ \E adapter \in Adapters : AdapterFails(adapter)
<1>1. ASSUME NEW op \in Operators, NEW process, StartProcess(op, process) PROVE FALSE
  BY <1>1 DEF StartProcess
<1>2. ASSUME NEW op \in Operators,
             \/ Spawn(op) \/ Gate(op) \/ RestFirst(op) \/ Settle(op) \/ Park(op) \/ Exit(op)
             \/ SafeSwitch(op) \/ AskStock(op) \/ BeginMove(op) \/ RefuseMove(op) \/ SendGoal(op)
             \/ GoalLost(op) \/ StrictFails(op) \/ TimesOut(op) \/ Interrupted(op)
      PROVE  FALSE
  BY <1>2 DEF Spawn, Gate, RestFirst, Settle, Park, Exit, SafeSwitch, Arm, AlreadyAtRest,
              Disarm, Swap, Refuse, AskStock, BeginMove, RefuseMove, SendGoal, GoalLost, StrictFails,
              TimesOut, Interrupted, Raises
<1>3. ~GoalEnds /\ ~ArmMoves /\ ~UNCHANGED vars
  BY DEF GoalEnds, GoalReached, GoalAborts, ArmMoves, vars
<1> QED
  BY <1>1, <1>2, <1>3 DEF Next, Acts, Operates, Works

(* A step that changes the active set is served STRICT, served by the      *)
(* stock switcher, or is an adapter's failure.                             *)
LEMMA ActiveChanges ==
    ASSUME IInv, [Next]_vars, active' # active
    PROVE  \/ /\ Held(active) => Held(active')
              /\ Claimed(active) => Claimed(active')
           \/ StockServes
           \/ AdapterDropped
<1>1. ASSUME NEW r \in Served, r \in Request, r.kind = "strict", Sound(r), Feasible(r, active),
             NEW failed \in FailedActivations(r), active' = Granted(r, active) \ failed
      PROVE  \/ (Held(active) => Held(active')) /\ (Claimed(active) => Claimed(active'))
             \/ AdapterDropped
  <2>1. CASE failed = {}
    <3>1. active' = Granted(r, active) /\ active \in SUBSET Controllers
      BY <1>1, <2>1 DEF IInv, StateOK
    <3> QED
      BY <1>1, <3>1, GrantedIsSafe
  <2>2. CASE failed # {}
    <3>1. PICK adapter \in Adapters : adapter \in r.activate \ active'
      BY <1>1, <2>2 DEF FailedActivations
    <3> QED
      BY <1>1, <3>1 DEF AdapterDropped, FailsToActivate
  <2> QED
    BY <2>1, <2>2
<1>2. ASSUME NEW op \in Operators, StrictSwitch(op)
      PROVE  \/ (Held(active) => Held(active')) /\ (Claimed(active) => Claimed(active'))
             \/ AdapterDropped
  <2>1. /\ request[op] \in Request /\ request[op].kind = "strict"
        /\ Sound(request[op]) /\ Feasible(request[op], active)
    BY <1>2 DEF StrictSwitch, IInv, StateOK, RequestsSound
  <2>2. PICK failed \in FailedActivations(request[op]) :
            active' = Granted(request[op], active) \ failed
    BY <1>2 DEF StrictSwitch, Becomes
  <2>3. request[op] \in Served
    BY <1>2 DEF StrictSwitch, Answered, Ends, Served, IInv, StateOK
  <2> QED
    BY <1>1, <2>1, <2>2, <2>3
<1>5. ASSUME LateSwitch
      PROVE  \/ (Held(active) => Held(active')) /\ (Claimed(active) => Claimed(active'))
             \/ StockServes \/ AdapterDropped
  <2>1. late \in Request /\ Sound(late) /\ late \in Served
    BY <1>5 DEF LateSwitch, Served, IInv, StateOK, RequestsSound
  <2>2. CASE late.kind = "stock"
    BY <2>1, <2>2 DEF StockServes
  <2>3. CASE late.kind = "strict" /\ Feasible(late, active)
    <3>1. PICK failed \in FailedActivations(late) : active' = Granted(late, active) \ failed
      BY <1>5, <2>3 DEF LateSwitch, Becomes
    <3> QED
      BY <1>1, <2>1, <2>3, <3>1
  <2>4. CASE late.kind = "strict" /\ ~Feasible(late, active)
    BY <1>5, <2>4 DEF LateSwitch, Becomes
  <2> QED
    BY <2>1, <2>2, <2>3, <2>4 DEF Request
<1>3. ASSUME NEW op \in Operators, StockSwitch(op) PROVE StockServes
  BY <1>3 DEF StockSwitch, StockServes, Served, Answered, IInv, StateOK
<1>4. ASSUME NEW adapter \in Adapters, AdapterFails(adapter)
      PROVE  AdapterDropped
  BY <1>4 DEF AdapterFails, AdapterDropped
<1> QED
  BY <1>2, <1>3, <1>4, <1>5, OnlyServicesSwitch

(* Only crisp_py's stock switcher or a failing adapter lets a held arm go. *)
THEOREM HoldSafe == Spec => HoldLostOnlyByStock
<1>1. ASSUME IInv, [Next]_vars, Held(active), ~Held(active')
      PROVE  StockServes \/ AdapterDropped
  <2>1. active' # active
    BY <1>1
  <2> QED
    BY <1>1, <2>1, ActiveChanges
<1>2. IInv /\ [Next]_vars =>
        [Held(active) /\ ~Held(active') => StockServes \/ AdapterDropped]_vars
  BY <1>1
<1> QED
  BY <1>2, IInvHolds, PTL DEF Spec, HoldLostOnlyByStock

(* Likewise for the owners of the position and effort interfaces.          *)
THEOREM ClaimSafe == Spec => ClaimLostOnlyByStock
<1>1. ASSUME IInv, [Next]_vars, Claimed(active), ~Claimed(active')
      PROVE  StockServes \/ AdapterDropped
  <2>1. active' # active
    BY <1>1
  <2> QED
    BY <1>1, <2>1, ActiveChanges
<1>2. IInv /\ [Next]_vars =>
        [Claimed(active) /\ ~Claimed(active') => StockServes \/ AdapterDropped]_vars
  BY <1>1
<1> QED
  BY <1>2, IInvHolds, PTL DEF Spec, ClaimLostOnlyByStock
=============================================================================
