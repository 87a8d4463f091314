-------------------------- MODULE ExcitePlayerProofs --------------------------
(***************************************************************************)
(* The excitation player for every plan, arm, ramp and tolerance, however  *)
(* late its iterations come and whatever the bridge answers: its variables *)
(* stay what the code may make them, no row outside the plan is ever       *)
(* commanded, and the plan's clock stays under the ramp.                   *)
(***************************************************************************)
EXTENDS ExcitePlayer, TLAPS

Datagram == {Probe} \cup {Command(q) : q \in JointAngles}

(* Nothing has been counted before the run begins, nor any time behind     *)
(* before its first iteration.                                             *)
IdleBefore ==
    /\ stage \in {"probing", "prompt"} => clock = 0 /\ elapsed = 0 /\ waited = 0
    /\ sample = None => behind_for = None

(* The strengthening RampBounds needs: what the clock was given it was     *)
(* given at the latest iteration, `waited` units ago.                      *)
RampHeld ==
    stage = "streaming" /\ elapsed < Ramp =>
        /\ waited <= elapsed
        /\ clock <= (elapsed - waited) * (elapsed - waited)

(* A pin has a configuration to hold, and a release is still to be sent.   *)
EndsInOrder ==
    /\ stage = "pinning" => held # None
    /\ stage = "releasing" => left > 0

PInv == TypeOK /\ IdleBefore /\ RampHeld /\ EndsInOrder

-----------------------------------------------------------------------------
LEMMA Numbers ==
    /\ JointAngles \subseteq Int
    /\ Ramp \in Nat \ {0} /\ PinFor \in Nat \ {0} /\ Releases \in Nat \ {0}
    /\ MaxStall \in Nat \ {0} /\ AnswersCap \in Nat \ {0}
    /\ AbortAfter \in Nat /\ Plan \in Seq(JointAngles) /\ Len(Plan) \in Nat \ {0}
    /\ None \notin Int
<1>1. Plan \in Seq(JointAngles) /\ Plan # <<>>
  BY PlayerAssumption
<1>2. Len(Plan) \in Nat \ {0}
  BY <1>1
<1> QED
  BY <1>1, <1>2, PlayerAssumption

LEMMA EndIsNat == End \in Nat
BY Numbers DEF End

(* A step of the clock at the rate of the time since the start, taken for  *)
(* the time since the last step, stays under the square.                   *)
LEMMA SquareGrows ==
    ASSUME NEW e \in Nat, NEW w \in Nat, w <= e
    PROVE  (e - w) * (e - w) + w * e <= e * e
<1> DEFINE a == e - w
<1>1. a \in Nat /\ e = a + w
  OBVIOUS
<1> HIDE DEF a
<1>2. a * a + w * (a + w) <= (a + w) * (a + w)
  <2>1. (a + w) * (a + w) = a * (a + w) + w * (a + w)
    BY <1>1
  <2>2. a * (a + w) = a * a + a * w
    BY <1>1
  <2>3. a * w \in Nat /\ a * a \in Nat /\ w * (a + w) \in Nat
    BY <1>1
  <2> QED
    BY <2>1, <2>2, <2>3
<1>3. a * a + w * e <= e * e
  BY <1>1, <1>2
<1> QED
  BY <1>3 DEF a

LEMMA ProductIsNat == \A m, n \in Nat : m * n \in Nat
OBVIOUS

(* The clock never runs backward nor past the plan's end.                  *)
LEMMA AdvancedTyped ==
    ASSUME TypeOK
    PROVE  /\ Advanced \in 0..End
           /\ Advanced <= clock \/ Advanced <= clock + waited * elapsed
<1>1. clock \in Nat /\ clock <= End /\ waited \in Nat /\ elapsed \in Nat
  BY EndIsNat DEF TypeOK
<1>2. waited * elapsed \in Nat
  BY <1>1, ProductIsNat
<1> DEFINE gain == waited * elapsed
<1>3. gain \in Nat
  BY <1>2
<1> HIDE DEF gain
<1>4. Until(clock + gain) \in 0..End /\ Until(clock + gain) <= clock + gain
  BY <1>1, <1>3, EndIsNat DEF Until
<1>5. Advanced = IF Behind THEN clock ELSE Until(clock + gain)
  BY DEF Advanced, gain
<1> QED
  BY <1>1, <1>4, <1>5 DEF gain

(* The commanded row is a row of the plan, also after the last one.        *)
LEMMA IndexTyped ==
    ASSUME TypeOK
    PROVE  Index + 1 \in 1..Len(Plan) /\ Plan[Index + 1] \in JointAngles
<1>1. Advanced \in Nat
  BY AdvancedTyped, EndIsNat
<1>2. Reached \in Nat
  BY <1>1, Numbers DEF Reached
<1>3. Index + 1 \in 1..Len(Plan)
  BY <1>2, Numbers DEF Index
<1> QED
  BY <1>3, Numbers

LEMMA TransmitTyped ==
    ASSUME TypeOK, NEW datagram \in Datagram, Transmit(datagram)
    PROVE  link' \in {<<>>} \cup {<<d>> : d \in Datagram}
BY DEF TypeOK, Transmit, Datagram

LEMMA DrainTyped ==
    ASSUME TypeOK, Drain
    PROVE  /\ measured_q' \in JointAngles \cup {None}
           /\ measured_p' \in {Tip[q] : q \in JointAngles} \cup {None}
           /\ answers' \in Seq(Answer)
<1>1. CASE answers = <<>>
  BY <1>1 DEF TypeOK, Drain, arm_seen
<1>2. CASE answers # <<>>
  <2>1. answers \in Seq(Answer) /\ answers[Len(answers)] \in Answer
    BY <1>2 DEF TypeOK
  <2>2. <<>> \in Seq(Answer)
    OBVIOUS
  <2>3. ASSUME NEW latest \in Answer
        PROVE  /\ latest.pose \in {Tip[q] : q \in JointAngles}
               /\ latest.joints \in JointAngles \cup {None}
    BY DEF Answer
  <2>4. /\ measured_p' = answers[Len(answers)].pose
        /\ measured_q' = IF answers[Len(answers)].joints # None
                         THEN answers[Len(answers)].joints ELSE measured_q
        /\ answers' = <<>>
    BY <1>2 DEF Drain
  <2> QED
    BY <2>1, <2>2, <2>3, <2>4 DEF TypeOK
<1> QED
  BY <1>1, <1>2

-----------------------------------------------------------------------------
LEMMA InitPInv == Init => PInv
<1>1. <<>> \in Seq(Answer)
  OBVIOUS
<1>2. ASSUME Init PROVE TypeOK
  <2>1. 0 \in 0..End /\ 0 \in 0..Ramp /\ 0 \in 0..MaxStall /\ 0 \in 0..PinFor + Releases
    BY Numbers, EndIsNat
  <2>2. /\ stage = "probing" /\ stop = FALSE /\ sample = None /\ clock = 0 /\ elapsed = 0
        /\ waited = 0 /\ behind_for = None /\ measured_q = None /\ measured_p = None
        /\ held = None /\ left = 0 /\ answers = <<>> /\ link = <<>>
    BY <1>2 DEF Init, FreshPlayer
  <2> QED
    BY <1>1, <2>1, <2>2 DEF TypeOK
<1>3. ASSUME Init PROVE IdleBefore /\ RampHeld /\ EndsInOrder
  BY <1>3 DEF Init, FreshPlayer, IdleBefore, RampHeld, EndsInOrder
<1> QED
  BY <1>2, <1>3 DEF PInv

LEMMA BeforeKeepsPInv ==
    ASSUME PInv, AskState \/ CheckStart \/ NotStarted \/ Confirmed \/ Signal
    PROVE  PInv'
<1> USE DEF PInv
<1>1. CASE AskState
  <2>1. link' \in {<<>>} \cup {<<d>> : d \in Datagram}
    BY <1>1, TransmitTyped DEF AskState, Datagram
  <2>2. TypeOK'
    BY <1>1, <2>1 DEF AskState, TypeOK, player, run, arm_seen, Datagram
  <2>3. IdleBefore' /\ RampHeld' /\ EndsInOrder'
    BY <1>1 DEF AskState, IdleBefore, RampHeld, EndsInOrder, player, run
  <2> QED
    BY <2>2, <2>3
<1>2. CASE CheckStart
  <2>1. answers' \in Seq(Answer)
    BY <1>2 DEF CheckStart, TypeOK
  <2>2. TypeOK'
    BY <1>2, <2>1 DEF CheckStart, TypeOK, run, arm_seen
  <2>3. IdleBefore' /\ RampHeld' /\ EndsInOrder'
    BY <1>2 DEF CheckStart, IdleBefore, RampHeld, EndsInOrder, run
  <2> QED
    BY <2>2, <2>3
<1>3. CASE NotStarted \/ Signal
  <2>1. TypeOK'
    BY <1>3 DEF NotStarted, Signal, TypeOK, run, arm_seen
  <2>2. IdleBefore' /\ RampHeld' /\ EndsInOrder'
    BY <1>3 DEF NotStarted, Signal, IdleBefore, RampHeld, EndsInOrder, run
  <2> QED
    BY <2>1, <2>2
<1>4. CASE Confirmed
  <2>1. TypeOK'
    BY <1>4 DEF Confirmed, TypeOK, run, arm_seen
  <2>2. IdleBefore' /\ RampHeld' /\ EndsInOrder'
    BY <1>4 DEF Confirmed, IdleBefore, RampHeld, EndsInOrder, run
  <2> QED
    BY <2>1, <2>2
<1> QED
  BY <1>1, <1>2, <1>3, <1>4

LEMMA IterateKeepsPInv ==
    ASSUME PInv, Iterate
    PROVE  PInv'
<1> USE DEF PInv
<1>1. link' \in {<<>>} \cup {<<d>> : d \in Datagram}
  <2>1. Command(Plan[Index + 1]) \in Datagram
    BY IndexTyped DEF Datagram
  <2> QED
    BY <2>1, TransmitTyped DEF Iterate, TypeOK, Datagram
<1>2. behind_for' \in 0..AbortAfter \cup {None}
  <2>1. CASE Behind
    <3>1. BehindSince \in Nat
      BY Numbers DEF BehindSince, TypeOK
    <3>2. ~(BehindSince > AbortAfter)
      BY <2>1 DEF Iterate, Leaves, GaveUpFollowing
    <3> QED
      BY <2>1, <3>1, <3>2, Numbers DEF Iterate
  <2>2. CASE ~Behind
    BY <2>2 DEF Iterate
  <2> QED
    BY <2>1, <2>2
<1>3. TypeOK'
  BY <1>1, <1>2, AdvancedTyped, IndexTyped, DrainTyped, Numbers
     DEF Iterate, TypeOK, Datagram
<1>4. IdleBefore' /\ EndsInOrder'
  BY IndexTyped, Numbers DEF Iterate, IdleBefore, EndsInOrder
<1>5. RampHeld'
  <2> SUFFICES ASSUME elapsed < Ramp
               PROVE  clock' <= elapsed * elapsed /\ 0 <= elapsed
    <3>1. elapsed \in Nat
      BY Numbers DEF TypeOK
    <3> QED
      BY <3>1 DEF Iterate, RampHeld
  <2>1. elapsed \in Nat /\ waited \in Nat /\ waited <= elapsed /\ clock \in Nat
        /\ clock <= (elapsed - waited) * (elapsed - waited)
    BY Numbers, EndIsNat DEF Iterate, TypeOK, RampHeld
  <2> DEFINE before == (elapsed - waited) * (elapsed - waited)
  <2> DEFINE gain == waited * elapsed
  <2> DEFINE square == elapsed * elapsed
  <2>2. before + gain <= square
    BY <2>1, SquareGrows
  <2>3. before \in Nat /\ gain \in Nat /\ square \in Nat
    BY <2>1, ProductIsNat
  <2>4. Advanced \in Int /\ (Advanced <= clock \/ Advanced <= clock + gain)
    BY AdvancedTyped, EndIsNat
  <2>5. clock <= before /\ clock' = Advanced
    BY <2>1 DEF Iterate
  <2> HIDE DEF before, gain, square
  <2>6. Advanced <= square
    BY <2>1, <2>2, <2>3, <2>4, <2>5
  <2> QED
    BY <2>1, <2>5, <2>6 DEF square
<1> QED
  BY <1>3, <1>4, <1>5

LEMMA EndingKeepsPInv ==
    ASSUME PInv, Leave \/ Pin \/ PinEnds \/ LetGo
    PROVE  PInv'
<1> USE DEF PInv
<1>1. IdleBefore' /\ RampHeld' /\ EndsInOrder'
  <2>1. CASE Leave \/ PinEnds
    BY <2>1, Numbers DEF Leave, PinEnds, run, IdleBefore, RampHeld, EndsInOrder
  <2>2. CASE Pin
    BY <2>2 DEF Pin, IdleBefore, RampHeld, EndsInOrder
  <2>3. CASE LetGo
    <3>1. left \in Nat /\ left > 0
      BY <2>3, Numbers DEF LetGo, EndsInOrder, TypeOK
    <3> QED
      BY <2>3, <3>1 DEF LetGo, IdleBefore, RampHeld, EndsInOrder
  <2> QED
    BY <2>1, <2>2, <2>3
<1>2. CASE Leave
  <2>1. /\ measured_q' \in JointAngles \cup {None}
        /\ measured_p' \in {Tip[q] : q \in JointAngles} \cup {None}
        /\ answers' \in Seq(Answer)
    BY <1>2, DrainTyped DEF Leave
  <2>2. left' \in 0..PinFor + Releases /\ held' \in JointAngles \cup {None}
    BY <1>2, <2>1, Numbers DEF Leave
  <2> QED
    BY <1>1, <1>2, <2>1, <2>2, Numbers DEF Leave, TypeOK
<1>3. CASE Pin
  <2>1. Command(held) \in Datagram
    BY <1>3 DEF Pin, TypeOK, Datagram, EndsInOrder
  <2>2. link' \in {<<>>} \cup {<<d>> : d \in Datagram}
    BY <1>3, <2>1, TransmitTyped DEF Pin
  <2>3. left' \in 0..PinFor + Releases /\ waited' \in 0..MaxStall
    BY <1>3, Numbers DEF Pin, TypeOK
  <2> QED
    BY <1>1, <1>3, <2>2, <2>3 DEF Pin, TypeOK, arm_seen, Datagram
<1>4. CASE PinEnds
  <2>1. /\ measured_q' \in JointAngles \cup {None}
        /\ measured_p' \in {Tip[q] : q \in JointAngles} \cup {None}
        /\ answers' \in Seq(Answer)
    BY <1>4, DrainTyped DEF PinEnds
  <2>2. left' \in 0..PinFor + Releases
    BY <1>4, Numbers DEF PinEnds
  <2> QED
    BY <1>1, <1>4, <2>1, <2>2 DEF PinEnds, TypeOK, run
<1>5. CASE LetGo
  <2>1. link' \in {<<>>} \cup {<<d>> : d \in Datagram}
    BY <1>5, TransmitTyped DEF LetGo, Datagram
  <2>2. left' \in 0..PinFor + Releases /\ waited' \in 0..MaxStall
    BY <1>5, Numbers DEF LetGo, TypeOK, EndsInOrder
  <2> QED
    BY <1>1, <1>5, <2>1, <2>2 DEF LetGo, TypeOK, arm_seen, Datagram
<1> QED
  BY <1>2, <1>3, <1>4, <1>5

LEMMA WorldKeepsPInv ==
    ASSUME PInv,
           \/ TimePasses /\ UNCHANGED <<answers, listening, link>>
           \/ AnyBridge
           \/ UNCHANGED vars
    PROVE  PInv'
<1> USE DEF PInv
<1>1. CASE TimePasses /\ UNCHANGED <<answers, listening, link>>
  <2>1. waited' \in 0..MaxStall /\ elapsed' \in 0..Ramp
    BY <1>1, Numbers DEF TimePasses, Ages, TypeOK
  <2>2. TypeOK'
    BY <1>1, <2>1 DEF TimePasses, TypeOK, arm_seen
  <2>3. IdleBefore' /\ EndsInOrder'
    BY <1>1 DEF TimePasses, Ages, Running, IdleBefore, EndsInOrder
  <2>4. RampHeld'
    <3> SUFFICES ASSUME stage = "streaming", elapsed' < Ramp
                 PROVE  /\ waited' <= elapsed'
                        /\ clock <= (elapsed' - waited') * (elapsed' - waited')
      BY <1>1 DEF TimePasses, RampHeld
    <3>1. elapsed \in Nat /\ waited \in Nat /\ Ramp \in Nat
      BY Numbers DEF TypeOK
    <3>2. waited' = waited + 1 /\ elapsed' = elapsed + 1 /\ elapsed < Ramp
      BY <1>1, <3>1 DEF TimePasses, Ages, Running
    <3>3. elapsed' - waited' = elapsed - waited /\ waited' <= elapsed'
      BY <3>1, <3>2 DEF RampHeld
    <3> QED
      BY <3>2, <3>3 DEF RampHeld
  <2> QED
    BY <2>2, <2>3, <2>4
<1>2. CASE AnyBridge
  <2>1. answers' \in Seq(Answer)
    <3>1. ASSUME NEW answer \in Answer PROVE Queued(answer) \in Seq(Answer)
      <4>1. answers \in Seq(Answer) /\ Append(answers, answer) \in Seq(Answer)
        BY DEF TypeOK
      <4>2. answers # <<>> => Append(Tail(answers), answer) \in Seq(Answer)
        BY <4>1
      <4>3. answers = <<>> => Len(answers) < AnswersCap
        BY Numbers
      <4> QED
        BY <4>1, <4>2, <4>3 DEF Queued
    <3> QED
      BY <1>2, <3>1 DEF AnyBridge, TypeOK
  <2>2. link' \in {<<>>} \cup {<<d>> : d \in Datagram}
    BY <1>2 DEF AnyBridge, TypeOK, Datagram
  <2> QED
    BY <1>2, <2>1, <2>2
       DEF AnyBridge, player, run, arm_seen, TypeOK, IdleBefore, RampHeld, EndsInOrder, Datagram
<1>3. CASE UNCHANGED vars
  BY <1>3 DEF vars, player, run, arm_seen, TypeOK, IdleBefore, RampHeld, EndsInOrder
<1> QED
  BY <1>1, <1>2, <1>3

THEOREM PInvHolds == Spec => []PInv
<1>1. PInv /\ [Next]_vars => PInv'
  BY BeforeKeepsPInv, IterateKeepsPInv, EndingKeepsPInv, WorldKeepsPInv DEF Next, Act, Work
<1> QED
  BY <1>1, InitPInv, PTL DEF Spec

-----------------------------------------------------------------------------
(* Every row the player commands is a row of the plan, every datagram a    *)
(* probe, a release or a command of a configuration of the arm.            *)
THEOREM PlayerTyped == Spec => []TypeOK
BY PInvHolds, PTL DEF PInv

(* While the ramp lasts the plan is at most the square of the time since   *)
(* the start in, over the ramp, however late the iterations come.          *)
THEOREM RampSafe == Spec => []RampBounds
<1>1. PInv => RampBounds
  <2> SUFFICES ASSUME PInv, stage = "streaming", elapsed < Ramp
               PROVE  clock <= elapsed * elapsed
    BY DEF RampBounds
  <2>1. elapsed \in Nat /\ waited \in Nat /\ waited <= elapsed /\ clock \in Nat
        /\ clock <= (elapsed - waited) * (elapsed - waited)
    BY Numbers, EndIsNat DEF PInv, TypeOK, RampHeld
  <2> DEFINE before == (elapsed - waited) * (elapsed - waited)
  <2> DEFINE gain == waited * elapsed
  <2> DEFINE square == elapsed * elapsed
  <2>2. before + gain <= square
    BY <2>1, SquareGrows
  <2>3. before \in Nat /\ gain \in Nat /\ square \in Nat
    BY <2>1, ProductIsNat
  <2>4. clock <= before
    BY <2>1
  <2> HIDE DEF before, gain, square
  <2>5. clock <= square
    BY <2>1, <2>2, <2>3, <2>4
  <2> QED
    BY <2>5 DEF square
<1> QED
  BY <1>1, PInvHolds, PTL

-----------------------------------------------------------------------------
(***************************************************************************)
(* A run is of bounded length.                                             *)
(***************************************************************************)
LEMMA LessTimes ==
    ASSUME NEW x \in Nat, NEW y \in Nat, NEW k \in Nat, x < y
    PROVE  x * (k + 2) + k + 1 < y * (k + 2)
OBVIOUS

CountsTyped ==
    /\ StepsLeft \in Nat /\ RowsLeft \in Nat
    /\ Patience \in 0..AbortAfter + 1 /\ First \in 0..1

LEMMA CountsAreTyped == TypeOK => CountsTyped
<1> SUFFICES ASSUME TypeOK PROVE CountsTyped
  OBVIOUS
<1>1. Patience \in 0..AbortAfter + 1
  BY Numbers DEF Patience, TypeOK
<1>2. End - clock \in Nat
  BY EndIsNat DEF TypeOK
<1>3. RowsLeft \in Nat
  BY <1>2, Numbers, ProductIsNat DEF RowsLeft
<1>4. left \in Nat /\ First \in 0..1
  BY Numbers DEF TypeOK, First
<1>5. PinFor + Releases + 3 + First + RowsLeft + Patience \in Nat
  BY <1>1, <1>3, <1>4, Numbers
<1>6. Releases + 1 + left \in Nat
  BY <1>4, Numbers
<1>7. StepsLeft \in Nat
  BY <1>4, <1>5, <1>6 DEF StepsLeft
<1> QED
  BY <1>1, <1>3, <1>4, <1>7 DEF CountsTyped

LEMMA CountsStayTyped == TypeOK' => CountsTyped'
BY CountsAreTyped, PTL

(* The plan's end is noticed in the iteration that reaches it.             *)
LEMMA EndIsReached ==
    ASSUME TypeOK, Iterate
    PROVE  Advanced < End
<1>1. Advanced \in Nat /\ Advanced <= End
  BY AdvancedTyped, EndIsNat
<1>2. (Ramp * Len(Plan)) \div Ramp = Len(Plan)
  BY Numbers
<1>3. Advanced # End
  BY <1>2 DEF Iterate, Leaves, Finished, Reached, End
<1> QED
  BY <1>1, <1>3, EndIsNat

(* An iteration that keeps up moves the clock: some time has passed since  *)
(* the last one, so some has passed since the start.                       *)
LEMMA ClockMoves ==
    ASSUME PInv, Iterate, sample # None, ~Behind
    PROVE  clock < Advanced
<1>1. waited \in Nat /\ waited > 0 /\ elapsed \in Nat /\ elapsed > 0
  BY Numbers DEF Iterate, Due, PInv, TypeOK, RampHeld
<1> DEFINE gain == waited * elapsed
<1>2. gain \in Nat /\ gain > 0
  BY <1>1
<1> HIDE DEF gain
<1>3. Advanced = Until(clock + gain)
  BY DEF Advanced, gain
<1>4. Advanced < End /\ clock \in Nat
  BY EndIsReached, EndIsNat DEF PInv, TypeOK
<1> QED
  BY <1>2, <1>3, <1>4, EndIsNat DEF Until

LEMMA IterateRunsOut ==
    ASSUME PInv, PInv', Iterate
    PROVE  StepsLeft' < StepsLeft
<1>1. /\ RowsLeft \in Nat /\ RowsLeft' \in Nat
      /\ Patience \in 0..AbortAfter + 1 /\ Patience' \in 0..AbortAfter + 1
      /\ First \in 0..1
  BY CountsAreTyped, CountsStayTyped DEF PInv, CountsTyped
<1>2. /\ StepsLeft = PinFor + Releases + 3 + First + RowsLeft + Patience
      /\ StepsLeft' = PinFor + Releases + 3 + 0 + RowsLeft' + Patience'
  <2>1. sample' # None
    BY IndexTyped, Numbers DEF Iterate, PInv
  <2> QED
    BY <2>1 DEF StepsLeft, Iterate, First
<1> DEFINE base == PinFor + Releases + 3
<1>b. base \in Nat /\ AbortAfter \in Nat
  BY Numbers
<1>c. PICK f, r, p, r_next, p_next \in Nat :
          /\ f = First /\ r = RowsLeft /\ p = Patience
          /\ r_next = RowsLeft' /\ p_next = Patience' /\ p_next <= AbortAfter + 1
  BY <1>1, <1>b
<1>d. StepsLeft = base + f + r + p /\ StepsLeft' = base + r_next + p_next
  BY <1>2, <1>b, <1>c
<1> HIDE DEF base
<1>3. clock' = Advanced /\ clock \in Nat /\ Advanced \in Nat /\ clock <= End /\ Advanced <= End
  BY AdvancedTyped, EndIsNat DEF Iterate, PInv, TypeOK
<1>4. CASE Behind
  <2>1. RowsLeft' = RowsLeft
    BY <1>4 DEF Iterate, Advanced, End, RowsLeft
  <2>2. BehindSince \in Nat /\ BehindSince <= AbortAfter
    BY <1>4, Numbers DEF BehindSince, Iterate, Leaves, GaveUpFollowing, PInv, TypeOK
  <2>3. waited > 0 /\ waited \in Nat /\ sample # None
    BY <1>4, Numbers DEF Behind, Iterate, Due, PInv, TypeOK
  <2>4. Patience' = AbortAfter - BehindSince
    BY <1>4, <2>2, Numbers DEF Patience, Iterate
  <2>5. Patience' < Patience
    <3>1. CASE behind_for = None
      BY <2>2, <2>4, <3>1, Numbers DEF Patience
    <3>2. CASE behind_for # None
      <4>1. behind_for \in Nat /\ BehindSince = behind_for + waited
        BY <3>2, Numbers DEF BehindSince, PInv, TypeOK
      <4>2. Patience = AbortAfter - behind_for
        BY <3>2 DEF Patience
      <4> QED
        BY <2>2, <2>3, <2>4, <4>1, <4>2, Numbers
    <3> QED
      BY <3>1, <3>2
  <2> QED
    <3>1. r_next = r /\ p_next < p
      BY <1>c, <2>1, <2>5
    <3> QED
      BY <1>b, <1>d, <3>1
<1>5. CASE ~Behind /\ sample # None
  <2>1. End - Advanced < End - clock /\ End - Advanced \in Nat /\ End - clock \in Nat
    BY <1>3, <1>5, ClockMoves, EndIsNat
  <2>3. RowsLeft' + AbortAfter + 1 < RowsLeft
    <3>1. \A x, y \in Nat : x < y
            => x * (AbortAfter + 2) + AbortAfter + 1 < y * (AbortAfter + 2)
      BY <1>b, LessTimes
    <3>2. RowsLeft' = (End - Advanced) * (AbortAfter + 2)
      BY <1>3 DEF RowsLeft, End
    <3> QED
      BY <2>1, <3>1, <3>2 DEF RowsLeft
  <2> QED
    <3>1. r_next + AbortAfter + 1 < r
      BY <1>c, <2>3
    <3>2. p_next <= AbortAfter + 1
      BY <1>c
    <3>3. r_next + p_next < r + p
      BY <1>b, <3>1, <3>2
    <3> QED
      BY <1>b, <1>d, <3>3
<1>6. CASE ~Behind /\ sample = None
  <2>1. clock <= Advanced
    <3>1. waited * elapsed \in Nat
      BY Numbers, ProductIsNat DEF PInv, TypeOK
    <3> QED
      BY <1>3, <1>6, <3>1, EndIsNat DEF Advanced, Until
  <2>2. RowsLeft' <= RowsLeft
    <3>1. CASE Advanced = clock
      <4>1. RowsLeft' = RowsLeft
        BY <1>3, <3>1 DEF RowsLeft, End
      <4> QED
        BY <1>1, <4>1
    <3>2. CASE clock < Advanced
      <4>1. End - Advanced < End - clock /\ End - Advanced \in Nat /\ End - clock \in Nat
        BY <1>3, <3>2, EndIsNat
      <4>2. RowsLeft' = (End - Advanced) * (AbortAfter + 2)
        BY <1>3 DEF RowsLeft, End
      <4> QED
        BY <4>1, <4>2, Numbers DEF RowsLeft
    <3> QED
      BY <1>3, <2>1, <3>1, <3>2
  <2>3. Patience = AbortAfter + 1
    BY <1>6 DEF Patience, PInv, IdleBefore
  <2> QED
    <3>1. f = 1 /\ r_next <= r
      BY <1>c, <1>6, <2>2 DEF First
    <3>2. p = AbortAfter + 1
      BY <1>c, <2>3
    <3>3. p_next <= p
      BY <1>c, <3>2
    <3> QED
      BY <1>b, <1>d, <3>1, <3>3
<1> QED
  BY <1>4, <1>5, <1>6

LEMMA EndingRunsOut ==
    ASSUME PInv, Leave \/ Pin \/ PinEnds \/ LetGo
    PROVE  StepsLeft' < StepsLeft
<1> USE Numbers
<1>1. left \in Nat /\ Patience \in Nat /\ RowsLeft \in Nat /\ First \in Nat
  BY CountsAreTyped, Numbers DEF PInv, TypeOK, CountsTyped
<1>2. CASE Leave
  <2>1. StepsLeft = PinFor + Releases + 3 + First + RowsLeft + Patience
    BY <1>2 DEF StepsLeft, Leave
  <2>2. StepsLeft' \in {Releases + 1 + PinFor, Releases}
    BY <1>2 DEF StepsLeft, Leave
  <2> QED
    BY <1>1, <2>1, <2>2
<1>3. CASE Pin
  <2>1. /\ StepsLeft = Releases + 1 + left /\ StepsLeft' = Releases + 1 + left'
        /\ left' = IF waited < left THEN left - waited ELSE 0
        /\ left > 0 /\ waited > 0
    BY <1>3 DEF StepsLeft, Pin
  <2>2. waited \in Nat
    BY DEF PInv, TypeOK
  <2> QED
    BY <1>1, <2>1, <2>2
<1>4. CASE PinEnds
  BY <1>1, <1>4 DEF StepsLeft, PinEnds
<1>5. CASE LetGo
  BY <1>1, <1>5 DEF StepsLeft, LetGo, PInv, EndsInOrder
<1> QED
  BY <1>2, <1>3, <1>4, <1>5

(* Nothing else adds an iteration to a run.                                *)
LEMMA OthersRunOut ==
    ASSUME Running, [Next]_vars, ~Work
    PROVE  StepsLeft' = StepsLeft
<1>1. UNCHANGED <<stage, sample, clock, behind_for, left>>
  BY DEF Running, Next, Act, AskState, CheckStart, NotStarted, Confirmed, Signal,
         TimePasses, AnyBridge, vars, player, run
<1> QED
  BY <1>1 DEF StepsLeft, RowsLeft, Patience, First, End

(* Whatever the bridge answers and however late the iterations come, a run *)
(* takes a bounded number of them: what remains of the proof of RunEnds is *)
(* that the process is scheduled.                                          *)
THEOREM RunIsBounded == Spec => RunsOut
<1>1. PInv /\ PInv' /\ [Next]_vars
      => [Running => StepsLeft' \in 0..StepsLeft /\ (Work => StepsLeft' # StepsLeft)]_vars
  <2> SUFFICES ASSUME PInv, PInv', [Next]_vars, Running
               PROVE  StepsLeft' \in 0..StepsLeft /\ (Work => StepsLeft' # StepsLeft)
    OBVIOUS
  <2>1. StepsLeft \in Nat /\ StepsLeft' \in Nat
    BY CountsAreTyped, CountsStayTyped DEF PInv, CountsTyped
  <2>2. Work => StepsLeft' < StepsLeft
    BY IterateRunsOut, EndingRunsOut DEF Work
  <2> QED
    BY <2>1, <2>2, OthersRunOut
<1> QED
  BY <1>1, PInvHolds, PTL DEF Spec, RunsOut
=============================================================================
