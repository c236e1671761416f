------------------------ MODULE ElevatorControlProofs ------------------------
(***************************************************************************)
(* The safety of one elevator: for any number of floors, any commands, any *)
(* recovered states and any disturbances.                                  *)
(***************************************************************************)
EXTENDS ElevatorControl, TLAPS

-----------------------------------------------------------------------------
(* What the functions of the movement record do. *)

(* Reading the sensor only updates the floor. *)
LEMMA SensedOK ==
  ASSUME NEW c \in Controls, atSensor => low \in Floors
  PROVE  /\ Sensed(c) \in Controls
         /\ Sensed(c).motor = c.motor /\ Sensed(c).direction = c.direction
         /\ Sensed(c).doorLamp = c.doorLamp
         /\ atSensor => Sensed(c).lastFloor = low
  BY DEF Sensed, Controls

(* Stopping stops. *)
LEMMA StoppedOK ==
  ASSUME NEW c \in Controls
  PROVE  /\ Stopped(c) \in Controls
         /\ Stopped(c).motor = "None" /\ Stopped(c).direction = "None"
         /\ Stopped(c).doorLamp = c.doorLamp
         /\ Stopped(c).lastFloor = c.lastFloor
         /\ RememberedDirection(Stopped(c)) = RememberedDirection(c)
  BY DEF Stopped, Controls, Directions, RememberedDirection

(* Shutting the doors changes nothing else. *)
LEMMA ShutOK ==
  ASSUME NEW c \in Controls
  PROVE  /\ Shut(c) \in Controls
         /\ ~Shut(c).doorLamp
         /\ Shut(c).motor = c.motor /\ Shut(c).direction = c.direction
         /\ Shut(c).previous = c.previous /\ Shut(c).lastFloor = c.lastFloor
         /\ RememberedDirection(Shut(c)) = RememberedDirection(c)
  BY DEF Shut, Controls, RememberedDirection

(* Starting never drives towards the end it stands at. *)
LEMMA StartedOK ==
  ASSUME NEW c \in Controls, NEW wanted \in Directions, NEW os,
         atSensor => low \in Floors
  PROVE  LET s == Started(c, wanted, os)
         IN /\ s \in Controls
            /\ s.direction = s.motor
            /\ atSensor /\ s.motor = "Up"   => low # MaxFloor
            /\ atSensor /\ s.motor = "Down" => low # MinFloor
<1> DEFINE t == Sensed(c)
           d == StartDirection(t.lastFloor, wanted, os)
<1>1. t \in Controls /\ (atSensor => t.lastFloor = low)
  BY SensedOK
<1>2. OptimalDirection(t.lastFloor, os) \in {"Up", "Down"}
  BY DEF OptimalDirection
<1>3. /\ d \in {"Up", "Down"}
      /\ t.lastFloor = MinFloor => d = "Up"
      /\ t.lastFloor = MaxFloor => d = "Down"
  BY <1>2, FloorsAssumption DEF StartDirection, Directions
<1>4. Started(c, wanted, os) = [t EXCEPT !.direction = d, !.motor = d]
  BY DEF Started
<1> HIDE DEF t, d
<1> QED BY <1>1, <1>3, <1>4, FloorsAssumption DEF Controls, Directions

(* The safety stops leave no motor running towards the end it stands at.    *)
LEMMA ObservedOK ==
  ASSUME NEW c \in Controls, atSensor => low \in Floors,
         c.motor # "None" => c.direction = c.motor
  PROVE  LET s == Observed(c)
         IN /\ s \in Controls
            /\ s.motor # "None" => s.direction = s.motor
            /\ s.motor \in {c.motor, "None"}
            /\ s.doorLamp = c.doorLamp
            /\ atSensor => s.lastFloor = low
            /\ atSensor /\ s.motor = "Up"   => low # MaxFloor
            /\ atSensor /\ s.motor = "Down" => low # MinFloor
<1>1. /\ Sensed(c) \in Controls
      /\ Sensed(c).motor = c.motor /\ Sensed(c).direction = c.direction
      /\ Sensed(c).doorLamp = c.doorLamp
      /\ atSensor => Sensed(c).lastFloor = low
  BY SensedOK
<1>2. CASE RunsIntoEnd(Sensed(c))
  BY <1>1, <1>2, StoppedOK DEF Observed
<1>3. CASE ~RunsIntoEnd(Sensed(c))
  BY <1>1, <1>3 DEF Observed, RunsIntoEnd, AtFloor
<1> QED BY <1>2, <1>3

(* The hall button turned off on departure is a hall button.                *)
LEMMA DirectionButtonOK ==
  ASSUME NEW c \in Controls
  PROVE  DirectionButton(c) \subseteq {"up", "down"} \X Floors
<1>1. MinFloor \in Floors /\ MaxFloor \in Floors /\ c.lastFloor \in Floors
  BY FloorsAssumption DEF Floors, Controls
<1> QED BY <1>1 DEF DirectionButton

(* Reports about buttons are well formed. *)
LEMMA ReportsOK ==
  ASSUME NEW bs \in SUBSET ({"in", "up", "down"} \X Floors),
         NEW k \in {"pressed", "going", "served", "servedInside"}
  PROVE  {k} \X bs \subseteq Reports
  BY DEF Reports

LEMMA ButtonsOK == Buttons \subseteq {"in", "up", "down"} \X Floors
  BY DEF Buttons, InButtons, HallButtons

-----------------------------------------------------------------------------
(* The steps. *)

LEMMA InitInvariant == Init => IInv
<1> SUFFICES ASSUME Init PROVE IInv
  OBVIOUS
<1> USE DEF Init
<1>1. MinFloor \in Floors /\ Floors \subseteq Int /\ low \in MinFloor - 1 .. MaxFloor
  BY FloorsAssumption DEF Floors
<1>2. ctl \in Controls /\ ctl.motor = "None" /\ ctl.doorLamp = FALSE
  BY <1>1 DEF FreshControl, Controls, Directions
<1>3. atSensor \in BOOLEAN /\ (~atSensor => low # MaxFloor)
  OBVIOUS
<1>4. TypeOK
  BY <1>1, <1>2, <1>3 DEF TypeOK, Directions
<1> QED BY <1>2, <1>3, <1>4
        DEF IInv, StaysInShaft, MotorOK, DoorClosedWhileMoving, StopOK, ArrivalOK, LampsOK, Alive

(* Buttons and the stop button. *)
LEMMA PollStep == IInv /\ Poll => IInv'
<1> SUFFICES ASSUME IInv, Poll PROVE IInv'
  OBVIOUS
<1> USE DEF Poll, cabin, switches
<1>1. TypeOK /\ ctl \in Controls /\ (atSensor => low \in Floors)
  BY DEF IInv, TypeOK, StaysInShaft
<1>2. PICK pressed \in Presses : PollButtons(pressed)
  OBVIOUS
<1>3. pressed \subseteq Buttons
  BY <1>2, EnvironmentAssumption DEF Presses, Buttons
<1>4. /\ lamps' \subseteq Buttons /\ orders' \subseteq Buttons /\ out' \subseteq Reports
      /\ inNow' \subseteq InButtons /\ repressed' \in BOOLEAN
  <2>1. pressed \ lamps \in SUBSET ({"in", "up", "down"} \X Floors)
    BY <1>3, ButtonsOK
  <2>2. {"pressed"} \X (pressed \ lamps) \subseteq Reports
    BY <2>1, ReportsOK
  <2> QED BY <1>1, <1>2, <1>3, <2>2 DEF PollButtons, TypeOK
<1>5. LampsOK'
  <2>1. \A f \in Floors : <<"in", f>> \in InButtons
    BY DEF InButtons
  <2> QED BY <1>2, <2>1 DEF IInv, LampsOK, PollButtons
<1>6. /\ pc = "poll" /\ UNCHANGED <<low, atSensor, polled, ctl, mode, stopBtn, obstruction, calm, travel>>
      /\ stopLast' = stopBtn /\ stopLamp' \in BOOLEAN
      /\ pc' \in {"stopping", "resuming", "obstruction"}
      /\ stopLamp' /\ ~stopLamp => pc' = "stopping"
      /\ pc' = "resuming" => stopLamp /\ ~stopLamp'
  <2>1. stopLamp \in BOOLEAN
    BY <1>1 DEF TypeOK
  <2>2. CASE PollNoStop
    BY <2>1, <2>2 DEF PollNoStop
  <2>3. CASE PollStop
    BY <2>1, <2>3 DEF PollStop
  <2>4. CASE PollResume
    BY <2>1, <2>4 DEF PollResume
  <2> QED BY <2>2, <2>3, <2>4
<1>7. TypeOK'
  BY <1>1, <1>4, <1>6 DEF TypeOK
<1> HIDE DEF Poll, cabin, switches
<1>8. StaysInShaft' /\ MotorOK' /\ DoorClosedWhileMoving' /\ ArrivalOK'
  BY <1>6 DEF IInv, StaysInShaft, MotorOK, DoorClosedWhileMoving, ArrivalOK, Alive
<1>9. StopOK'
  BY <1>6 DEF IInv, StopOK, Alive
<1> QED BY <1>5, <1>7, <1>8, <1>9 DEF IInv

(* What the stop button does after its lamp was switched. *)
LEMMA StopButtonStep == IInv /\ StopButton => IInv'
<1> SUFFICES ASSUME IInv, StopButton PROVE IInv'
  OBVIOUS
<1> USE DEF cabin, loop, switches
<1>1. /\ TypeOK /\ ctl \in Controls /\ (atSensor => low \in Floors)
      /\ ctl.previous \in Directions
  BY DEF IInv, TypeOK, StaysInShaft, Controls
<1>2. CASE Stopping
  <2>1. /\ pc = "stopping" /\ ctl' = Sensed(Stopped(ctl)) /\ mode' = "Stopped"
        /\ pc' = "obstruction" /\ out' = {}
        /\ UNCHANGED <<cabin, stopLamp, lamps, orders, stopLast, inNow, repressed, switches, travel>>
    BY <1>2 DEF Stopping
  <2>2. Stopped(ctl) \in Controls /\ Stopped(ctl).motor = "None"
    BY <1>1, StoppedOK
  <2>3. ctl' \in Controls /\ ctl'.motor = "None"
    BY <1>1, <2>1, <2>2, SensedOK
  <2>4. TypeOK'
    BY <1>1, <2>1, <2>3 DEF TypeOK
  <2> QED BY <2>1, <2>3, <2>4 DEF IInv, StaysInShaft, MotorOK, DoorClosedWhileMoving,
                StopOK, ArrivalOK, LampsOK, Alive
<1>3. CASE Resuming
  <2> DEFINE s == Started(ctl, ctl.previous, orders)
  <2>1. /\ pc = "resuming" /\ ctl' = s /\ mode' = "Normal" /\ pc' = "resumed" /\ out' = {}
        /\ Travelled
        /\ UNCHANGED <<cabin, stopLamp, lamps, orders, stopLast, inNow, repressed, switches>>
    BY <1>3 DEF Resuming
  <2>2. /\ s \in Controls /\ s.direction = s.motor
        /\ atSensor /\ s.motor = "Up"   => low # MaxFloor
        /\ atSensor /\ s.motor = "Down" => low # MinFloor
    BY <1>1, StartedOK
  <2> HIDE DEF s
  <2>3. stopLamp' \in BOOLEAN /\ travel' \in Directions
    BY <1>1, <2>1, <2>2 DEF Travelled, Controls, TypeOK
  <2>4. TypeOK'
    BY <1>1, <2>1, <2>2, <2>3 DEF TypeOK
  <2>5. ~stopLamp
    BY <2>1 DEF IInv, StopOK, Alive
  <2> QED BY <2>1, <2>2, <2>4, <2>5 DEF IInv, StaysInShaft, MotorOK, DoorClosedWhileMoving,
                StopOK, ArrivalOK, LampsOK, Alive
<1>4. CASE Resumed
  <2>1. /\ pc = "resumed" /\ ctl' = Sensed(Shut(ctl)) /\ pc' = "obstruction"
        /\ UNCHANGED <<cabin, stopLamp, lamps, orders, loop, out, switches, travel>>
    BY <1>4 DEF Resumed
  <2>2. /\ ctl' \in Controls /\ ctl'.motor = ctl.motor /\ ctl'.direction = ctl.direction
        /\ ~ctl'.doorLamp
    <3>1. /\ Shut(ctl) \in Controls /\ Shut(ctl).motor = ctl.motor
          /\ Shut(ctl).direction = ctl.direction /\ ~Shut(ctl).doorLamp
      BY <1>1, ShutOK
    <3> QED BY <1>1, <2>1, <3>1, SensedOK
  <2>3. TypeOK'
    BY <1>1, <2>1, <2>2 DEF TypeOK
  <2> QED BY <2>1, <2>2, <2>3 DEF IInv, StaysInShaft, MotorOK, DoorClosedWhileMoving,
                StopOK, ArrivalOK, LampsOK, Alive
<1> QED BY <1>2, <1>3, <1>4 DEF StopButton

(* The obstruction switch. *)
LEMMA ObstructionStep == IInv /\ (ObstructionClear \/ Shutdown \/ SpinEnds) => IInv'
<1> SUFFICES ASSUME IInv, ObstructionClear \/ Shutdown \/ SpinEnds PROVE IInv'
  OBVIOUS
<1> USE DEF cabin, loop, switches
<1>1. CASE ObstructionClear \/ SpinEnds
  BY <1>1 DEF ObstructionClear, SpinEnds, IInv, TypeOK, StaysInShaft, MotorOK,
              DoorClosedWhileMoving, StopOK, ArrivalOK, LampsOK, Alive
<1>2. CASE Shutdown
  <2>1. ctl' \in Controls /\ ctl'.motor = "None" /\ ctl'.direction = ctl.direction
    BY <1>2 DEF Shutdown, IInv, TypeOK, Controls, Directions
  <2>2. "obstruction" \in Faults
    BY <1>2 DEF Shutdown, IInv, LampsOK
  <2> QED BY <1>2, <2>1, <2>2 DEF Shutdown, IInv, TypeOK, StaysInShaft, MotorOK,
              DoorClosedWhileMoving, StopOK, ArrivalOK, LampsOK, Alive
<1> QED BY <1>1, <1>2

(* Commands concern hall buttons only. *)
LEMMA CommandStep == IInv /\ Command => IInv'
<1> SUFFICES ASSUME IInv, Command PROVE IInv'
  OBVIOUS
<1> USE DEF cabin, loop, switches
<1>1. /\ UNCHANGED <<cabin, ctl, stopLamp, loop, switches, travel>>
      /\ pc = "command" /\ pc' = "control"
  BY DEF Command
<1>2. /\ orders' \subseteq Buttons /\ lamps' \subseteq Buttons /\ out' \subseteq Reports
      /\ \A f \in Floors : <<"in", f>> \in lamps' <=> <<"in", f>> \in lamps
      /\ \A f \in Floors : <<"in", f>> \in orders' <=> <<"in", f>> \in orders
  <2>1. lamps \subseteq Buttons /\ orders \subseteq Buttons
    BY DEF IInv, TypeOK
  <2>2. CASE NoCommand
    BY <2>1, <2>2 DEF NoCommand, Reports
  <2>3. CASE \E b \in HallCalls : CallTo(b) \/ \E on \in BOOLEAN : TurnLight(b, on)
    <3>1. PICK b \in HallCalls : CallTo(b) \/ \E on \in BOOLEAN : TurnLight(b, on)
      BY <2>3
    <3>2. b \in HallButtons /\ b \in Buttons /\ \A f \in Floors : b # <<"in", f>>
      BY EnvironmentAssumption DEF HallButtons, Buttons
    <3>3. {<<"going", b>>} \subseteq Reports
      BY <3>2, ButtonsOK DEF Reports
    <3>4. CASE CallTo(b)
      BY <2>1, <3>2, <3>3, <3>4 DEF CallTo
    <3>5. CASE \E on \in BOOLEAN : TurnLight(b, on)
      BY <2>1, <3>2, <3>5 DEF TurnLight
    <3> QED BY <3>1, <3>4, <3>5
  <2> QED BY <2>2, <2>3 DEF Command
<1>3. TypeOK'
  BY <1>1, <1>2 DEF IInv, TypeOK
<1> QED BY <1>1, <1>2, <1>3 DEF IInv, StaysInShaft, MotorOK, DoorClosedWhileMoving,
              StopOK, ArrivalOK, LampsOK, Alive

(* Whatever the control step does next, c is the movement after the safety  *)
(* stops.                                                                   *)
ControlFacts(c) ==
  /\ c \in Controls
  /\ c.motor # "None" => c.direction = c.motor
  /\ atSensor /\ c.motor = "Up"   => low # MaxFloor
  /\ atSensor /\ c.motor = "Down" => low # MinFloor
  /\ mode = "Stopped" => c.motor = "None"

(* What it has to leave behind. *)
ControlGoal ==
  /\ ControlFacts(ctl)'
  /\ ctl'.motor # "None" /\ ctl'.doorLamp => pc' = "started"
  /\ orders' \subseteq Buttons /\ lamps' \subseteq Buttons /\ out' \subseteq Reports
  /\ mode' \in {"Normal", "Waiting", "Stopped"}
  /\ stopLamp => mode' = "Stopped"
  /\ LampsOK'
  /\ polled' \in {polled, TRUE} /\ stopLast' \in BOOLEAN /\ inNow' \subseteq InButtons
  /\ pc' \in {"opening", "started", "poll"}
  /\ pc' = "opening" =>
       AtFloor(ctl'.lastFloor) /\ mode' = "Normal" /\ <<"in", ctl'.lastFloor>> \notin orders'
  /\ \A f \in Floors :
       <<"in", f>> \in orders /\ <<"in", f>> \notin orders' => AtFloor(f) /\ pc' = "opening"

(* Clearing a hall button touches no inside order. *)
LEMMA ClearDirectionStep ==
  ASSUME IInv, NEW c \in Controls, ClearDirectionButton(c)
  PROVE  /\ orders' \subseteq Buttons /\ lamps' \subseteq Buttons /\ out' \subseteq Reports
         /\ \A f \in Floors : <<"in", f>> \in lamps' <=> <<"in", f>> \in lamps
         /\ \A f \in Floors : <<"in", f>> \in orders' <=> <<"in", f>> \in orders
<1>1. DirectionButton(c) \subseteq {"up", "down"} \X Floors
  BY DirectionButtonOK
<1>2. \A f \in Floors : <<"in", f>> \notin DirectionButton(c)
  BY <1>1
<1>3. out' \subseteq Reports
  <2>1. DirectionButton(c) \cap orders \in SUBSET ({"in", "up", "down"} \X Floors)
    BY <1>1
  <2> QED BY <2>1, ReportsOK DEF ClearDirectionButton, ServedOrders, Served
<1> QED BY <1>2, <1>3 DEF ClearDirectionButton, IInv, TypeOK

(* Entering the loop again makes the lit inside buttons orders.              *)
LEMMA EnterLoopStep ==
  ASSUME IInv, NEW os \in SUBSET Buttons, EnterLoop(os)
  PROVE  /\ orders' \subseteq Buttons /\ lamps' = orders' /\ out' = {} /\ pc' = "poll"
         /\ mode' \in {"Normal", "Stopped"} /\ (stopLamp => mode' = "Stopped")
         /\ stopLast' = FALSE /\ inNow' = {} /\ repressed' = FALSE
         /\ \A f \in Floors :
              <<"in", f>> \in lamps \cup os => <<"in", f>> \in orders'
         /\ os \cap HallButtons \subseteq orders'
<1>1. lamps \subseteq Buttons /\ \A f \in Floors : <<"in", f>> \in InButtons
  BY DEF IInv, TypeOK, InButtons
<1> QED BY <1>1 DEF EnterLoop, InsideByLights, ModeAtStart, Buttons

(* Doors, motor and orders: one case per action of the control step.        *)
LEMMA ControlCases ==
  ASSUME IInv, Control
  PROVE  ControlGoal
<1> DEFINE c == Observed(ctl)
<1>1. UNCHANGED <<low, atSensor, stopLamp, stopBtn, obstruction, calm>> /\ pc = "control"
  BY DEF Control, switches
<1>2. /\ ControlFacts(c)
      /\ c.motor # "None" => ~c.doorLamp
      /\ atSensor => c.lastFloor = low
  <2>1. ctl \in Controls /\ (atSensor => low \in Floors)
    BY DEF IInv, TypeOK, StaysInShaft
  <2>2. ctl.motor # "None" => ctl.direction = ctl.motor /\ ~ctl.doorLamp
    BY <1>1 DEF IInv, TypeOK, Controls, MotorOK, DoorClosedWhileMoving, Alive
  <2>3. mode = "Stopped" => ctl.motor = "None"
    BY <1>1 DEF IInv, StopOK, Alive
  <2> QED BY <2>1, <2>2, <2>3, ObservedOK DEF ControlFacts
<1>3. /\ orders \subseteq Buttons /\ lamps \subseteq Buttons
      /\ mode \in {"Normal", "Waiting", "Stopped"}
      /\ stopLamp => mode = "Stopped"
      /\ atSensor => low \in Floors
      /\ stopLast \in BOOLEAN /\ inNow \subseteq InButtons
  BY <1>1 DEF IInv, TypeOK, StopOK, Alive, StaysInShaft
<1>4. \/ StopHere(c) /\ pc' = "opening" /\ UNCHANGED <<polled, stopLast, inNow>>
      \/ StartMoving(c) /\ pc' = "started" /\ polled' = TRUE /\ UNCHANGED <<stopLast, inNow>>
      \/ /\ \/ StayIdle(c) \/ KeepMoving(c) \/ Wait(c)
            \/ CloseDoorTimeout(c) \/ CloseDoorPressed(c)
         /\ polled' = TRUE /\ pc' = "poll" /\ UNCHANGED <<stopLast, inNow>>
      \/ CloseDoorAstray(c) /\ polled' = TRUE
  BY DEF Control, Closing, EndOfIteration
<1> HIDE DEF c
<1>5. ASSUME ControlFacts(ctl)', ctl'.motor # "None" /\ ctl'.doorLamp => pc' = "started",
             orders' \subseteq Buttons, lamps' \subseteq Buttons,
             out' \subseteq Reports,
             mode' \in {"Normal", "Waiting", "Stopped"}, stopLamp => mode' = "Stopped",
             polled' = TRUE, pc' \in {"started", "poll"}, UNCHANGED <<stopLast, inNow>>,
             \A f \in Floors : <<"in", f>> \in lamps' <=> <<"in", f>> \in lamps,
             \A f \in Floors : <<"in", f>> \in orders' <=> <<"in", f>> \in orders
      PROVE  ControlGoal
  BY <1>1, <1>3, <1>5 DEF ControlGoal, IInv, LampsOK
<1>6. CASE StopHere(c) /\ pc' = "opening" /\ UNCHANGED <<polled, stopLast, inNow>>
  <2>1. /\ ctl' = c /\ atSensor /\ mode = "Normal" /\ mode' = mode /\ out' = {}
        /\ orders' = orders \ {<<"in", low>>} /\ lamps' = lamps \ {<<"in", low>>}
    BY <1>6 DEF StopHere, Arrives
  <2>2. ControlFacts(ctl)'
    BY <1>1, <1>2, <2>1 DEF ControlFacts
  <2>3. AtFloor(ctl'.lastFloor) /\ <<"in", ctl'.lastFloor>> \notin orders'
    BY <1>2, <2>1 DEF AtFloor
  <2>4. LampsOK'
    BY <1>1, <2>1 DEF IInv, LampsOK
  <2>5. \A f \in Floors :
          <<"in", f>> \in orders /\ <<"in", f>> \notin orders' => AtFloor(f)
    BY <2>1 DEF AtFloor
  <2> QED BY <1>2, <1>3, <1>6, <2>1, <2>2, <2>3, <2>4, <2>5 DEF ControlGoal
<1>7. CASE StartMoving(c) /\ pc' = "started" /\ polled' = TRUE /\ UNCHANGED <<stopLast, inNow>>
  <2> DEFINE w == WantedDirection(c)
  <2>1. w \in Directions
    BY <1>2 DEF WantedDirection, ControlFacts, Controls, Directions
  <2>2. /\ ctl' = Started(c, w, orders) /\ mode' = mode /\ mode = "Normal"
        /\ orders' = orders /\ lamps' = lamps /\ out' = {}
    BY <1>7 DEF StartMoving
  <2> HIDE DEF w
  <2>3. ctl' \in Controls /\ ctl'.direction = ctl'.motor
        /\ (atSensor /\ ctl'.motor = "Up"   => low # MaxFloor)
        /\ (atSensor /\ ctl'.motor = "Down" => low # MinFloor)
    BY <1>2, <1>3, <2>1, <2>2, StartedOK DEF ControlFacts
  <2>4. ControlFacts(ctl)'
    BY <1>1, <2>2, <2>3 DEF ControlFacts
  <2> QED BY <1>3, <1>5, <1>7, <2>2, <2>4
<1>8. CASE /\ StayIdle(c) \/ KeepMoving(c) \/ Wait(c)
           /\ polled' = TRUE /\ pc' = "poll" /\ UNCHANGED <<stopLast, inNow>>
  <2>1. ctl' = c /\ mode' = mode
    BY <1>8 DEF StayIdle, KeepMoving, Wait
  <2>2. ControlFacts(ctl)' /\ (ctl'.motor # "None" => ~ctl'.doorLamp)
    BY <1>1, <1>2, <2>1 DEF ControlFacts
  <2>3. CASE StayIdle(c)
    <3>1. c \in Controls /\ ClearDirectionButton(c)
      BY <1>2, <2>3 DEF ControlFacts, StayIdle
    <3> QED BY <1>3, <1>5, <1>8, <2>1, <2>2, <3>1, ClearDirectionStep
  <2>4. CASE KeepMoving(c) \/ Wait(c)
    <3>1. orders' = orders /\ lamps' = lamps /\ out' = {}
      BY <2>4 DEF KeepMoving, Wait
    <3> QED BY <1>3, <1>5, <1>8, <2>1, <2>2, <3>1
  <2> QED BY <1>8, <2>3, <2>4
<1>9. c \in Controls
  BY <1>2 DEF ControlFacts
<1>10. /\ Shut(c) \in Controls /\ ~Shut(c).doorLamp /\ Shut(c).motor = c.motor
       /\ Shut(c).direction = c.direction
  BY <1>9, ShutOK
<1>11. CASE /\ CloseDoorTimeout(c) \/ CloseDoorPressed(c)
            /\ polled' = TRUE /\ pc' = "poll" /\ UNCHANGED <<stopLast, inNow>>
  <2>1. ctl' = Shut(c) /\ mode' = "Normal" /\ mode = "Waiting"
    BY <1>11 DEF CloseDoorTimeout, CloseDoorPressed
  <2>2. ControlFacts(ctl)' /\ ~ctl'.doorLamp
    BY <1>1, <1>2, <1>10, <2>1 DEF ControlFacts
  <2>3. CASE CloseDoorTimeout(c)
    <3>1. HallHere \in SUBSET ({"in", "up", "down"} \X Floors)
      BY <1>3, <2>3 DEF CloseDoorTimeout, HallHere
    <3>2. out' \subseteq Reports
      BY <2>3, <3>1, ReportsOK DEF CloseDoorTimeout, Served
    <3>3. \A f \in Floors : <<"in", f>> \notin HallHere
      BY DEF HallHere
    <3>4. orders' = orders \ HallHere /\ lamps' = lamps \ HallHere
      BY <2>3 DEF CloseDoorTimeout
    <3> QED BY <1>3, <1>5, <1>11, <2>1, <2>2, <3>2, <3>3, <3>4
  <2>4. CASE CloseDoorPressed(c)
    <3>1. ClearDirectionButton(c)
      BY <2>4 DEF CloseDoorPressed
    <3> QED BY <1>3, <1>5, <1>9, <1>11, <2>1, <2>2, <3>1, ClearDirectionStep
  <2> QED BY <1>11, <2>3, <2>4
<1>12. CASE CloseDoorAstray(c) /\ polled' = TRUE
  <2>1. ctl' = Stopped(Shut(c)) /\ EnterLoop(orders) /\ orders \in SUBSET Buttons
    BY <1>3, <1>12 DEF CloseDoorAstray
  <2>2. ctl' \in Controls /\ ctl'.motor = "None"
    BY <1>10, <2>1, StoppedOK
  <2>3. ControlFacts(ctl)'
    BY <2>2 DEF ControlFacts
  <2>4. /\ orders' \subseteq Buttons /\ lamps' = orders' /\ out' = {} /\ pc' = "poll"
        /\ mode' \in {"Normal", "Stopped"} /\ (stopLamp => mode' = "Stopped")
        /\ stopLast' = FALSE /\ inNow' = {} /\ repressed' = FALSE
        /\ \A f \in Floors : <<"in", f>> \in lamps \cup orders => <<"in", f>> \in orders'
    BY <2>1, EnterLoopStep
  <2>5. LampsOK'
    BY <1>1, <2>4 DEF IInv, LampsOK
  <2> QED BY <1>12, <2>2, <2>3, <2>4, <2>5 DEF ControlGoal
<1> QED BY <1>4, <1>6, <1>7, <1>8, <1>11, <1>12

LEMMA ControlStep == IInv /\ Control => IInv'
<1> SUFFICES ASSUME IInv, Control PROVE IInv'
  OBVIOUS
<1>1. ControlGoal
  BY ControlCases
<1>2. /\ UNCHANGED <<low, atSensor, stopLamp, stopBtn, obstruction, calm>>
      /\ repressed' = FALSE /\ Travelled
  BY DEF Control, switches
<1>3. TypeOK'
  <2>1. travel' \in Directions /\ polled' \in BOOLEAN
    BY <1>1, <1>2 DEF ControlGoal, ControlFacts, Controls, Travelled, IInv, TypeOK
  <2>2. low' \in MinFloor - 1 .. MaxFloor /\ atSensor' \in BOOLEAN
    BY <1>2 DEF IInv, TypeOK
  <2> QED BY <1>1, <1>2, <2>1, <2>2 DEF ControlGoal, ControlFacts, IInv, TypeOK
<1>4. ArrivalOK'
  BY <1>1, <1>2 DEF ControlGoal, ArrivalOK, AtFloor
<1> QED BY <1>1, <1>2, <1>3, <1>4 DEF ControlGoal, ControlFacts, IInv, StaysInShaft, MotorOK,
              DoorClosedWhileMoving, StopOK, Alive

(* To stop at a floor, the doors open and then the motor stops; to leave    *)
(* one, the motor starts and then the doors shut.                           *)
LEMMA DoorStep == IInv /\ (Opening \/ Arriving \/ Departing) => IInv'
<1> SUFFICES ASSUME IInv, Opening \/ Arriving \/ Departing PROVE IInv'
  OBVIOUS
<1> USE DEF cabin, loop, switches
<1>1. TypeOK /\ ctl \in Controls
  BY DEF IInv, TypeOK
<1>2. CASE Opening
  <2>1. /\ pc = "opening" /\ ctl' = [ctl EXCEPT !.doorLamp = TRUE] /\ pc' = "arriving"
        /\ UNCHANGED <<cabin, stopLamp, lamps, orders, loop, out, switches, travel>>
    BY <1>2 DEF Opening
  <2>2. /\ ctl' \in Controls /\ ctl'.motor = ctl.motor /\ ctl'.direction = ctl.direction
        /\ ctl'.lastFloor = ctl.lastFloor
    BY <1>1, <2>1 DEF Controls
  <2>3. TypeOK'
    BY <1>1, <2>1, <2>2 DEF TypeOK
  <2>4. ArrivalOK'
    BY <2>1, <2>2 DEF IInv, ArrivalOK, AtFloor
  <2>5. Beside(ctl.lastFloor)'
    BY <2>1, <2>2 DEF IInv, ArrivalOK, AtFloor, Beside
  <2> QED BY <2>1, <2>2, <2>3, <2>4, <2>5 DEF IInv, StaysInShaft, MotorOK, DoorClosedWhileMoving,
                StopOK, LampsOK, Alive
<1>3. CASE Arriving
  <2>1. /\ pc = "arriving" /\ ctl' = Stopped(ctl) /\ pc' = "poll" /\ mode' = "Waiting"
        /\ orders' = orders \ {<<"in", ctl.lastFloor>>}
        /\ out' = {<<"servedInside", <<"in", ctl.lastFloor>>>>} /\ polled' = TRUE
        /\ UNCHANGED <<low, atSensor, stopLamp, lamps, stopLast, inNow, repressed, switches, travel>>
    BY <1>3 DEF Arriving
  <2>2. ctl' \in Controls /\ ctl'.motor = "None"
    BY <1>1, <2>1, StoppedOK
  <2>3. orders' = orders /\ ~stopLamp
    BY <2>1 DEF IInv, ArrivalOK, StopOK, Alive
  <2>4. out' \subseteq Reports
    BY <1>1, <2>1 DEF Controls, Reports
  <2>5. TypeOK'
    BY <1>1, <2>1, <2>2, <2>3, <2>4 DEF TypeOK
  <2> QED BY <2>1, <2>2, <2>3, <2>5 DEF IInv, StaysInShaft, MotorOK, DoorClosedWhileMoving,
                StopOK, ArrivalOK, LampsOK, Alive
<1>4. CASE Departing
  <2>1. /\ pc = "started" /\ ctl' = Shut(ctl) /\ ClearDirectionButton(ctl) /\ pc' = "poll"
        /\ UNCHANGED <<cabin, stopLamp, loop, switches, travel>>
    BY <1>4 DEF Departing
  <2>2. /\ ctl' \in Controls /\ ctl'.motor = ctl.motor /\ ctl'.direction = ctl.direction
        /\ ~ctl'.doorLamp
    BY <1>1, <2>1, ShutOK
  <2>3. /\ orders' \subseteq Buttons /\ lamps' \subseteq Buttons /\ out' \subseteq Reports
        /\ \A f \in Floors : <<"in", f>> \in lamps' <=> <<"in", f>> \in lamps
        /\ \A f \in Floors : <<"in", f>> \in orders' <=> <<"in", f>> \in orders
    BY <1>1, <2>1, ClearDirectionStep
  <2>4. TypeOK'
    BY <1>1, <2>1, <2>2, <2>3 DEF TypeOK
  <2> QED BY <2>1, <2>2, <2>3, <2>4 DEF IInv, StaysInShaft, MotorOK, DoorClosedWhileMoving,
                StopOK, ArrivalOK, LampsOK, Alive
<1> QED BY <1>2, <1>3, <1>4

(* The cabin leaves the sensor of an end floor only inwards. *)
LEMMA MoveStep == IInv /\ Move => IInv'
<1> SUFFICES ASSUME IInv, Move PROVE IInv'
  OBVIOUS
<1> USE FloorsAssumption DEF loop, switches
<1>1. UNCHANGED <<ctl, stopLamp, lamps, orders, loop, pc, out, switches, travel>>
  BY DEF Move
<1>2. low \in Floors /\ low \in Int /\ (~atSensor => low # MaxFloor)
  BY DEF IInv, StaysInShaft, Floors
<1>3. /\ low' \in Floors /\ atSensor' \in BOOLEAN /\ polled' \in BOOLEAN
      /\ ~atSensor' => low' # MaxFloor
      /\ atSensor' => ~polled'
  <2>1. low \in MinFloor .. MaxFloor /\ MinFloor \in Int /\ MaxFloor \in Int /\ polled \in BOOLEAN
    BY <1>2 DEF Floors, IInv, TypeOK
  <2>2. CASE ctl.motor = "Up" /\ atSensor /\ Leave(low)
    <3>1. low # MaxFloor
      BY <2>2 DEF Move, IInv, MotorOK
    <3> QED BY <2>1, <2>2, <3>1, <1>2 DEF Leave
  <2>3. CASE ctl.motor = "Up" /\ ~atSensor /\ low < MaxFloor /\ Arrive(low + 1)
    <3>1. low + 1 \in Floors
      BY <2>1, <2>3 DEF Floors
    <3> QED BY <2>3, <3>1 DEF Arrive
  <2>4. CASE ctl.motor = "Down" /\ atSensor /\ Leave(low - 1)
    <3>1. low # MinFloor
      BY <2>4 DEF Move, IInv, MotorOK
    <3>2. low - 1 \in Floors /\ low - 1 # MaxFloor
      BY <2>1, <3>1 DEF Floors
    <3> QED BY <2>1, <2>4, <3>2 DEF Leave
  <2>5. CASE ctl.motor = "Down" /\ ~atSensor /\ low >= MinFloor /\ Arrive(low)
    BY <1>2, <2>5 DEF Arrive
  <2> QED BY <2>2, <2>3, <2>4, <2>5 DEF Move
<1>4. low' \in MinFloor - 1 .. MaxFloor
  BY <1>3 DEF Floors
<1>5. TypeOK'
  BY <1>1, <1>3, <1>4 DEF IInv, TypeOK
<1>6. ArrivalOK' /\ (pc = "arriving" => Beside(ctl.lastFloor)')
  <2> SUFFICES ASSUME pc \in {"opening", "arriving"} PROVE ArrivalOK' /\ Beside(ctl.lastFloor)'
    BY <1>1 DEF ArrivalOK
  <2>1. AtFloor(ctl.lastFloor) /\ mode = "Normal" /\ <<"in", ctl.lastFloor>> \notin orders
    BY DEF Move, IInv, ArrivalOK, AtFloor
  <2>2. \/ ctl.motor = "Up"   /\ low' = low     /\ atSensor' = FALSE
        \/ ctl.motor = "Down" /\ low' = low - 1 /\ atSensor' = FALSE
    BY <2>1 DEF Move, Leave, AtFloor
  <2> QED BY <1>1, <2>1, <2>2 DEF ArrivalOK, AtFloor, Beside
<1> QED BY <1>1, <1>3, <1>5, <1>6 DEF IInv, StaysInShaft, MotorOK, DoorClosedWhileMoving,
              StopOK, LampsOK, Alive

(* A new process takes its inside orders from the lamps. *)
LEMMA RestartStep == IInv /\ Restart => IInv'
<1> SUFFICES ASSUME IInv, Restart PROVE IInv'
  OBVIOUS
<1> USE DEF cabin, switches
<1>1. PICK r \in Recovered : StartProcess(r)
  BY DEF Restart
<1>2. UNCHANGED <<cabin, stopLamp, switches>>
  BY DEF Restart
<1>3. r.lastFloor \in Floors /\ r.orders \in SUBSET Buttons
  BY EnvironmentAssumption
<1>4. TypeOK
  BY DEF IInv
<1>5. ctl' \in Controls /\ ctl'.motor = "None"
  BY <1>1, <1>3, <1>4 DEF StartProcess, FreshControl, Controls, Directions, TypeOK
<1>6. /\ orders' \subseteq Buttons /\ lamps' = orders' /\ out' = {} /\ pc' = "poll"
      /\ mode' \in {"Normal", "Stopped"} /\ (stopLamp => mode' = "Stopped")
      /\ stopLast' = FALSE /\ inNow' = {} /\ repressed' = FALSE
  BY <1>1, <1>3, EnterLoopStep DEF StartProcess
<1>7. TypeOK'
  <2>1. travel' = "None"
    BY <1>1 DEF StartProcess
  <2> QED BY <1>2, <1>4, <1>5, <1>6, <2>1 DEF TypeOK, Directions
<1>8. LampsOK'
  BY <1>2, <1>6 DEF IInv, LampsOK
<1> QED BY <1>2, <1>5, <1>6, <1>7, <1>8 DEF IInv, StaysInShaft, MotorOK,
              DoorClosedWhileMoving, StopOK, ArrivalOK, Alive

(* The process dies and its parent stops the motor. *)
LEMMA DeathStep == IInv /\ (Crash \/ HandlerStops) => IInv'
<1> SUFFICES ASSUME IInv, Crash \/ HandlerStops PROVE IInv'
  OBVIOUS
<1> USE DEF cabin, loop, switches, Alive
<1>1. CASE Crash
  BY <1>1 DEF Crash, IInv, TypeOK, StaysInShaft, MotorOK, DoorClosedWhileMoving,
              StopOK, ArrivalOK, LampsOK
<1>2. CASE HandlerStops
  <2>1. ctl' \in Controls /\ ctl'.motor = "None"
    BY <1>2 DEF HandlerStops, IInv, TypeOK, Controls, Directions
  <2> QED BY <1>2, <2>1 DEF HandlerStops, IInv, TypeOK, StaysInShaft, MotorOK,
              DoorClosedWhileMoving, StopOK, ArrivalOK, LampsOK
<1> QED BY <1>1, <1>2

(* People. *)
LEMMA PeopleStep == IInv /\ (PressStop \/ ReleaseStop \/ Obstruct \/ CalmDown) => IInv'
<1> SUFFICES ASSUME IInv, PressStop \/ ReleaseStop \/ Obstruct \/ CalmDown PROVE IInv'
  OBVIOUS
<1> USE DEF cabin, loop, switches, PressStop, ReleaseStop, Obstruct, CalmDown
<1>1. TypeOK'
  <2>1. stopBtn' \in BOOLEAN /\ obstruction' \in BOOLEAN /\ calm' \in BOOLEAN
    BY DEF IInv, TypeOK
  <2> QED BY <2>1 DEF IInv, TypeOK
<1>2. UNCHANGED <<cabin, ctl, stopLamp, lamps, orders, loop, pc>>
      /\ (obstruction' = obstruction \/ "obstruction" \in Faults)
  OBVIOUS
<1> QED BY <1>1, <1>2 DEF IInv, StaysInShaft, MotorOK, DoorClosedWhileMoving,
              StopOK, ArrivalOK, AtFloor, Beside, LampsOK, Alive

LEMMA StutterStep == IInv /\ UNCHANGED vars => IInv'
<1> SUFFICES ASSUME IInv, UNCHANGED vars PROVE IInv'
  OBVIOUS
<1>1. UNCHANGED <<low, atSensor, polled, ctl, stopLamp, lamps, orders, mode, stopLast, inNow,
                  repressed, pc, out, stopBtn, obstruction, calm, travel>>
  BY DEF vars, cabin, loop, switches
<1>2. TypeOK' /\ StaysInShaft' /\ MotorOK' /\ StopOK' /\ LampsOK'
  BY <1>1 DEF IInv, TypeOK, StaysInShaft, MotorOK, StopOK, LampsOK, Alive
<1>3. DoorClosedWhileMoving' /\ ArrivalOK'
  BY <1>1 DEF IInv, DoorClosedWhileMoving, ArrivalOK, AtFloor, Beside
<1> QED BY <1>2, <1>3 DEF IInv

(* The invariant is inductive. *)
LEMMA NextStep == IInv /\ [Next]_vars => IInv'
<1> SUFFICES ASSUME IInv, [Next]_vars PROVE IInv'
  OBVIOUS
<1>1. CASE Process
  BY <1>1, PollStep, StopButtonStep, ObstructionStep, CommandStep, ControlStep, DoorStep,
     DeathStep, RestartStep DEF Process, Loop
<1>2. CASE Env
  BY <1>2, PeopleStep, DeathStep DEF Env
<1> QED BY <1>1, <1>2, MoveStep, StutterStep DEF Next

THEOREM Invariance == Spec => []IInv
  BY InitInvariant, NextStep, PTL DEF Spec

-----------------------------------------------------------------------------
(* The main results. *)

(* Types are right in every state. *)
THEOREM TypeCorrect == Spec => []TypeOK
<1>1. IInv => TypeOK
  BY DEF IInv
<1> QED BY Invariance, <1>1, PTL

(* The cabin never runs off the shaft (safety precautions of _loop, the     *)
(* bounds of _startElevator, the signal handler of the parent).             *)
THEOREM ShaftSafety == Spec => []StaysInShaft
<1>1. IInv => StaysInShaft
  BY DEF IInv
<1> QED BY Invariance, <1>1, PTL

(* The doors are open with the motor running only between two writes of the *)
(* code: while _startElevator has not shut them yet, and on arrival, beside *)
(* the floor, while the motor is about to stop or the process has just      *)
(* died.                                                                    *)
THEOREM DoorSafety == Spec => []DoorClosedWhileMoving
<1>1. IInv => DoorClosedWhileMoving
  BY DEF IInv
<1> QED BY Invariance, <1>1, PTL

(* While the stop lamp is lit the cabin stands, but for the write between   *)
(* the lamp and the motor, and for a dead process.                          *)
THEOREM StopSafety == Spec => []StopLampMeansHalted
<1>1. IInv => StopLampMeansHalted
  BY DEF IInv, StopOK, Alive, StopLampMeansHalted, TypeOK
<1> QED BY Invariance, <1>1, PTL

(* No step but a control step that stops at the floor, or a restart,        *)
(* removes an inside order.                                                 *)
LEMMA InsideOrderStep ==
  ASSUME IInv, Next, NEW f \in Floors,
         <<"in", f>> \in orders, <<"in", f>> \notin orders'
  PROVE  (AtFloor(f) /\ pc' = "opening") \/ (Restart /\ <<"in", f>> \notin lamps)
<1>1. CASE Control
  BY <1>1, ControlCases DEF ControlGoal
<1>2. ~Poll /\ ~StopButton
  BY DEF Poll, PollButtons, StopButton, Stopping, Resuming, Resumed
<1>3. ~Command
  <2>1. \A b \in HallCalls : b # <<"in", f>>
    BY EnvironmentAssumption DEF HallButtons
  <2> QED BY <2>1 DEF Command, CallTo, TurnLight, NoCommand
<1>4. CASE Restart
  <2>1. <<"in", f>> \in InButtons
    BY DEF InButtons
  <2>2. <<"in", f>> \notin lamps
    BY <1>4, <2>1 DEF Restart, StartProcess, EnterLoop, InsideByLights
  <2> QED BY <1>4, <2>2
<1>5. ~Opening /\ ~Arriving
  BY DEF Opening, Arriving, IInv, ArrivalOK
<1>6. ~Departing
  BY ClearDirectionStep DEF Departing, IInv, TypeOK
<1>7. ~(ObstructionClear \/ Shutdown \/ SpinEnds \/ HandlerStops \/ Move \/ Env)
  BY DEF ObstructionClear, Shutdown, SpinEnds, HandlerStops, Move, Env, PressStop,
         ReleaseStop, Obstruct, CalmDown, Crash
<1> QED BY <1>1, <1>2, <1>3, <1>4, <1>5, <1>6, <1>7 DEF Next, Process, Loop

(* Once an order is off the books the doors open, or the process dies.      *)
LEMMA OpeningStep ==
  ASSUME IInv, Next, pc = "opening", pc' # "opening"
  PROVE  ctl'.doorLamp \/ pc' = "dead"
<1>1. CASE Opening
  BY <1>1 DEF Opening, IInv, TypeOK, Controls
<1>2. CASE Crash
  BY <1>2 DEF Crash
<1>3. ~(Poll \/ StopButton \/ ObstructionClear \/ Shutdown \/ SpinEnds \/ Command \/ Control
        \/ Arriving \/ Departing \/ HandlerStops \/ Restart)
  BY DEF Poll, StopButton, Stopping, Resuming, Resumed, ObstructionClear, Shutdown, SpinEnds,
         Command, Control, Arriving, Departing, HandlerStops, Restart
<1>4. ~(Move \/ PressStop \/ ReleaseStop \/ Obstruct \/ CalmDown)
  BY DEF Move, PressStop, ReleaseStop, Obstruct, CalmDown
<1> QED BY <1>1, <1>2, <1>3, <1>4 DEF Next, Process, Loop, Env

(* An inside order leaves where the doors open next, or in a restart, if    *)
(* its lamp had been turned off (_initializeElevator).                      *)
THEOREM InsideOrderSafety == Spec => InsideOrderKept
<1>1. IInv /\ [Next]_vars
        => [/\ \A f \in Floors :
                 <<"in", f>> \in orders /\ <<"in", f>> \notin orders'
                   => \/ AtFloor(f) /\ pc' = "opening"
                      \/ pc = "halted" /\ <<"in", f>> \notin lamps
            /\ pc = "opening" /\ pc' # "opening" => ctl'.doorLamp \/ pc' = "dead"]_vars
  BY InsideOrderStep, OpeningStep DEF Restart
<1> QED BY Invariance, <1>1, PTL DEF Spec, InsideOrderKept

(* Only an obstruction turns the lamps off behind the loop's back           *)
(* (Driver::shutdown): without one inside orders survive every crash but    *)
(* the one just before the doors open at their floor.                       *)
THEOREM InsideOrdersSurvive ==
  "obstruction" \notin Faults =>
    (Spec => [][\A f \in Floors :
                  <<"in", f>> \in orders /\ <<"in", f>> \notin orders'
                    => AtFloor(f) /\ pc' = "opening"]_vars)
<1> SUFFICES ASSUME "obstruction" \notin Faults
             PROVE  Spec => [][\A f \in Floors :
                                 <<"in", f>> \in orders /\ <<"in", f>> \notin orders'
                                   => AtFloor(f) /\ pc' = "opening"]_vars
  OBVIOUS
<1>1. IInv /\ [Next]_vars
        => [\A f \in Floors :
              <<"in", f>> \in orders /\ <<"in", f>> \notin orders'
                => AtFloor(f) /\ pc' = "opening"]_vars
  BY InsideOrderStep DEF IInv, LampsOK
<1> QED BY Invariance, <1>1, PTL DEF Spec

(* Every call that _clearDirectionButtonLamp takes off the orders is        *)
(* reported.                                                                *)
LEMMA ClearedAreReported ==
  ASSUME NEW c, NEW b, ClearDirectionButton(c), b \in orders, b \notin orders'
  PROVE  <<"served", b>> \in out'
BY DEF ClearDirectionButton, ServedOrders, Served

(* A hall call is never dropped silently by a live process: the node that   *)
(* keeps a request for it hears of it.                                      *)
THEOREM DroppedCallsSafety == Spec => DroppedCallsReported
<1>1. IInv /\ [Next]_vars
        => [\A b \in HallButtons :
              b \in orders /\ b \notin orders' => <<"served", b>> \in out' \/ ~Alive]_vars
  <2> SUFFICES ASSUME IInv, Next, NEW b \in HallButtons,
                      b \in orders, b \notin orders', Alive
               PROVE  <<"served", b>> \in out'
    OBVIOUS
  <2>1. \A f : b # <<"in", f>>
    BY DEF HallButtons
  <2>2. CASE Control
    <3> DEFINE c == Observed(ctl)
    <3>1. ~StopHere(c) /\ ~StartMoving(c) /\ ~KeepMoving(c) /\ ~Wait(c)
      BY <2>1 DEF StopHere, StartMoving, KeepMoving, Wait
    <3>2. ~CloseDoorAstray(c)
      BY EnterLoopStep DEF CloseDoorAstray, IInv, TypeOK
    <3>3. CASE StayIdle(c)
      BY <3>3, ClearedAreReported DEF StayIdle
    <3>4. CASE CloseDoorPressed(c)
      BY <3>4, ClearedAreReported DEF CloseDoorPressed
    <3>5. CASE CloseDoorTimeout(c)
      BY <3>5 DEF CloseDoorTimeout, Served
    <3> QED BY <2>2, <3>1, <3>2, <3>3, <3>4, <3>5 DEF Control, Closing
  <2>3. CASE Departing
    BY <2>3, ClearedAreReported DEF Departing
  <2>4. ~Poll /\ ~StopButton /\ ~Command
    BY DEF Poll, PollButtons, StopButton, Stopping, Resuming, Resumed,
           Command, CallTo, TurnLight, NoCommand
  <2>5. ~Restart
    BY DEF Restart, Alive
  <2>6. ~Opening /\ ~Arriving
    BY <2>1 DEF Opening, Arriving
  <2>7. ~(ObstructionClear \/ Shutdown \/ SpinEnds \/ HandlerStops \/ Move \/ Env)
    BY DEF ObstructionClear, Shutdown, SpinEnds, HandlerStops, Move, Env, PressStop,
           ReleaseStop, Obstruct, CalmDown, Crash
  <2> QED BY <2>2, <2>3, <2>4, <2>5, <2>6, <2>7 DEF Next, Process, Loop
<1> QED BY Invariance, <1>1, PTL DEF Spec, DroppedCallsReported

-----------------------------------------------------------------------------
(* The direction of travel. *)

(* Sensing does not change what is remembered of a ride. *)
LEMMA SensedKeeps ==
  ASSUME NEW c \in Controls, atSensor => low \in Floors
  PROVE  /\ RememberedDirection(Sensed(c)) = RememberedDirection(c)
         /\ Sensed(c).previous = c.previous
         /\ Sensed(c).lastFloor = IF atSensor THEN low ELSE c.lastFloor
  BY DEF Sensed, Controls, RememberedDirection

LEMMA ObservedKeeps ==
  ASSUME NEW c \in Controls, atSensor => low \in Floors
  PROVE  LET s == Observed(c)
         IN /\ RememberedDirection(s) = RememberedDirection(c)
            /\ s.lastFloor = IF atSensor THEN low ELSE c.lastFloor
            /\ s.direction = c.direction \/ (s.direction = "None" /\ atSensor)
<1>1. Sensed(c) \in Controls /\ Sensed(c).direction = c.direction
  BY SensedOK
<1>2. CASE RunsIntoEnd(Sensed(c))
  BY <1>1, <1>2, SensedKeeps, StoppedOK DEF Observed, RunsIntoEnd, AtFloor
<1>3. CASE ~RunsIntoEnd(Sensed(c))
  BY <1>1, <1>3, SensedKeeps DEF Observed
<1> QED BY <1>2, <1>3

(* A ride starts in the wanted direction, except from an end of the shaft.  *)
LEMMA StartedHeads ==
  ASSUME NEW c \in Controls, NEW wanted \in Directions, NEW os,
         atSensor => low \in Floors
  PROVE  LET s == Started(c, wanted, os)
         IN /\ s.direction \in {"Up", "Down"} /\ RememberedDirection(s) = s.direction
            /\ s.lastFloor = IF atSensor THEN low ELSE c.lastFloor
            /\ s.lastFloor = MaxFloor => s.direction = "Down"
            /\ s.lastFloor = MinFloor => s.direction = "Up"
            /\ wanted # "None" /\ s.lastFloor \notin {MinFloor, MaxFloor}
                 => s.direction = wanted
<1> DEFINE t == Sensed(c)
           d == StartDirection(t.lastFloor, wanted, os)
<1>1. t \in Controls /\ t.lastFloor = IF atSensor THEN low ELSE c.lastFloor
  BY SensedOK, SensedKeeps
<1>2. OptimalDirection(t.lastFloor, os) \in {"Up", "Down"}
  BY DEF OptimalDirection
<1>3. /\ d \in {"Up", "Down"}
      /\ t.lastFloor = MinFloor => d = "Up"
      /\ t.lastFloor = MaxFloor => d = "Down"
      /\ wanted # "None" /\ t.lastFloor \notin {MinFloor, MaxFloor} => d = wanted
  BY <1>2, FloorsAssumption DEF StartDirection, Directions
<1>4. Started(c, wanted, os) = [t EXCEPT !.direction = d, !.motor = d]
  BY DEF Started
<1> HIDE DEF t, d
<1>5. /\ Started(c, wanted, os).direction = d
      /\ Started(c, wanted, os).lastFloor = t.lastFloor
  BY <1>1, <1>4 DEF Controls
<1> QED BY <1>1, <1>3, <1>5 DEF RememberedDirection

(* A step that starts no motor leaves the ride what it was. *)
LEMMA Coasting ==
  ASSUME TravelOK, Alive, UNCHANGED <<low, atSensor, travel>>,
         ctl'.motor \in {ctl.motor, "None"},
         RememberedDirection(ctl') = RememberedDirection(ctl),
         ctl'.lastFloor \in {ctl.lastFloor, IF atSensor THEN low ELSE ctl.lastFloor},
         mode' \in {"Waiting", "Stopped"} => ctl'.direction = "None",
         mode' # "Stopped" /\ ctl'.direction = "None"
           => atSensor \/ (mode # "Stopped" /\ ctl.direction = "None")
  PROVE  TravelOK'
<1>1. ctl'.motor # "None" => travel' = ctl'.motor
  BY DEF TravelOK
<1>2. travel' = "Up" /\ ctl'.lastFloor = MaxFloor => low' = MaxFloor
  BY DEF TravelOK
<1>3. travel' = "Down" /\ ctl'.lastFloor = MinFloor => low' = MinFloor /\ atSensor'
  BY DEF TravelOK
<1>4. travel' # "None" => RememberedDirection(ctl') = travel'
  BY DEF TravelOK
<1>5. mode' # "Stopped" /\ ctl'.direction = "None" /\ ~atSensor =>
        \/ travel' = "None"
        \/ travel' = "Up"   /\ ctl'.lastFloor <= low'
        \/ travel' = "Down" /\ ctl'.lastFloor >= low'
  BY DEF TravelOK
<1> QED BY <1>1, <1>2, <1>3, <1>4, <1>5 DEF TravelOK, RememberedDirection

(* A step that starts one begins a ride. *)
LEMMA Starting ==
  ASSUME UNCHANGED <<low, atSensor>>, Travelled, mode' = "Normal",
         ctl'.direction \in {"Up", "Down"}, ctl'.motor = ctl'.direction,
         ctl'.lastFloor = MaxFloor => ctl'.direction = "Down",
         ctl'.lastFloor = MinFloor => ctl'.direction = "Up"
  PROVE  travel' = ctl'.direction /\ TravelOK'
<1>1. travel' = ctl'.direction
  BY DEF Travelled
<1>2. RememberedDirection(ctl') = ctl'.direction
  BY DEF RememberedDirection
<1> QED BY <1>1, <1>2 DEF TravelOK, RememberedDirection

(* What there is to prove of a step. *)
NoReversal ==
  /\ travel = "Up" /\ travel' = "Down" => \A f \in InsideFloors(orders') : f <= low
  /\ travel = "Down" /\ travel' = "Up" => \A f \in InsideFloors(orders') : f >= low

(* Resumed, the cabin goes on as before, except from an end of the shaft.   *)
LEMMA StopButtonTravel ==
  ASSUME IInv, TravelOK, StopButton
  PROVE  TravelOK' /\ NoReversal
<1> USE DEF cabin
<1>1. ctl \in Controls /\ (atSensor => low \in Floors) /\ Alive
  BY DEF IInv, TypeOK, StaysInShaft, Alive, StopButton, Stopping, Resuming, Resumed
<1>2. CASE Stopping
  <2>1. ctl' = Sensed(Stopped(ctl)) /\ mode' = "Stopped" /\ UNCHANGED <<low, atSensor, travel>>
    BY <1>2 DEF Stopping
  <2>2. Stopped(ctl) \in Controls
    BY <1>1, StoppedOK
  <2>3. /\ ctl'.motor = "None" /\ ctl'.direction = "None"
        /\ RememberedDirection(ctl') = RememberedDirection(ctl)
        /\ ctl'.lastFloor = IF atSensor THEN low ELSE ctl.lastFloor
    BY <1>1, <2>1, <2>2, StoppedOK, SensedOK, SensedKeeps
  <2>4. TravelOK'
    BY <1>1, <2>1, <2>3, Coasting
  <2> QED BY <2>1, <2>4 DEF NoReversal
<1>3. CASE Resuming
  <2> DEFINE s == Started(ctl, ctl.previous, orders)
  <2>1. /\ ctl.previous \in Directions /\ ctl' = s /\ mode' = "Normal" /\ Travelled
        /\ pc = "resuming" /\ UNCHANGED <<low, atSensor, orders>>
    BY <1>1, <1>3 DEF Resuming, Controls
  <2>2. /\ s \in Controls /\ s.direction = s.motor
        /\ s.direction \in {"Up", "Down"}
        /\ s.lastFloor = IF atSensor THEN low ELSE ctl.lastFloor
        /\ s.lastFloor = MaxFloor => s.direction = "Down"
        /\ s.lastFloor = MinFloor => s.direction = "Up"
        /\ ctl.previous # "None" /\ s.lastFloor \notin {MinFloor, MaxFloor}
             => s.direction = ctl.previous
    BY <1>1, <2>1, StartedOK, StartedHeads
  <2> HIDE DEF s
  <2>4. travel' = s.direction /\ TravelOK'
    BY <2>1, <2>2, Starting
  <2>5. travel # "None" => ctl.previous = travel
    BY <1>1, <2>1 DEF IInv, StopOK, TravelOK, RememberedDirection
  <2>6. \A f \in InsideFloors(orders') : f \in MinFloor .. MaxFloor
    BY DEF InsideFloors, Floors
  <2>7. /\ travel = "Up" /\ s.direction = "Down" => low = MaxFloor
        /\ travel = "Down" /\ s.direction = "Up" => low = MinFloor
    BY <2>2, <2>5, FloorsAssumption DEF TravelOK
  <2> QED BY <2>4, <2>6, <2>7, FloorsAssumption DEF NoReversal
<1>4. CASE Resumed
  <2>1. ctl' = Sensed(Shut(ctl)) /\ UNCHANGED <<low, atSensor, mode, travel>>
    BY <1>4 DEF Resumed, loop
  <2>2. Shut(ctl) \in Controls
    BY <1>1, ShutOK
  <2>3. /\ ctl'.motor = ctl.motor /\ ctl'.direction = ctl.direction
        /\ RememberedDirection(ctl') = RememberedDirection(ctl)
        /\ ctl'.lastFloor = IF atSensor THEN low ELSE ctl.lastFloor
    BY <1>1, <2>1, <2>2, ShutOK, SensedOK, SensedKeeps
  <2>4. mode \in {"Waiting", "Stopped"} => ctl.direction = "None"
    BY <1>1 DEF TravelOK
  <2>5. TravelOK'
    BY <1>1, <2>1, <2>3, <2>4, Coasting
  <2> QED BY <2>1, <2>5 DEF NoReversal
<1> QED BY <1>2, <1>3, <1>4 DEF StopButton

(* From a floor it turns round only if nobody inside wants to go on.        *)
LEMMA ControlTravel ==
  ASSUME IInv, TravelOK, Control
  PROVE  TravelOK' /\ NoReversal
<1> DEFINE c == Observed(ctl)
<1>1. /\ ctl \in Controls /\ (atSensor => low \in Floors) /\ Alive
      /\ low \in Int /\ low \in MinFloor .. MaxFloor
      /\ UNCHANGED <<low, atSensor>> /\ Travelled
  BY FloorsAssumption DEF IInv, TypeOK, StaysInShaft, Alive, Control, Floors
<1>2. /\ c \in Controls /\ c.motor \in {ctl.motor, "None"}
      /\ RememberedDirection(c) = RememberedDirection(ctl)
      /\ c.lastFloor = IF atSensor THEN low ELSE ctl.lastFloor
      /\ c.direction = ctl.direction \/ (c.direction = "None" /\ atSensor)
  <2>1. ctl.motor # "None" => ctl.direction = ctl.motor
    BY <1>1 DEF IInv, MotorOK
  <2> QED BY <1>1, <2>1, ObservedOK, ObservedKeeps
<1>3. \/ StopHere(c) \/ StartMoving(c) \/ StayIdle(c) \/ KeepMoving(c)
      \/ CloseDoorTimeout(c) \/ CloseDoorPressed(c) \/ CloseDoorAstray(c) \/ Wait(c)
  BY DEF Control, Closing
<1> HIDE DEF c
<1>4. ASSUME ctl'.motor \in {c.motor, "None"} PROVE travel' = travel
  BY <1>1, <1>2, <1>4 DEF Travelled, TravelOK
<1>5. mode \in {"Waiting", "Stopped"} => c.direction = "None"
  BY <1>1, <1>2 DEF TravelOK
<1>6. CASE StopHere(c) \/ StayIdle(c) \/ KeepMoving(c) \/ Wait(c)
  <2>1. ctl' = c /\ mode' = mode
    BY <1>6 DEF StopHere, StayIdle, KeepMoving, Wait
  <2>2. travel' = travel
    BY <1>4, <2>1
  <2>3. TravelOK'
    BY <1>1, <1>2, <1>5, <2>1, <2>2, Coasting
  <2> QED BY <2>2, <2>3 DEF NoReversal
<1>7. CASE CloseDoorTimeout(c) \/ CloseDoorPressed(c)
  <2>1. ctl' = Shut(c) /\ mode' = "Normal" /\ mode = "Waiting"
    BY <1>7 DEF CloseDoorTimeout, CloseDoorPressed
  <2>2. /\ ctl'.motor = c.motor /\ ctl'.direction = c.direction
        /\ ctl'.lastFloor = c.lastFloor
        /\ RememberedDirection(ctl') = RememberedDirection(c)
    BY <1>2, <2>1, ShutOK
  <2>3. travel' = travel
    BY <1>4, <2>2
  <2>4. TravelOK'
    BY <1>1, <1>2, <2>1, <2>2, <2>3, Coasting
  <2> QED BY <2>3, <2>4 DEF NoReversal
<1>8. CASE CloseDoorAstray(c)
  <2>1. /\ ctl' = Stopped(Shut(c)) /\ mode = "Waiting" /\ mode' \in {"Normal", "Stopped"}
        /\ ~atSensor
    BY <1>8 DEF CloseDoorAstray, EnterLoop, ModeAtStart
  <2>2. Shut(c) \in Controls
    BY <1>2, ShutOK
  <2>3. /\ ctl'.motor = "None" /\ ctl'.direction = "None"
        /\ ctl'.lastFloor = c.lastFloor
        /\ RememberedDirection(ctl') = RememberedDirection(c)
    BY <1>2, <2>1, <2>2, ShutOK, StoppedOK
  <2>4. travel' = travel
    BY <1>4, <2>3
  <2>5. ctl.direction = "None"
    BY <1>2, <1>5, <2>1
  <2>6. TravelOK'
    BY <1>1, <1>2, <2>1, <2>3, <2>4, <2>5, Coasting
  <2> QED BY <2>4, <2>6 DEF NoReversal
<1>9. CASE StartMoving(c)
  <2> DEFINE w == WantedDirection(c)
             s == Started(c, w, orders)
  <2>1. /\ c.previous \in Directions /\ w \in {"None", c.previous}
        /\ w \in Directions
    BY <1>2 DEF WantedDirection, Controls, Directions
  <2>2. /\ ctl' = s /\ mode' = "Normal" /\ mode = "Normal" /\ c.direction = "None"
        /\ InsideFloors(orders') = InsideFloors(orders)
    BY <1>9 DEF StartMoving
  <2>3. /\ s.direction = s.motor /\ s.direction \in {"Up", "Down"}
        /\ s.lastFloor = IF atSensor THEN low ELSE c.lastFloor
        /\ s.lastFloor = MaxFloor => s.direction = "Down"
        /\ s.lastFloor = MinFloor => s.direction = "Up"
        /\ w # "None" /\ s.lastFloor \notin {MinFloor, MaxFloor} => s.direction = w
    BY <1>1, <1>2, <2>1, StartedOK, StartedHeads
  <2>4. s.lastFloor = c.lastFloor
    BY <1>2, <2>3
  <2>5. w = "None" /\ c.previous # "None" => ~PriorityInDirection(c, c.previous)
    BY DEF WantedDirection
  <2> HIDE DEF w, s
  <2>6. travel' = s.direction /\ TravelOK'
    BY <1>1, <2>2, <2>3, Starting
  <2>7. /\ travel # "None" => c.previous = travel
        /\ travel = "Up"   => c.lastFloor <= low
        /\ travel = "Down" => c.lastFloor >= low
    BY <1>1, <1>2, <2>2 DEF TravelOK, RememberedDirection
  <2>8. c.lastFloor \in Int /\ \A f \in InsideFloors(orders) : f \in MinFloor .. MaxFloor
    BY <1>2, FloorsAssumption DEF InsideFloors, Floors, Controls
  <2>9. ASSUME travel = "Up", s.direction = "Down", NEW f \in InsideFloors(orders)
        PROVE  f <= low
    <3>1. CASE c.lastFloor = MaxFloor
      BY <1>1, <2>7, <2>8, <2>9, <3>1, FloorsAssumption
    <3>2. CASE c.lastFloor # MaxFloor
      <4>1. w = "None"
        BY <2>1, <2>3, <2>4, <2>7, <2>9, <3>2
      <4>2. ~(f > c.lastFloor)
        BY <2>5, <2>7, <2>9, <4>1 DEF PriorityInDirection
      <4> QED BY <1>1, <2>7, <2>8, <2>9, <4>2, FloorsAssumption
    <3> QED BY <3>1, <3>2
  <2>10. ASSUME travel = "Down", s.direction = "Up", NEW f \in InsideFloors(orders)
         PROVE  f >= low
    <3>1. CASE c.lastFloor = MinFloor
      BY <1>1, <2>7, <2>8, <2>10, <3>1, FloorsAssumption
    <3>2. CASE c.lastFloor # MinFloor
      <4>1. w = "None"
        BY <2>1, <2>3, <2>4, <2>7, <2>10, <3>2
      <4>2. ~(f < c.lastFloor)
        BY <2>5, <2>7, <2>10, <4>1 DEF PriorityInDirection
      <4> QED BY <1>1, <2>7, <2>8, <2>10, <4>2, FloorsAssumption
    <3> QED BY <3>1, <3>2
  <2> QED BY <2>2, <2>6, <2>9, <2>10 DEF NoReversal
<1> QED BY <1>3, <1>6, <1>7, <1>8, <1>9

(* The doors open before the motor stops and shut after it started: neither *)
(* changes the ride.                                                        *)
LEMMA DoorTravel ==
  ASSUME IInv, TravelOK, Opening \/ Arriving \/ Departing
  PROVE  TravelOK' /\ travel' = travel
<1> USE DEF cabin, loop
<1>1. /\ ctl \in Controls /\ Alive /\ UNCHANGED <<low, atSensor, travel>>
      /\ mode \in {"Waiting", "Stopped"} => ctl.direction = "None"
  BY DEF IInv, TypeOK, Alive, Opening, Arriving, Departing, TravelOK
<1>2. CASE Opening
  <2>1. ctl' = [ctl EXCEPT !.doorLamp = TRUE] /\ mode' = mode
    BY <1>2 DEF Opening
  <2>2. /\ ctl'.motor = ctl.motor /\ ctl'.direction = ctl.direction
        /\ ctl'.lastFloor = ctl.lastFloor
        /\ RememberedDirection(ctl') = RememberedDirection(ctl)
    BY <1>1, <2>1 DEF Controls, RememberedDirection
  <2> QED BY <1>1, <2>1, <2>2, Coasting
<1>3. CASE Arriving
  <2>1. ctl' = Stopped(ctl) /\ mode' = "Waiting" /\ pc = "arriving"
    BY <1>3 DEF Arriving
  <2>2. /\ ctl'.motor = "None" /\ ctl'.direction = "None"
        /\ ctl'.lastFloor = ctl.lastFloor
        /\ RememberedDirection(ctl') = RememberedDirection(ctl)
    BY <1>1, <2>1, StoppedOK
  <2>3. \/ atSensor
        \/ travel = "Up"   /\ ctl.lastFloor = low
        \/ travel = "Down" /\ ctl.lastFloor - 1 = low
    BY <2>1 DEF IInv, ArrivalOK, AtFloor, TravelOK
  <2>4. \/ atSensor
        \/ travel = "Up"   /\ ctl.lastFloor <= low
        \/ travel = "Down" /\ ctl.lastFloor >= low
    BY <1>1, <2>3, FloorsAssumption DEF Controls, Floors
  <2> QED BY <1>1, <2>1, <2>2, <2>4 DEF TravelOK, RememberedDirection
<1>4. CASE Departing
  <2>1. ctl' = Shut(ctl) /\ mode' = mode
    BY <1>4 DEF Departing
  <2>2. /\ ctl'.motor = ctl.motor /\ ctl'.direction = ctl.direction
        /\ ctl'.lastFloor = ctl.lastFloor
        /\ RememberedDirection(ctl') = RememberedDirection(ctl)
    BY <1>1, <2>1, ShutOK
  <2> QED BY <1>1, <2>1, <2>2, Coasting
<1> QED BY <1>1, <1>2, <1>3, <1>4

(* The cabin gets to an end of the shaft only by a ride towards it. *)
LEMMA MoveTravel == ASSUME IInv, TravelOK, Move PROVE TravelOK'
<1>1. /\ UNCHANGED <<ctl, mode, pc, travel>> /\ (atSensor => polled)
      /\ \/ ctl.motor = "Up"   /\ (Leave(low) \/ (low < MaxFloor /\ Arrive(low + 1)))
         \/ ctl.motor = "Down" /\ atSensor /\ Leave(low - 1)
         \/ ctl.motor = "Down" /\ ~atSensor /\ Arrive(low)
  BY DEF Move, loop
<1>2. travel = ctl.motor /\ ctl.motor # "None"
  BY <1>1 DEF TravelOK, Directions
<1>3. Alive => ctl.direction # "None"
  BY <1>2 DEF IInv, MotorOK
<1>4. travel = "Up" => ctl.lastFloor # MaxFloor
  BY <1>1, <1>2 DEF TravelOK, IInv, MotorOK, StaysInShaft
<1>5. travel = "Down" => ctl.lastFloor # MinFloor
  BY <1>1, <1>2 DEF TravelOK, IInv, MotorOK
<1>6. Alive' <=> Alive
  BY <1>1 DEF Alive
<1> QED BY <1>1, <1>2, <1>3, <1>4, <1>5, <1>6 DEF TravelOK, RememberedDirection

LEMMA OtherTravel ==
  ASSUME IInv, TravelOK, Next, ~StopButton, ~Control, ~(Opening \/ Arriving \/ Departing), ~Move
  PROVE  TravelOK' /\ travel' \in {travel, "None"}
<1>1. CASE Poll \/ ObstructionClear \/ SpinEnds \/ Command
  <2>1. UNCHANGED <<low, atSensor, ctl, mode, travel>> /\ Alive
    BY <1>1 DEF Poll, ObstructionClear, SpinEnds, Command, cabin, loop, Alive
  <2> QED BY <2>1 DEF TravelOK, RememberedDirection
<1>2. CASE Shutdown
  <2>1. /\ UNCHANGED <<low, atSensor, mode, travel>> /\ Alive
        /\ ctl' = [ctl EXCEPT !.motor = "None", !.doorLamp = FALSE]
    BY <1>2 DEF Shutdown, cabin, loop, Alive
  <2>2. /\ ctl'.motor = "None" /\ ctl'.direction = ctl.direction
        /\ ctl'.lastFloor = ctl.lastFloor
        /\ RememberedDirection(ctl') = RememberedDirection(ctl)
    BY <2>1 DEF IInv, TypeOK, Controls, RememberedDirection
  <2> QED BY <2>1, <2>2 DEF TravelOK, RememberedDirection
<1>3. CASE HandlerStops
  <2>1. /\ UNCHANGED <<low, atSensor, mode, travel>> /\ ~Alive'
        /\ ctl' = [ctl EXCEPT !.motor = "None"]
    BY <1>3 DEF HandlerStops, cabin, loop, Alive
  <2>2. ctl'.motor = "None" /\ ctl'.lastFloor = ctl.lastFloor
    BY <2>1 DEF IInv, TypeOK, Controls
  <2> QED BY <2>1, <2>2 DEF TravelOK
<1>4. CASE Restart
  <2>1. PICK r \in Recovered : StartProcess(r)
    BY <1>4 DEF Restart
  <2>2. travel' = "None" /\ ctl'.motor = "None" /\ ctl'.direction = "None"
    BY <2>1 DEF StartProcess, FreshControl
  <2> QED BY <2>2 DEF TravelOK
<1>5. CASE Env
  <2>1. UNCHANGED <<low, atSensor, ctl, mode, travel>> /\ (Alive' => Alive)
    BY <1>5 DEF Env, PressStop, ReleaseStop, Obstruct, CalmDown, Crash, cabin, loop, Alive
  <2> QED BY <2>1 DEF TravelOK, RememberedDirection
<1> QED BY <1>1, <1>2, <1>3, <1>4, <1>5 DEF Next, Process, Loop

(* Comment of _priorityFloorsInDirection: the cabin does not turn round     *)
(* while somebody inside wants to go further in its direction.              *)
THEOREM DirectionKept == Spec => NoReversalPastInside
<1>1. Init => TravelOK
  BY DEF Init, FreshControl, TravelOK, Alive
<1>2. IInv /\ TravelOK /\ [Next]_vars => TravelOK'
  <2>1. ASSUME IInv, TravelOK, Next PROVE TravelOK'
    BY <2>1, StopButtonTravel, ControlTravel, DoorTravel, MoveTravel, OtherTravel
  <2>2. ASSUME TravelOK, UNCHANGED vars PROVE TravelOK'
    BY <2>2 DEF vars, cabin, loop, TravelOK, Alive, RememberedDirection
  <2> QED BY <2>1, <2>2
<1>3. IInv /\ TravelOK /\ [Next]_vars => [NoReversal]_vars
  <2> SUFFICES ASSUME IInv, TravelOK, Next PROVE NoReversal
    OBVIOUS
  <2>1. CASE Move
    BY <2>1 DEF Move, NoReversal
  <2> QED BY <2>1, StopButtonTravel, ControlTravel, DoorTravel, OtherTravel DEF NoReversal
<1>4. [NoReversal]_vars
        => [/\ travel = "Up" /\ travel' = "Down" => \A f \in InsideFloors(orders') : f <= low
            /\ travel = "Down" /\ travel' = "Up" => \A f \in InsideFloors(orders') : f >= low]_vars
  BY DEF NoReversal
<1> QED BY <1>1, <1>2, <1>3, <1>4, Invariance, PTL DEF Spec, NoReversalPastInside
=============================================================================
