--------------------------- MODULE ElevatorControl ---------------------------
(***************************************************************************)
(* The control loop of one elevator (elevator/elevator.cpp) with its       *)
(* driver (elevator/driver.cpp), the cabin it moves, and the wrapper that  *)
(* restarts the process when it dies (tools/main.cpp).                     *)
(*                                                                         *)
(* One iteration of Elevator::_loop is these steps, in this order:         *)
(*                                                                         *)
(*    "poll"         buttons and the stop button; if this was pressed,     *)
(*                   then "stopping", or "resuming" and "resumed"          *)
(*    "obstruction"  the obstruction switch, with "spin" while it is on    *)
(*    "command"      at most one command of the scheduler                  *)
(*    "control"      the floor sensor, safety stops, and what to do next;  *)
(*                   to stop at a floor takes "opening" and "arriving"     *)
(*                   too, to start from one "started"                      *)
(*                                                                         *)
(* A step ends where the next write to motor, door or stop lamp comes, for *)
(* the code opens the doors before it stops the motor and starts the motor *)
(* before it shuts them.  Between any two steps the cabin moves, people    *)
(* touch switches, and the process may die.  It is "dead" until the        *)
(* parent's signal handler stops the motor ("halted"), and is then started *)
(* again.                                                                  *)
(*                                                                         *)
(* Time is left out: the doors may time out whenever they are open.  The   *)
(* one thing kept of it is the comment of main.cpp about heartbeats: the   *)
(* cabin takes longer to cross a floor sensor (400 ms) than an iteration   *)
(* may take before the process is killed and its motor stopped (100 ms),   *)
(* so the cabin leaves a sensor only after an iteration has seen it        *)
(* ("polled"); and it does not get from one sensor to the next while an    *)
(* iteration stops at a floor.                                             *)
(*                                                                         *)
(* A button is a pair of a kind and a floor.  "orders" joins the three     *)
(* FloorSets of ElevatorState: inside, up and down.  Its fields stopped    *)
(* and doorOpen are left out, the loop never reads them; so are keepalive  *)
(* and floor updates, which only carry the state to the scheduler.         *)
(***************************************************************************)
EXTENDS Integers, FiniteSets

CONSTANTS
  MinFloor, MaxFloor,   \* BasicDriverInfo: 1 and 4
  HallCalls,            \* hall buttons in use
  Recovered,            \* states a restarted process may start with: a fresh
                        \* one, or what the other nodes last heard of it
  Faults                \* which disturbances occur: "stop", "obstruction", "crash"

Floors == MinFloor .. MaxFloor

InButtons   == {"in"} \X Floors
HallButtons == ({"up"} \X (Floors \ {MaxFloor})) \cup ({"down"} \X (Floors \ {MinFloor}))
Buttons     == InButtons \cup HallButtons

ASSUME FloorsAssumption ==
  /\ MinFloor \in Int /\ MaxFloor \in Int
  /\ MinFloor < MaxFloor

ASSUME EnvironmentAssumption ==
  /\ HallCalls \subseteq HallButtons
  /\ Recovered \subseteq [lastFloor : Floors, orders : SUBSET Buttons]
  /\ Faults \subseteq {"stop", "obstruction", "crash"}

VARIABLES
  low, atSensor, \* the cabin: at the sensor of floor low, or just above it
  polled,        \* the loop has run a control step at this sensor
  ctl,           \* motor and door, and what the loop remembers of the movement
  stopLamp,      \* the stop lamp
  lamps,         \* the lit button lamps
  orders,        \* insideButtons, upButtons, downButtons
  mode,          \* the loop's local state: Normal, Waiting, Stopped
  pc,            \* where the loop is, or that the process is down
  stopLast,      \* the stop button was down in the last poll
  inNow,         \* inside buttons down in the last poll
  repressed,     \* one of them was not down in the poll before
  out,           \* state changes about calls emitted by the last step
  stopBtn,       \* the stop button is held down
  obstruction,   \* the obstruction switch
  calm,          \* from now on nobody touches anything and nothing fails
  travel         \* the direction of the last ride of this process

cabin    == <<low, atSensor, polled>>
loop     == <<mode, stopLast, inNow, repressed>>
switches == <<stopBtn, obstruction, calm>>
vars     == <<cabin, ctl, stopLamp, lamps, orders, loop, pc, out, switches, travel>>

-----------------------------------------------------------------------------
(* Movement.  ctl is a record so that what the code does in sequence can be *)
(* written as the composition of functions of it.                           *)

Directions == {"None", "Up", "Down"}

Controls ==
  [direction : Directions,   \* _elevState.direction
   previous  : Directions,   \* _previousDirection
   lastFloor : Floors,       \* _elevState.lastFloor
   motor     : Directions,   \* what the motor really does
   doorLamp  : BOOLEAN]      \* the door: its lamp stands for it

FreshControl(lastFloor, doorLamp) ==
  [direction |-> "None", previous |-> "None", lastFloor |-> lastFloor,
   motor |-> "None", doorLamp |-> doorLamp]

(* _updateAndGetFloor *)
Sensed(c) == [c EXCEPT !.lastFloor = IF atSensor THEN low ELSE c.lastFloor]

AtFloor(f) == atSensor /\ low = f

RememberedDirection(c) == IF c.direction # "None" THEN c.direction ELSE c.previous

(* Faulty variants of definitions of this module stand before them: each    *)
(* breaks one of the properties below.                                      *)
StoppedMotorOnly(c) ==
  [c EXCEPT !.previous = RememberedDirection(c), !.motor = "None"]

(* _stopElevator *)
Stopped(c) ==
  [c EXCEPT !.previous = RememberedDirection(c), !.direction = "None", !.motor = "None"]

InsideFloors(os) == {f \in Floors : <<"in", f>> \in os}
AllFloors(os)    == {f \in Floors : \E k \in {"in", "up", "down"} : <<k, f>> \in os}

(* _optimalDirection *)
FloorsToServe(os) == IF InsideFloors(os) # {} THEN InsideFloors(os) ELSE AllFloors(os)

OptimalDirection(floor, os) ==
  IF Cardinality({f \in FloorsToServe(os) : f > floor})
       >= Cardinality({f \in FloorsToServe(os) : f < floor})
  THEN "Up" ELSE "Down"

StartDirectionBlind(floor, wanted, os) ==
  IF wanted = "None" THEN OptimalDirection(floor, os) ELSE wanted

StartDirection(floor, wanted, os) ==
  CASE floor = MinFloor -> "Up"
    [] floor = MaxFloor -> "Down"
    [] OTHER -> IF wanted = "None" THEN OptimalDirection(floor, os) ELSE wanted

(* _startElevator *)
Started(c, wanted, os) ==
  LET d == StartDirection(Sensed(c).lastFloor, wanted, os)
  IN  [Sensed(c) EXCEPT !.direction = d, !.motor = d]

LeftOpen(c) == c

(* Its last line: with the motor on, the doors are shut. *)
Shut(c) == [c EXCEPT !.doorLamp = FALSE]

RunsIntoEndNever(c) == FALSE

RunsIntoEnd(c) ==
  \/ AtFloor(MaxFloor) /\ c.direction = "Up"
  \/ AtFloor(MinFloor) /\ c.direction = "Down"

(* The floor is read and the cabin stopped at either end of the shaft. *)
Observed(c) == IF RunsIntoEnd(Sensed(c)) THEN Stopped(Sensed(c)) ELSE Sensed(c)

(* _priorityFloorsInDirection *)
PriorityInDirection(c, d) ==
  \/ d = "Up"   /\ \E f \in InsideFloors(orders) : f > c.lastFloor
  \/ d = "Down" /\ \E f \in InsideFloors(orders) : f < c.lastFloor

(* _shouldStop *)
ShouldStop(c, floor) ==
  \/ floor \in InsideFloors(orders)
  \/ /\ c.direction = "Up"
     /\ \/ <<"up", floor>> \in orders
        \/ floor \in AllFloors(orders) /\ \A f \in AllFloors(orders) : f <= floor
  \/ /\ c.direction = "Down"
     /\ \/ <<"down", floor>> \in orders
        \/ floor \in AllFloors(orders) /\ \A f \in AllFloors(orders) : f >= floor
  \/ /\ c.direction = "None"
     /\ floor \in {MinFloor, MaxFloor} \cap AllFloors(orders)

(* _clearDirectionButtonLamp: the hall button it turns off, if any. *)
DirectionButton(c) ==
  CASE c.lastFloor = MaxFloor -> {<<"down", MaxFloor>>}
    [] c.lastFloor = MinFloor -> {<<"up", MinFloor>>}
    [] OTHER -> IF c.direction = "None" THEN {}
                ELSE {<<IF c.direction = "Down" THEN "down" ELSE "up", c.lastFloor>>}

Served(bs) == {"served"} \X bs
ServedUnreported(bs) == {}
ServedOrders(bs) == Served(bs \cap orders)

ClearDirectionButton(c) ==
  /\ orders' = orders \ DirectionButton(c)
  /\ lamps' = lamps \ DirectionButton(c)
  /\ out' = ServedOrders(DirectionButton(c))

-----------------------------------------------------------------------------
(* _initializeElevator: the loop is entered with the orders os, the lit     *)
(* inside lamps become orders too, and the hall lamps follow the orders.    *)

InsideByState(os) == os \cap InButtons
InsideByLights(os) == (lamps \cup os) \cap InButtons

NormalAtStart == "Normal"
ModeAtStart   == IF stopLamp THEN "Stopped" ELSE "Normal"

EnterLoop(os) ==
  /\ orders' = InsideByLights(os) \cup (os \cap HallButtons)
  /\ lamps'  = InsideByLights(os) \cup (os \cap HallButtons)
  /\ mode' = ModeAtStart
  /\ stopLast' = FALSE
  /\ inNow' = {}
  /\ repressed' = FALSE
  /\ out' = {}
  /\ pc' = "poll"

(* A process starts from a recovered state r. *)
StartProcess(r) ==
  /\ ctl' = FreshControl(r.lastFloor, ctl.doorLamp)
  /\ EnterLoop(r.orders)
  /\ travel' = "None"

(* The first start: all lamps are off, the cabin stands anywhere. *)
Init ==
  /\ low \in Floors
  /\ atSensor \in IF low = MaxFloor THEN {TRUE} ELSE BOOLEAN
  /\ polled = FALSE
  /\ ctl = FreshControl(MinFloor, FALSE)
  /\ stopLamp = FALSE
  /\ lamps = {}
  /\ orders = {}
  /\ mode = "Normal"
  /\ stopLast = FALSE
  /\ inNow = {}
  /\ repressed = FALSE
  /\ out = {}
  /\ pc = "poll"
  /\ stopBtn = FALSE
  /\ obstruction = FALSE
  /\ calm = FALSE
  /\ travel = "None"

Travelled == travel' = IF ctl'.motor = "None" THEN travel ELSE ctl'.motor

-----------------------------------------------------------------------------
(* Buttons and the stop button *)

(* Bound: at most one button is held down in a poll. *)
Presses == {{}} \cup {{b} : b \in InButtons \cup HallCalls}

(* A button counts as pressed anew only while its lamp is off. *)
PollButtons(pressed) ==
  /\ calm => pressed = {}
  /\ lamps' = lamps \cup pressed
  /\ orders' = orders \cup ((pressed \ lamps) \cap InButtons)
  /\ out' = {"pressed"} \X (pressed \ lamps)
  /\ inNow' = pressed \cap InButtons
  /\ repressed' = ~(inNow' \subseteq inNow)

StopPressed == stopBtn /\ ~stopLast

PollNoStop ==
  /\ ~StopPressed
  /\ pc' = "obstruction"
  /\ UNCHANGED stopLamp

PollStop ==
  /\ StopPressed /\ ~stopLamp
  /\ stopLamp' = TRUE
  /\ pc' = "stopping"

PollResume ==
  /\ StopPressed /\ stopLamp
  /\ stopLamp' = FALSE
  /\ pc' = "resuming"

Poll ==
  /\ pc = "poll"
  /\ \E pressed \in Presses : PollButtons(pressed)
  /\ PollNoStop \/ PollStop \/ PollResume
  /\ stopLast' = stopBtn
  /\ UNCHANGED <<cabin, ctl, mode, switches, travel>>

(* The stop lamp is lit, now the motor stops. *)
Stopping ==
  /\ pc = "stopping"
  /\ ctl' = Sensed(Stopped(ctl))
  /\ mode' = "Stopped"
  /\ pc' = "obstruction"
  /\ out' = {}
  /\ UNCHANGED <<cabin, stopLamp, lamps, orders, stopLast, inNow, repressed, switches, travel>>

(* The stop lamp is off, now the motor starts, and then the doors shut. *)
Resuming ==
  /\ pc = "resuming"
  /\ ctl' = Started(ctl, ctl.previous, orders)
  /\ mode' = "Normal"
  /\ pc' = "resumed"
  /\ out' = {}
  /\ Travelled
  /\ UNCHANGED <<cabin, stopLamp, lamps, orders, stopLast, inNow, repressed, switches>>

Resumed ==
  /\ pc = "resumed"
  /\ ctl' = Sensed(Shut(ctl))
  /\ pc' = "obstruction"
  /\ UNCHANGED <<cabin, stopLamp, lamps, orders, loop, out, switches, travel>>

StopButton == Stopping \/ Resuming \/ Resumed

-----------------------------------------------------------------------------
(* Obstruction *)

ObstructionClear ==
  /\ pc = "obstruction" /\ ~obstruction
  /\ pc' = "command"
  /\ out' = {}
  /\ UNCHANGED <<cabin, ctl, stopLamp, lamps, orders, loop, switches, travel>>

(* Driver::shutdown: the motor stops and every lamp goes off, but the loop  *)
(* still believes it is moving.                                             *)
Shutdown ==
  /\ pc = "obstruction" /\ obstruction
  /\ ctl' = [ctl EXCEPT !.motor = "None", !.doorLamp = FALSE]
  /\ lamps' = {}
  /\ stopLamp' = FALSE
  /\ out' = {}
  /\ pc' = "spin"
  /\ UNCHANGED <<cabin, orders, loop, switches, travel>>

SpinEnds ==
  /\ pc = "spin" /\ ~obstruction
  /\ pc' = "command"
  /\ UNCHANGED <<cabin, ctl, stopLamp, lamps, orders, loop, out, switches, travel>>

-----------------------------------------------------------------------------
(* Commands.  The scheduler of this or of another node may send any; what   *)
(* it really sends is the subject of module Dispatch.                       *)

CallToSilently(b) ==
  /\ orders' = orders \cup {b}
  /\ lamps' = lamps \cup {b}
  /\ out' = {}

CallTo(b) ==
  /\ orders' = orders \cup {b}
  /\ lamps' = lamps \cup {b}
  /\ out' = {<<"going", b>>}

TurnLight(b, on) ==
  /\ lamps' = IF on THEN lamps \cup {b} ELSE lamps \ {b}
  /\ out' = {}
  /\ UNCHANGED orders

NoCommand == out' = {} /\ UNCHANGED <<orders, lamps>>

Command ==
  /\ pc = "command"
  /\ \/ NoCommand
     \/ ~calm /\ \E b \in HallCalls :
          CallTo(b) \/ \E on \in BOOLEAN : TurnLight(b, on)
  /\ pc' = "control"
  /\ UNCHANGED <<cabin, ctl, stopLamp, loop, switches, travel>>

-----------------------------------------------------------------------------
(* Control *)

(* c is the movement after the safety stops. *)
Arrives(c) == mode = "Normal" /\ atSensor /\ ShouldStop(c, low)

(* The order is off the books first, then the doors open, then the motor    *)
(* stops.                                                                   *)
StopHere(c) ==
  /\ Arrives(c)
  /\ ctl' = c
  /\ orders' = orders \ {<<"in", low>>}
  /\ lamps' = lamps \ {<<"in", low>>}
  /\ out' = {}
  /\ UNCHANGED mode

Opening ==
  /\ pc = "opening"
  /\ ctl' = [ctl EXCEPT !.doorLamp = TRUE]
  /\ pc' = "arriving"
  /\ UNCHANGED <<cabin, stopLamp, lamps, orders, loop, out, switches, travel>>

Arriving ==
  /\ pc = "arriving"
  /\ ctl' = Stopped(ctl)
  /\ orders' = orders \ {<<"in", ctl.lastFloor>>}
  /\ out' = {<<"servedInside", <<"in", ctl.lastFloor>>>>}
  /\ mode' = "Waiting"
  /\ polled' = TRUE
  /\ pc' = "poll"
  /\ UNCHANGED <<low, atSensor, stopLamp, lamps, stopLast, inNow, repressed, switches, travel>>

(* The direction of travel is kept for those inside. *)
AnyDirection(c) == "None"

WantedDirection(c) == IF PriorityInDirection(c, c.previous) THEN c.previous ELSE "None"

StartMoving(c) ==
  /\ mode = "Normal" /\ ~Arrives(c) /\ c.direction = "None"
  /\ orders # {}
  /\ ctl' = Started(c, WantedDirection(c), orders)
  /\ out' = {}
  /\ UNCHANGED <<orders, lamps, mode>>

(* The motor is on: the doors shut, and a call of this floor is dropped. *)
Departing ==
  /\ pc = "started"
  /\ ctl' = Shut(ctl)
  /\ ClearDirectionButton(ctl)
  /\ pc' = "poll"
  /\ UNCHANGED <<cabin, stopLamp, loop, switches, travel>>

StayIdle(c) ==
  /\ mode = "Normal" /\ c.direction = "None"
  /\ orders = {}
  /\ ctl' = c
  /\ ClearDirectionButton(c)
  /\ UNCHANGED mode

KeepMoving(c) ==
  /\ mode = "Normal" /\ ~Arrives(c) /\ c.direction # "None"
  /\ ctl' = c
  /\ out' = {}
  /\ UNCHANGED <<orders, lamps, mode>>

HallHere == {"up", "down"} \X {low}

(* The doors time out: both hall calls of the floor count as served. *)
CloseDoorTimeout(c) ==
  /\ mode = "Waiting" /\ atSensor
  /\ ctl' = Shut(c)
  /\ orders' = orders \ HallHere
  /\ lamps' = lamps \ HallHere
  /\ out' = Served(HallHere)
  /\ mode' = "Normal"

(* Somebody entered and pressed an inside button. *)
CloseDoorPressed(c) ==
  /\ mode = "Waiting" /\ repressed
  /\ ctl' = Shut(c)
  /\ ClearDirectionButton(c)
  /\ mode' = "Normal"

Wait(c) ==
  /\ \/ mode = "Waiting" /\ ~repressed
     \/ mode = "Stopped"
  /\ ctl' = c
  /\ out' = {}
  /\ UNCHANGED <<orders, lamps, mode>>

(* The cabin had left the sensor before its motor stopped: there is no      *)
(* floor to drop a call from, and the assertion that says so ends _loop,    *)
(* which stops the motor and is entered again (restartWrapper).             *)
CloseDoorAstray(c) ==
  /\ mode = "Waiting" /\ ~atSensor
  /\ ctl' = Stopped(Shut(c))
  /\ EnterLoop(orders)

EndOfIteration == pc' = "poll" /\ UNCHANGED <<stopLast, inNow>>

Closing ==
  LET c == Observed(ctl)
  IN  \/ (CloseDoorTimeout(c) \/ CloseDoorPressed(c)) /\ EndOfIteration
      \/ CloseDoorAstray(c)

Control ==
  /\ pc = "control"
  /\ LET c == Observed(ctl)
     IN  \/ /\ StopHere(c)
            /\ pc' = "opening"
            /\ UNCHANGED <<polled, stopLast, inNow>>
         \/ /\ StartMoving(c)
            /\ pc' = "started"
            /\ polled' = TRUE
            /\ UNCHANGED <<stopLast, inNow>>
         \/ /\ \/ (StayIdle(c) \/ KeepMoving(c) \/ Wait(c)) /\ EndOfIteration
               \/ Closing
            /\ polled' = TRUE
  /\ repressed' = FALSE
  /\ Travelled
  /\ UNCHANGED <<low, atSensor, stopLamp, switches>>

-----------------------------------------------------------------------------
(* The cabin *)

Arrive(f) == low' = f /\ atSensor' = TRUE /\ polled' = FALSE
Leave(f)  == low' = f /\ atSensor' = FALSE /\ UNCHANGED polled

Move ==
  /\ IF atSensor THEN polled ELSE pc \notin {"opening", "arriving"}
  /\ \/ ctl.motor = "Up"   /\ atSensor  /\ Leave(low)
     \/ ctl.motor = "Up"   /\ ~atSensor /\ low < MaxFloor /\ Arrive(low + 1)
     \/ ctl.motor = "Down" /\ atSensor  /\ Leave(low - 1)
     \/ ctl.motor = "Down" /\ ~atSensor /\ low >= MinFloor /\ Arrive(low)
  /\ UNCHANGED <<ctl, stopLamp, lamps, orders, loop, pc, out, switches, travel>>

-----------------------------------------------------------------------------
(* People and failures *)

Alive == pc \notin {"dead", "halted"}

PressStop ==
  /\ "stop" \in Faults /\ ~calm
  /\ ~stopBtn
  /\ stopBtn' = TRUE
  /\ UNCHANGED <<cabin, ctl, stopLamp, lamps, orders, loop, pc, out, obstruction, calm, travel>>

ReleaseStop ==
  /\ stopBtn
  /\ stopBtn' = FALSE
  /\ UNCHANGED <<cabin, ctl, stopLamp, lamps, orders, loop, pc, out, obstruction, calm, travel>>

Obstruct ==
  /\ "obstruction" \in Faults
  /\ IF obstruction THEN TRUE ELSE ~calm
  /\ obstruction' = ~obstruction
  /\ UNCHANGED <<cabin, ctl, stopLamp, lamps, orders, loop, pc, out, stopBtn, calm, travel>>

CalmDown ==
  /\ ~calm
  /\ calm' = TRUE
  /\ UNCHANGED <<cabin, ctl, stopLamp, lamps, orders, loop, pc, out, stopBtn, obstruction, travel>>

(* A heartbeat expires or the process is killed; outputs stay as they are. *)
Crash ==
  /\ "crash" \in Faults
  /\ Alive /\ (calm => pc = "spin")
  /\ pc' = "dead"
  /\ UNCHANGED <<cabin, ctl, stopLamp, lamps, orders, loop, out, switches, travel>>

(* handler of SIGCHLD in the parent *)
HandlerStops ==
  /\ pc = "dead"
  /\ ctl' = [ctl EXCEPT !.motor = "None"]
  /\ pc' = "halted"
  /\ UNCHANGED <<cabin, stopLamp, lamps, orders, loop, out, switches, travel>>

(* initRecovery: a new child *)
Restart ==
  /\ pc = "halted"
  /\ \E r \in Recovered : StartProcess(r)
  /\ UNCHANGED <<cabin, stopLamp, switches>>

-----------------------------------------------------------------------------
Loop    == Poll \/ StopButton \/ ObstructionClear \/ Shutdown \/ SpinEnds \/ Command
             \/ Control \/ Opening \/ Arriving \/ Departing
Process == Loop \/ HandlerStops \/ Restart
Env     == PressStop \/ ReleaseStop \/ Obstruct \/ CalmDown \/ Crash

Next == Process \/ Move \/ Env

Spec == Init /\ [][Next]_vars

(* The loop never blocks and the watchdog restarts it; a running motor      *)
(* moves the cabin; open doors time out; a loop that only spins misses its  *)
(* heartbeat; and people calm down at last.                                 *)
Fairness ==
  /\ WF_vars(Process)
  /\ WF_vars(Move)
  /\ SF_vars(Control /\ Closing)
  /\ WF_vars(Crash /\ pc = "spin")
  /\ WF_vars(CalmDown)
  /\ WF_vars(ReleaseStop)

FairSpec == Spec /\ Fairness

-----------------------------------------------------------------------------
(* Properties *)

Reports ==
  {"pressed", "going", "served", "servedInside"} \X ({"in", "up", "down"} \X Floors)

TypeOK ==
  /\ low \in MinFloor - 1 .. MaxFloor
  /\ atSensor \in BOOLEAN
  /\ polled \in BOOLEAN
  /\ ctl \in Controls
  /\ stopLamp \in BOOLEAN
  /\ lamps \subseteq Buttons
  /\ orders \subseteq Buttons
  /\ mode \in {"Normal", "Waiting", "Stopped"}
  /\ pc \in {"poll", "stopping", "resuming", "resumed", "obstruction", "spin", "command",
             "control", "opening", "arriving", "started", "dead", "halted"}
  /\ stopLast \in BOOLEAN
  /\ inNow \subseteq InButtons
  /\ repressed \in BOOLEAN
  /\ out \subseteq Reports
  /\ stopBtn \in BOOLEAN
  /\ obstruction \in BOOLEAN
  /\ calm \in BOOLEAN
  /\ travel \in Directions

(* The cabin never runs off either end of the shaft, whatever floor the     *)
(* program believes it is at and wherever it was stopped, killed or         *)
(* restarted (safety precautions of _loop, bounds of _startElevator).       *)
StaysInShaft ==
  /\ low \in Floors
  /\ ~atSensor => low # MaxFloor

(* The doors are open with the motor running for no longer than the code    *)
(* takes from one write to the next: from setMotorSpeed to setDoorOpenLamp  *)
(* of _startElevator; on arrival, where the doors open first, until         *)
(* _stopElevator, with the cabin still beside the floor it stops at; and    *)
(* after a death there, until the parent's handler stops the motor.  After  *)
(* any stop, restart or obstruction the cabin rides with its doors shut.    *)
Beside(f) == AtFloor(f) \/ (~atSensor /\ low \in {f - 1, f})

DoorClosedWhileMoving ==
  ctl.motor # "None" /\ ctl.doorLamp =>
    \/ pc \in {"resumed", "started", "dead"}
    \/ pc = "arriving" /\ Beside(ctl.lastFloor)

(* While the stop lamp is lit the cabin stands, across restarts too: from   *)
(* the write after the one that lit it, and the parent's handler on.        *)
StopLampMeansHalted ==
  stopLamp => ctl.motor = "None" \/ pc \in {"stopping", "dead"}

(* An order given inside the cabin is dropped only at its floor, and the    *)
(* doors open next, unless the process dies just then; the lamps keep it    *)
(* when the process dies elsewhere, even if the state recovered from the    *)
(* other nodes is stale (_initializeElevator), unless an obstruction had    *)
(* turned its lamp off.                                                     *)
InsideOrderKept ==
  [][/\ \A f \in Floors :
          <<"in", f>> \in orders /\ <<"in", f>> \notin orders'
            => \/ AtFloor(f) /\ pc' = "opening"
               \/ pc = "halted" /\ <<"in", f>> \notin lamps
     /\ pc = "opening" /\ pc' # "opening" => ctl'.doorLamp \/ pc' = "dead"]_vars

(* Whoever assigned a hall call here hears of it: unless the process dies,  *)
(* a call leaves the orders only in a step that reports it served.          *)
DroppedCallsReported ==
  [][\A b \in HallButtons :
       b \in orders /\ b \notin orders' => <<"served", b>> \in out' \/ ~Alive]_vars

(* Comment of _priorityFloorsInDirection: the cabin does not turn round     *)
(* while somebody inside wants to go further in its direction.              *)
NoReversalPastInside ==
  [][/\ travel = "Up" /\ travel' = "Down" => \A f \in InsideFloors(orders') : f <= low
     /\ travel = "Down" /\ travel' = "Up" => \A f \in InsideFloors(orders') : f >= low]_vars

(***************************************************************************)
(* The inductive invariant behind these properties.                        *)
(***************************************************************************)

(* The motor of a live process runs only as the loop believes, and a        *)
(* control step at an end of the shaft leaves it stopped or reversed.       *)
MotorOK ==
  /\ Alive /\ ctl.motor # "None" => ctl.direction = ctl.motor
  /\ atSensor /\ polled /\ ctl.motor = "Up"   => low # MaxFloor
  /\ atSensor /\ polled /\ ctl.motor = "Down" => low # MinFloor

StopOK ==
  /\ Alive /\ stopLamp => mode = "Stopped" \/ pc = "stopping"
  /\ Alive /\ mode = "Stopped" => ctl.motor = "None"
  /\ pc = "resuming" => mode = "Stopped" /\ ~stopLamp
  /\ pc = "halted" => ctl.motor = "None"

(* A cabin about to stop is at the floor it stops at, or has just left it   *)
(* in the direction of its motor, and the order is off.                     *)
ArrivalOK ==
  pc \in {"opening", "arriving"} =>
    /\ \/ AtFloor(ctl.lastFloor)
       \/ ~atSensor /\ ctl.motor = "Up"   /\ low = ctl.lastFloor
       \/ ~atSensor /\ ctl.motor = "Down" /\ low = ctl.lastFloor - 1
    /\ mode = "Normal"
    /\ <<"in", ctl.lastFloor>> \notin orders

(* Only an obstruction makes the lamps forget what is pressed inside.       *)
LampsOK ==
  "obstruction" \notin Faults =>
    /\ ~obstruction
    /\ \A f \in Floors : <<"in", f>> \in lamps <=> <<"in", f>> \in orders

(* What the loop remembers of its last ride, and of the floor it reached,   *)
(* is true, and unless it moves or was stopped it stands at a sensor, or    *)
(* just past that of the last floor.                                        *)
TravelOK ==
  /\ ctl.motor # "None" => travel = ctl.motor
  /\ travel = "Up" /\ ctl.lastFloor = MaxFloor => low = MaxFloor
  /\ travel = "Down" /\ ctl.lastFloor = MinFloor => low = MinFloor /\ atSensor
  /\ Alive /\ travel # "None" => RememberedDirection(ctl) = travel
  /\ Alive /\ mode \in {"Waiting", "Stopped"} => ctl.direction = "None"
  /\ Alive /\ mode # "Stopped" /\ ctl.direction = "None" =>
       \/ atSensor \/ travel = "None"
       \/ travel = "Up"   /\ ctl.lastFloor <= low
       \/ travel = "Down" /\ ctl.lastFloor >= low

IInv ==
  /\ TypeOK
  /\ StaysInShaft
  /\ MotorOK
  /\ DoorClosedWhileMoving
  /\ StopOK
  /\ ArrivalOK
  /\ LampsOK

(* elevator.cpp:373, "check if we arrived at any floor which was scheduled  *)
(* for us": a hall call is taken off the orders at its floor, with the      *)
(* doors open.                                                              *)
HallCallMeetsDoor ==
  [][\A b \in HallButtons :
       b \in orders /\ b \notin orders' /\ Alive => AtFloor(b[2]) /\ ctl.doorLamp]_vars

(* To the schedulers the loop, with the cabin, the people, the failures and *)
(* the restarts around it, is an elevator as module HallElevator has it:    *)
(* whoever assigned a call hears of it whenever it leaves the orders.       *)
IsHall(r) == r[2][1] # "in"
Landing(f) == {"up", "down"} \X {f}
Service == INSTANCE HallElevator WITH
  Calls <- HallButtons,
  Landings <- {Landing(f) : f \in Floors},
  Recovered <- {r.orders \cap HallButtons : r \in Recovered},
  orders <- orders \cap HallButtons,
  lamps <- lamps \cap HallButtons,
  reports <- {r \in out : IsHall(r)},
  up <- Alive
ImplementsHallElevator == Service!Spec

(* Once people leave the elevator alone it serves everything it was asked   *)
(* for, unless it was left stopped.                                         *)
EverythingServed == calm /\ orders # {} /\ mode # "Stopped" ~> orders = {} \/ mode = "Stopped"
=============================================================================
