------------------------ MODULE ElevatorServiceProofs ------------------------
(***************************************************************************)
(* The control loop, with everything around it, implements the elevator    *)
(* that the schedulers count on (HallElevator), for any shaft, any hall    *)
(* calls and any faults; and its sets of floors may be kept as the bits of *)
(* a word (ElevatorFloors).                                                *)
(***************************************************************************)
EXTENDS ElevatorControlProofs, ElevatorFloors

(* What the schedulers see of this elevator. *)
HallOrders  == orders \cap HallButtons
HallLamps   == lamps \cap HallButtons
HallReports == {r \in out : IsHall(r)}

LEMMA HallFacts ==
  /\ \A b \in HallButtons : b[1] # "in"
  /\ \A b \in InButtons : b[1] = "in" /\ b \notin HallButtons
  /\ \A k, b : IsHall(<<k, b>>) <=> b[1] # "in"
BY DEF HallButtons, InButtons, IsHall

(* The work of HallElevator in terms of these. *)
LEMMA PressIsWork ==
  ASSUME NEW b \in HallButtons, b \notin lamps, HallLamps' = HallLamps \cup {b},
         HallReports' = {<<"pressed", b>>}, HallOrders' = HallOrders
  PROVE  Service!Press(b)
BY DEF Service!Press, HallOrders, HallLamps, HallReports

LEMMA AcceptIsWork ==
  ASSUME NEW b \in HallButtons, HallOrders' = HallOrders \cup {b},
         HallLamps' = HallLamps \cup {b}, HallReports' = {<<"going", b>>}
  PROVE  Service!Accept(b)
BY DEF Service!Accept, HallOrders, HallLamps, HallReports

LEMMA LightIsWork ==
  ASSUME NEW b \in HallButtons,
         HallLamps' = HallLamps \cup {b} \/ HallLamps' = HallLamps \ {b},
         HallReports' = {}, HallOrders' = HallOrders
  PROVE  Service!Light(b)
BY DEF Service!Light, HallOrders, HallLamps, HallReports

LEMMA ServeIsWork ==
  ASSUME NEW bs, HallOrders' = HallOrders \ bs, HallLamps' = HallLamps \ bs,
         HallReports' = {"served"} \X bs
  PROVE  Service!Serve(bs)
BY DEF Service!Serve, HallOrders, HallLamps, HallReports

LEMMA RestIsWork ==
  ASSUME HallOrders' = HallOrders, HallLamps' = HallLamps, HallReports' = {}
  PROVE  Service!Rest
BY DEF Service!Rest, HallOrders, HallLamps, HallReports

-----------------------------------------------------------------------------
(* The steps of the control loop *)

LEMMA PollIsWork == Poll => Service!Work
<1> SUFFICES ASSUME Poll PROVE Service!Work
  OBVIOUS
<1>1. PICK pressed \in Presses : PollButtons(pressed)
  BY DEF Poll
<1>2. /\ lamps' = lamps \cup pressed
      /\ orders' = orders \cup ((pressed \ lamps) \cap InButtons)
      /\ out' = {"pressed"} \X (pressed \ lamps)
  BY <1>1 DEF PollButtons
<1>3. HallOrders' = HallOrders
  BY <1>2, HallFacts DEF HallOrders
<1>4. HallCalls \subseteq HallButtons
  BY EnvironmentAssumption
<1>5. CASE pressed = {} \/ \E b \in InButtons : pressed = {b}
  <2>1. HallLamps' = HallLamps
    BY <1>2, <1>5, HallFacts DEF HallLamps
  <2>2. HallReports' = {}
    BY <1>2, <1>5, HallFacts DEF HallReports
  <2> QED BY <1>3, <2>1, <2>2, RestIsWork DEF Service!Work
<1>6. ASSUME NEW b \in HallCalls, pressed = {b}, b \in lamps PROVE Service!Work
  <2>1. HallLamps' = HallLamps /\ HallReports' = {}
    BY <1>2, <1>6 DEF HallLamps, HallReports
  <2> QED BY <1>3, <2>1, RestIsWork DEF Service!Work
<1>7. ASSUME NEW b \in HallCalls, pressed = {b}, b \notin lamps PROVE Service!Work
  <2>1. b \in HallButtons /\ HallLamps' = HallLamps \cup {b}
    BY <1>2, <1>4, <1>7 DEF HallLamps
  <2>2. out' = {<<"pressed", b>>}
    BY <1>2, <1>7
  <2>3. HallReports' = {<<"pressed", b>>}
    BY <2>1, <2>2, HallFacts DEF HallReports
  <2>4. Service!Press(b)
    BY <1>3, <1>7, <2>1, <2>3, PressIsWork
  <2> QED BY <2>1, <2>4 DEF Service!Work
<1> QED BY <1>5, <1>6, <1>7 DEF Presses

LEMMA CommandIsWork == Command => Service!Work
<1> SUFFICES ASSUME Command PROVE Service!Work
  OBVIOUS
<1>1. HallCalls \subseteq HallButtons
  BY EnvironmentAssumption
<1>2. CASE NoCommand
  <2>1. HallOrders' = HallOrders /\ HallLamps' = HallLamps /\ HallReports' = {}
    BY <1>2 DEF NoCommand, HallOrders, HallLamps, HallReports
  <2> QED BY <2>1, RestIsWork DEF Service!Work
<1>3. ASSUME NEW b \in HallCalls, CallTo(b) PROVE Service!Work
  <2>1. b \in HallButtons /\ HallOrders' = HallOrders \cup {b}
        /\ HallLamps' = HallLamps \cup {b}
    BY <1>1, <1>3 DEF CallTo, HallOrders, HallLamps
  <2>2. HallReports' = {<<"going", b>>}
    BY <1>3, <2>1, HallFacts DEF CallTo, HallReports
  <2>3. Service!Accept(b)
    BY <2>1, <2>2, AcceptIsWork
  <2> QED BY <2>1, <2>3 DEF Service!Work
<1>4. ASSUME NEW b \in HallCalls, NEW on \in BOOLEAN, TurnLight(b, on)
      PROVE  Service!Work
  <2>1. b \in HallButtons /\ HallOrders' = HallOrders /\ HallReports' = {}
    BY <1>1, <1>4 DEF TurnLight, HallOrders, HallReports
  <2>2. HallLamps' = HallLamps \cup {b} \/ HallLamps' = HallLamps \ {b}
    BY <1>4, <2>1 DEF TurnLight, HallLamps
  <2>3. Service!Light(b)
    BY <2>1, <2>2, LightIsWork
  <2> QED BY <2>1, <2>3 DEF Service!Work
<1> QED BY <1>2, <1>3, <1>4 DEF Command

(* On departure one hall button at most is turned off, and reported served  *)
(* if the elevator had been called there.                                   *)
LEMMA DirectionButtonIsHall ==
  ASSUME NEW c \in Controls
  PROVE  \/ DirectionButton(c) = {}
         \/ \E b \in HallButtons : DirectionButton(c) = {b}
<1>1. /\ MinFloor \in Floors /\ MaxFloor \in Floors /\ c.lastFloor \in Floors
      /\ MinFloor # MaxFloor
  BY FloorsAssumption DEF Floors, Controls
<1>2. <<"down", MaxFloor>> \in HallButtons /\ <<"up", MinFloor>> \in HallButtons
  BY <1>1 DEF HallButtons
<1>3. ASSUME c.lastFloor # MaxFloor, c.lastFloor # MinFloor
      PROVE  <<"down", c.lastFloor>> \in HallButtons /\ <<"up", c.lastFloor>> \in HallButtons
  BY <1>1, <1>3 DEF HallButtons
<1> QED BY <1>2, <1>3 DEF DirectionButton

LEMMA ClearingIsWork ==
  ASSUME NEW c \in Controls, ClearDirectionButton(c)
  PROVE  Service!Work
<1>1. /\ orders' = orders \ DirectionButton(c)
      /\ lamps' = lamps \ DirectionButton(c)
      /\ out' = {"served"} \X (DirectionButton(c) \cap orders)
  BY DEF ClearDirectionButton, ServedOrders, Served
<1>2. CASE DirectionButton(c) = {}
  <2>1. HallOrders' = HallOrders /\ HallLamps' = HallLamps /\ HallReports' = {}
    BY <1>1, <1>2 DEF HallOrders, HallLamps, HallReports
  <2> QED BY <2>1, RestIsWork DEF Service!Work
<1>3. ASSUME NEW b \in HallButtons, DirectionButton(c) = {b}, b \notin orders
      PROVE  Service!Work
  <2>1. HallOrders' = HallOrders /\ HallLamps' = HallLamps \ {b} /\ HallReports' = {}
    BY <1>1, <1>3 DEF HallOrders, HallLamps, HallReports
  <2>2. Service!Light(b)
    BY <2>1, LightIsWork
  <2> QED BY <2>2 DEF Service!Work
<1>4. ASSUME NEW b \in HallButtons, DirectionButton(c) = {b}, b \in orders
      PROVE  Service!Work
  <2>1. HallOrders' = HallOrders \ {b} /\ HallLamps' = HallLamps \ {b}
    BY <1>1, <1>4 DEF HallOrders, HallLamps
  <2>2. out' = {"served"} \X {b}
    BY <1>1, <1>4
  <2>3. HallReports' = {"served"} \X {b}
    BY <2>2, HallFacts DEF HallReports
  <2>4. Service!Serve({b}) /\ b \in orders \cap HallButtons
    BY <1>4, <2>1, <2>3, ServeIsWork
  <2> QED BY <2>4 DEF Service!Work
<1> QED BY <1>2, <1>3, <1>4, DirectionButtonIsHall

(* A step that reports nothing of hall calls, keeps them and their lamps.   *)
LEMMA StopButtonIsWork == Stopping \/ Resuming => Service!Work
<1> SUFFICES ASSUME Stopping \/ Resuming PROVE Service!Work
  OBVIOUS
<1>1. HallOrders' = HallOrders /\ HallLamps' = HallLamps /\ HallReports' = {}
  BY DEF Stopping, Resuming, HallOrders, HallLamps, HallReports
<1> QED BY <1>1, RestIsWork DEF Service!Work

(* An inside order served is nothing to the schedulers. *)
LEMMA ArrivingIsWork == Arriving => Service!Work
<1> SUFFICES ASSUME Arriving PROVE Service!Work
  OBVIOUS
<1>1. <<"in", ctl.lastFloor>> \notin HallButtons
  BY DEF HallButtons
<1>2. HallOrders' = HallOrders /\ HallLamps' = HallLamps
  BY <1>1 DEF Arriving, HallOrders, HallLamps
<1>3. out' = {<<"servedInside", <<"in", ctl.lastFloor>>>>}
  BY DEF Arriving
<1>4. HallReports' = {}
  BY <1>3 DEF HallReports, IsHall
<1> QED BY <1>2, <1>4, RestIsWork DEF Service!Work

LEMMA DepartingIsWork == IInv /\ Departing => Service!Work
  BY ClearingIsWork DEF IInv, TypeOK, Departing

(* A loop that starts over takes its hall lamps from its hall calls. *)
LEMMA EnteringIsWork == EnterLoop(orders) => Service!Work
<1> SUFFICES ASSUME EnterLoop(orders) PROVE Service!Work
  OBVIOUS
<1>1. /\ orders' = InsideByLights(orders) \cup (orders \cap HallButtons)
      /\ lamps' = orders' /\ out' = {}
  BY DEF EnterLoop
<1>2. orders' \cap HallButtons = orders \cap HallButtons
  BY <1>1, HallFacts DEF InsideByLights
<1>3. {r \in out' : IsHall(r)} = {}
  BY <1>1
<1>4. Service!Reset
  BY <1>1, <1>2, <1>3 DEF Service!Reset
<1> QED BY <1>4 DEF Service!Work

LEMMA ControlIsWork == IInv /\ Control => Service!Work
<1> SUFFICES ASSUME IInv, Control PROVE Service!Work
  OBVIOUS
<1> DEFINE c == Observed(ctl)
<1>1. low \in Floors
  BY DEF IInv, StaysInShaft
<1>2. c \in Controls
  <2>1. ctl \in Controls /\ (atSensor => low \in Floors) /\ pc = "control"
    BY DEF IInv, TypeOK, StaysInShaft, Control
  <2>2. ctl.motor # "None" => ctl.direction = ctl.motor
    BY <2>1 DEF IInv, MotorOK, Alive
  <2> QED BY <2>1, <2>2, ObservedOK
<1>3. \/ StopHere(c) \/ StartMoving(c) \/ StayIdle(c) \/ KeepMoving(c)
      \/ CloseDoorTimeout(c) \/ CloseDoorPressed(c) \/ CloseDoorAstray(c) \/ Wait(c)
  BY DEF Control, Closing
<1> HIDE DEF c
<1>4. CASE StopHere(c)
  <2>1. <<"in", low>> \notin HallButtons
    BY DEF HallButtons
  <2>2. HallOrders' = HallOrders /\ HallLamps' = HallLamps /\ HallReports' = {}
    BY <1>4, <2>1 DEF StopHere, HallOrders, HallLamps, HallReports
  <2> QED BY <2>2, RestIsWork DEF Service!Work
<1>5. CASE CloseDoorAstray(c)
  BY <1>5, EnteringIsWork DEF CloseDoorAstray
<1>6. CASE StayIdle(c) \/ CloseDoorPressed(c)
  BY <1>2, <1>6, ClearingIsWork DEF StayIdle, CloseDoorPressed
<1>7. CASE StartMoving(c) \/ KeepMoving(c) \/ Wait(c)
  <2>1. HallOrders' = HallOrders /\ HallLamps' = HallLamps /\ HallReports' = {}
    BY <1>7 DEF StartMoving, KeepMoving, Wait, HallOrders, HallLamps, HallReports
  <2> QED BY <2>1, RestIsWork DEF Service!Work
<1>8. CASE CloseDoorTimeout(c)
  <2>1. HallHere = Landing(low)
    BY DEF HallHere, Landing
  <2>2. HallOrders' = HallOrders \ Landing(low) /\ HallLamps' = HallLamps \ Landing(low)
    BY <1>8, <2>1 DEF CloseDoorTimeout, HallOrders, HallLamps
  <2>3. out' = {"served"} \X Landing(low)
    BY <1>8, <2>1 DEF CloseDoorTimeout, Served
  <2>4. \A b \in Landing(low) : b[1] # "in"
    BY DEF Landing
  <2>5. HallReports' = {"served"} \X Landing(low)
    BY <2>3, <2>4 DEF HallReports, IsHall
  <2>6. Service!Serve(Landing(low))
    BY <2>2, <2>5, ServeIsWork
  <2> QED BY <1>1, <2>6 DEF Service!Work
<1> QED BY <1>3, <1>4, <1>5, <1>6, <1>7, <1>8

-----------------------------------------------------------------------------
(* The refinement *)

LEMMA ServiceInit == Init => Service!Init
BY DEF Init, Service!Init, Alive

LEMMA ServiceStep == IInv /\ [Next]_vars => [Service!Next]_(Service!vars)
<1> SUFFICES ASSUME IInv, [Next]_vars
             PROVE  Service!Next \/ UNCHANGED Service!vars
  OBVIOUS
<1>1. ASSUME Service!Work, Alive, Alive' PROVE Service!Next
  BY <1>1 DEF Service!Next
<1>2. CASE Poll \/ Stopping \/ Resuming \/ Command \/ Control \/ Arriving \/ Departing
  <2>1. Service!Work
    BY <1>2, PollIsWork, StopButtonIsWork, CommandIsWork, ControlIsWork, ArrivingIsWork,
       DepartingIsWork
  <2>2. pc' \in {"stopping", "resuming", "resumed", "obstruction", "control", "opening",
                "started", "poll"}
    BY <1>2, ControlCases DEF Poll, PollNoStop, PollStop, PollResume, Stopping, Resuming,
          Command, Arriving, Departing, ControlGoal
  <2>3. Alive /\ Alive'
    BY <1>2, <2>2 DEF Poll, Stopping, Resuming, Command, Control, Arriving, Departing, Alive
  <2> QED BY <1>1, <2>1, <2>3
<1>3. CASE ObstructionClear
  <2>1. HallOrders' = HallOrders /\ HallLamps' = HallLamps /\ HallReports' = {}
    BY <1>3 DEF ObstructionClear, HallOrders, HallLamps, HallReports
  <2>2. Alive /\ Alive'
    BY <1>3 DEF ObstructionClear, Alive
  <2> QED BY <1>1, <2>1, <2>2, RestIsWork DEF Service!Work
<1>4. CASE Shutdown
  <2>1. Service!Shutdown
    BY <1>4 DEF Shutdown, Service!Shutdown
  <2>2. Alive /\ Alive'
    BY <1>4 DEF Shutdown, Alive
  <2> QED BY <1>1, <2>1, <2>2 DEF Service!Work
<1>5. CASE Crash
  <2>1. Service!Die
    BY <1>5 DEF Crash, Alive, Service!Die
  <2> QED BY <2>1 DEF Service!Next
<1>6. CASE Restart
  <2>1. PICK r \in Recovered : StartProcess(r)
    BY <1>6 DEF Restart
  <2>2. /\ orders' = InsideByLights(r.orders) \cup (r.orders \cap HallButtons)
        /\ lamps' = orders' /\ out' = {} /\ ~Alive /\ Alive'
    BY <1>6, <2>1 DEF Restart, StartProcess, EnterLoop, Alive
  <2>3. orders' \cap HallButtons = r.orders \cap HallButtons
    BY <2>2, HallFacts DEF InsideByLights
  <2>4. Service!Restart
    BY <2>2, <2>3 DEF Service!Restart
  <2> QED BY <2>4 DEF Service!Next
<1>7. CASE Resumed \/ Opening \/ SpinEnds \/ HandlerStops \/ Move \/ PressStop \/ ReleaseStop \/ Obstruct
           \/ CalmDown \/ UNCHANGED vars
  <2>1. UNCHANGED <<orders, lamps, out>>
    BY <1>7 DEF Resumed, Opening, SpinEnds, HandlerStops, Move, PressStop, ReleaseStop, Obstruct,
                CalmDown, vars
  <2>2. Alive' = Alive
    BY <1>7 DEF Resumed, Opening, SpinEnds, HandlerStops, Move, PressStop, ReleaseStop, Obstruct,
                CalmDown, vars, Alive
  <2> QED BY <2>1, <2>2 DEF Service!vars
<1> QED BY <1>2, <1>3, <1>4, <1>5, <1>6, <1>7 DEF Next, Process, Loop, StopButton, Env

(* Every call the elevator takes on or drops is reported, as the schedulers *)
(* of all nodes count on, unless its process dies.                          *)
THEOREM Refinement == Spec => ImplementsHallElevator
<1> QED BY ServiceInit, ServiceStep, Invariance, PTL
        DEF Spec, ImplementsHallElevator, Service!Spec

-----------------------------------------------------------------------------
(* The words of the control loop's sets of floors.  A word answers as its   *)
(* set because the floors of a building are fewer than its bits.            *)

Fit(d) ==
  /\ d.minFloor \in Int /\ d.maxFloor \in Int
  /\ d.maxFloor - d.minFloor < Width

LEMMA BitOfFloor ==
  ASSUME NEW d, Fit(d), NEW f \in d.minFloor .. d.maxFloor
  PROVE  /\ Bit(f, d) = {f - d.minFloor}
         /\ f - d.minFloor \in Bits
BY WidthAssumption DEF Fit, Bit, ShiftLeft, One, Bits

(* What the shifts and the decrement make of one bit. *)
LEMMA MaskOfBit ==
  ASSUME NEW k \in Bits
  PROVE  /\ Decrement({k}) = {i \in Bits : i < k}
         /\ ShiftLeft(Complement(Decrement({k})), 1) = {i \in Bits : i > k}
         /\ Complement({k}) = {i \in Bits : i # k}
<1>1. Decrement({k}) = {i \in Bits : i < k}
  BY WidthAssumption DEF Decrement, Bits
<1>2. Complement(Decrement({k})) = {i \in Bits : i >= k}
  BY <1>1, WidthAssumption DEF Complement, Bits
<1>3. ShiftLeft(Complement(Decrement({k})), 1) = {i \in Bits : i > k}
  BY <1>2, WidthAssumption DEF ShiftLeft, Bits
<1> QED
  BY <1>1, <1>3 DEF Complement

(* The floors of a set and the bits of its word correspond. *)
LEMMA BitsOfWord ==
  ASSUME NEW d, Fit(d), NEW S \in SUBSET (d.minFloor .. d.maxFloor)
  PROVE  /\ WordOf(S, d) \subseteq Bits
         /\ \A f \in d.minFloor .. d.maxFloor :
              /\ f - d.minFloor \in Bits
              /\ f - d.minFloor \in WordOf(S, d) <=> f \in S
         /\ \A i \in WordOf(S, d) : /\ i + d.minFloor \in S
                                    /\ (i + d.minFloor) - d.minFloor = i
BY WidthAssumption DEF Fit, WordOf, Bits

LEMMA WordAnswers ==
  ASSUME NEW d, Fit(d), d.minFloor <= d.maxFloor,
         NEW S \in SUBSET (d.minFloor .. d.maxFloor)
  PROVE  Represented(S, d)
<1> DEFINE w == WordOf(S, d)
<1> USE WidthAssumption
<1>1. ASSUME NEW f \in d.minFloor .. d.maxFloor
      PROVE  /\ get(w, f, d) <=> f \in S
             /\ anyHigher(w, f, d) <=> \E g \in S : g > f
             /\ anyLower(w, f, d) <=> \E g \in S : g < f
             /\ anyOther(w, f, d) <=> S \ {f} # {}
             /\ set(w, TRUE, f, d) = WordOf(S \cup {f}, d)
             /\ set(w, FALSE, f, d) = WordOf(S \ {f}, d)
  <2> DEFINE k == f - d.minFloor
  <2>1. /\ Bit(f, d) = {k}
        /\ k \in Bits
    BY BitOfFloor
  <2>2. /\ Decrement({k}) = {i \in Bits : i < k}
        /\ ShiftLeft(Complement(Decrement({k})), 1) = {i \in Bits : i > k}
        /\ Complement({k}) = {i \in Bits : i # k}
    BY <2>1, MaskOfBit
  <2>3. /\ w = {i \in Bits : i + d.minFloor \in S}
        /\ \A g \in S : g - d.minFloor \in w /\ g \in Int
        /\ d.minFloor \in Int
    BY BitsOfWord DEF WordOf, Fit
  <2>4. get(w, f, d) <=> f \in S
    BY <2>1, <2>3 DEF get, Zero, Bits
  <2>5. anyHigher(w, f, d) <=> \E g \in S : g > f
    <3>1. anyHigher(w, f, d) <=> \E i \in w : i > k
      BY <2>1, <2>2, <2>3 DEF anyHigher, Zero
    <3>2. (\E i \in w : i > k) <=> \E g \in S : g > f
      BY <2>3 DEF Bits
    <3> QED
      BY <3>1, <3>2
  <2>6. anyLower(w, f, d) <=> \E g \in S : g < f
    <3>1. anyLower(w, f, d) <=> \E i \in w : i < k
      BY <2>1, <2>2, <2>3 DEF anyLower, Zero
    <3>2. (\E i \in w : i < k) <=> \E g \in S : g < f
      BY <2>3 DEF Bits
    <3> QED
      BY <3>1, <3>2
  <2>7. anyOther(w, f, d) <=> S \ {f} # {}
    <3>1. anyOther(w, f, d) <=> \E i \in w : i # k
      BY <2>1, <2>2, <2>3 DEF anyOther, Zero
    <3>2. ASSUME NEW i \in w, i # k PROVE S \ {f} # {}
      <4>1. i \in Int /\ i + d.minFloor \in S
        BY <2>3 DEF Bits
      <4>2. i + d.minFloor # f
        BY <2>3, <3>2, <4>1
      <4> QED
        BY <4>1, <4>2
    <3>3. ASSUME NEW g \in S, g # f PROVE \E i \in w : i # k
      <4>1. g - d.minFloor \in w /\ g - d.minFloor # k
        BY <2>3, <3>3
      <4> QED
        BY <4>1
    <3>4. S \ {f} # {} <=> \E g \in S : g # f
      OBVIOUS
    <3> QED
      BY <3>1, <3>2, <3>3, <3>4
  <2>8. set(w, TRUE, f, d) = WordOf(S \cup {f}, d)
    BY <2>1, <2>3 DEF set, WordOf, Bits
  <2>9. set(w, FALSE, f, d) = WordOf(S \ {f}, d)
    <3>1. set(w, FALSE, f, d) = w \cap {i \in Bits : i # k}
      BY <2>1, <2>2 DEF set
    <3>2. \A i \in Bits : i # k <=> i + d.minFloor # f
      BY <2>3 DEF Bits
    <3> QED
      BY <2>3, <3>1, <3>2 DEF WordOf
  <2> QED
    BY <2>4, <2>5, <2>6, <2>7, <2>8, <2>9
<1>2. consistent(w, d)
  <2>1. /\ d.maxFloor \in d.minFloor .. d.maxFloor
        /\ \A g \in S : ~(g > d.maxFloor)
    BY DEF Fit
  <2>2. ~anyHigher(w, d.maxFloor, d)
    BY <1>1, <2>1
  <2> QED
    BY <2>2 DEF consistent
<1>3. hasAny(w) <=> S # {}
  BY BitsOfWord DEF hasAny, Zero
<1> QED
  BY <1>1, <1>2, <1>3 DEF Represented

LEMMA WordsAnswerTogether ==
  ASSUME NEW d, Fit(d), NEW S \in SUBSET (d.minFloor .. d.maxFloor),
         NEW T \in SUBSET (d.minFloor .. d.maxFloor)
  PROVE  RepresentedTogether(S, T, d)
<1>1. Zero = WordOf({}, d)
  BY DEF Zero, WordOf
<1>2. WordOf(S, d) \cup WordOf(T, d) = WordOf(S \cup T, d)
  BY DEF WordOf
<1>3. hasAdditional(WordOf(S, d), WordOf(T, d)) <=>
        \E i \in WordOf(T, d) : i \notin WordOf(S, d)
  BY DEF hasAdditional, ExclusiveOr, Zero
<1>4. (\E i \in WordOf(T, d) : i \notin WordOf(S, d)) <=> T \ S # {}
  <2>1. ASSUME NEW i \in WordOf(T, d), i \notin WordOf(S, d) PROVE T \ S # {}
    BY <2>1 DEF WordOf
  <2>2. ASSUME NEW f \in T \ S
        PROVE  \E i \in WordOf(T, d) : i \notin WordOf(S, d)
    BY BitsOfWord
  <2> QED
    BY <2>1, <2>2
<1> QED
  BY <1>1, <1>2, <1>3, <1>4 DEF RepresentedTogether

(* FloorSet::get, set, anyHigher, anyLower, anyOther, hasAdditional and the *)
(* rest answer for the words of the control loop as they do for its sets of *)
(* floors, in every building that has no more floors than the word has bits *)
(* - one that fills the word up to its top bit included.                    *)
THEOREM FloorSetsCorrect == Spec => []FloorSetsAreSets
<1>1. /\ Fit(Bounds) /\ Bounds.minFloor <= Bounds.maxFloor
      /\ Floors = Bounds.minFloor .. Bounds.maxFloor
  BY FloorsAssumption, FloorsFit DEF Fit, Bounds, Floors
<1>2. \A os : InsideFloors(os) \in SUBSET Floors
  BY DEF InsideFloors
<1>3. Represented(InsideFloors(orders), Bounds)
  BY <1>1, <1>2, WordAnswers
<1>4. RepresentedTogether(InsideFloors(orders), InsideFloors(inNow), Bounds)
  BY <1>1, <1>2, WordsAnswerTogether
<1>5. FloorSetsAreSets
  BY <1>3, <1>4 DEF FloorSetsAreSets
<1> QED
  BY <1>5, PTL
=============================================================================
