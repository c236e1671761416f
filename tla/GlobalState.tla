---------------------------- MODULE GlobalState ----------------------------
(***************************************************************************)
(* What a node knows of all elevators and which one it sends to a call     *)
(* (elevator/globalstate.h, Scheduler::_optimalElevator).                  *)
(*                                                                         *)
(* Each elevator reports its state at every change and every keepAlive.    *)
(* The local one stamps its report; another node's is stamped when it is   *)
(* received, as clocks are not synchronized.  The scheduling thread enters *)
(* reports into the table; both of the scheduler's threads choose an       *)
(* elevator from it, at any time.                                          *)
(*                                                                         *)
(* The unit of time is keepAlive.  What a report says is chosen when it is *)
(* entered: between reports an elevator may do anything.                   *)
(***************************************************************************)
EXTENDS Integers, FiniteSets

CONSTANTS
  Elevators, Local,
  MinFloor, MaxFloor,
  Slack,   \* bound: keepAlives that a report may wait on the wire, and again
           \* in the queue, and that the local elevator may be late with one
  Horizon, \* bound: ages are told apart up to here
  Unknown  \* an elevator the table does not have

ASSUME ElevatorsAssumption == Local \in Elevators

ASSUME FloorsAssumption ==
  MinFloor \in Int /\ MaxFloor \in Int /\ MinFloor < MaxFloor

(* Heartbeats end a process long before it is a keepAlive late: their        *)
(* thresholds are 100 and 200 ms, keepAlive is 500.                         *)
ASSUME TimeAssumption == Slack \in {0, 1} /\ Horizon \in Nat \ {0}

VARIABLES
  known,   \* the table: the state last entered of each elevator
  age,     \* time since its timestamp
  report,  \* the report on its way to the table: where it is, and since when
  silence, \* for how long an elevator's process has been dead; the local
           \* one's is alive, and it is how long ago it reported
  entered  \* the local elevator has reported since this process started

vars == <<known, age, report, silence, entered>>

Floors == MinFloor..MaxFloor
Directions == {"Up", "Down", "None"}
ButtonTypes == {"CallUp", "CallDown"}
States == [lastFloor : Floors, direction : Directions, stopped : BOOLEAN]

ASSUME UnknownAssumption == Unknown \notin States

Times == 0..Horizon
Older(t) == IF t < Horizon THEN t + 1 ELSE t

NoReport == [at |-> "nowhere", since |-> 0]
Reports == [at : {"nowhere", "wire", "queue"}, since : Times]

Remote == Elevators \ {Local}
Alive == {e \in Elevators : e = Local \/ silence[e] = 0}

-----------------------------------------------------------------------------
(* A node that was restarted may have got its own state from another one,   *)
(* with a timestamp of that node's clock, and narrowed to an int: any.      *)
Init ==
  /\ \E s \in States \cup {Unknown}, t \in Times :
       /\ known = [e \in Elevators |-> IF e = Local THEN s ELSE Unknown]
       /\ age = [e \in Elevators |-> IF known[e] = Unknown THEN 0 ELSE t]
  /\ entered = FALSE
  /\ report = [e \in Elevators |-> NoReport]
  /\ silence = [e \in Elevators |-> 0]

-----------------------------------------------------------------------------
(* _emitStateChange of an elevator. *)
Report(e) ==
  /\ e \in Alive
  /\ report[e] = NoReport
  /\ report' = [report EXCEPT ![e] =
                  [at |-> IF e = Local THEN "queue" ELSE "wire", since |-> 0]]
  /\ silence' = [silence EXCEPT ![e] = 0]
  /\ UNCHANGED <<known, age, entered>>

(* The receiver stamps the report of another node. *)
Receive(e) ==
  /\ report[e].at = "wire"
  /\ report' = [report EXCEPT ![e] = [at |-> "queue", since |-> 0]]
  /\ UNCHANGED <<known, age, silence, entered>>

Lose(e) ==
  /\ report[e].at = "wire"
  /\ report' = [report EXCEPT ![e] = NoReport]
  /\ UNCHANGED <<known, age, silence, entered>>

UpdateKeepingStamp(e, s) ==
  /\ report[e].at = "queue"
  /\ known' = [known EXCEPT ![e] = s]
  /\ report' = [report EXCEPT ![e] = NoReport]
  /\ entered' = (entered \/ e = Local)
  /\ UNCHANGED <<age, silence>>

(* GlobalState::update *)
Update(e, s) ==
  /\ report[e].at = "queue"
  /\ known' = [known EXCEPT ![e] = s]
  /\ age' = [age EXCEPT ![e] = report[e].since]
  /\ report' = [report EXCEPT ![e] = NoReport]
  /\ entered' = (entered \/ e = Local)
  /\ UNCHANGED silence

(* The process of another node ends, and one is started in its place. *)
Die(e) ==
  /\ e \in Remote \cap Alive
  /\ silence' = [silence EXCEPT ![e] = 1]
  /\ UNCHANGED <<known, age, report, entered>>

Restart(e) ==
  /\ e \in Remote \ Alive
  /\ silence' = [silence EXCEPT ![e] = 0]
  /\ UNCHANGED <<known, age, report, entered>>

(* The local elevator reports every keepAlive, and no report waits long:    *)
(* the heartbeats of elevator and scheduler end the process otherwise.      *)
Punctual ==
  /\ silence[Local] <= Slack
  /\ \A e \in Elevators : report[e].at # "nowhere" => report[e].since < Slack

Tick ==
  /\ Punctual
  /\ age' = [e \in Elevators |-> IF known[e] = Unknown THEN 0 ELSE Older(age[e])]
  /\ report' = [e \in Elevators |->
                  IF report[e].at = "nowhere" THEN NoReport
                  ELSE [report[e] EXCEPT !.since = Older(@)]]
  /\ silence' = [e \in Elevators |-> IF e = Local \/ e \notin Alive
                                     THEN Older(silence[e]) ELSE 0]
  /\ UNCHANGED <<known, entered>>

Next ==
  \/ Tick
  \/ \E e \in Elevators :
       \/ Report(e) \/ Receive(e) \/ Lose(e) \/ Die(e) \/ Restart(e)
       \/ \E s \in States : Update(e, s)

Spec == Init /\ [][Next]_vars

-----------------------------------------------------------------------------
(* _optimalElevator *)

Range == MaxFloor - MinFloor
Distance(s, floor) ==
  IF s.lastFloor <= floor THEN floor - s.lastFloor ELSE s.lastFloor - floor

(* Thresholds of 1.2 and 3 keepAlives. *)
Outdated(t) == 5 * t > 6
Dead(t) == t > 3

OnTheWay(s, type, floor) ==
  \/ /\ s.direction = "Up"
     /\ (type = "CallUp" /\ floor > s.lastFloor) \/ floor = MaxFloor
  \/ /\ s.direction = "Down"
     /\ (type = "CallDown" /\ floor < s.lastFloor) \/ floor = MinFloor

TimePenalty(t) == IF Outdated(t) THEN 10 * Range ELSE 0
StopPenaltyOnce(s) == IF s.stopped THEN Range ELSE 0
StopPenalty(s) == IF s.stopped THEN 10 * Range ELSE 0
BusyPenaltyShort(s, type, floor) ==
  IF OnTheWay(s, type, floor) THEN Range + 1
  ELSE IF s.direction # "None" THEN 2 * Range
  ELSE 0
BusyPenalty(s, type, floor) ==
  IF OnTheWay(s, type, floor) THEN Range + 1
  ELSE IF s.direction # "None" THEN 2 * (Range + 1)
  ELSE 0

CostOf(s, t, type, floor) ==
  Distance(s, floor) + TimePenalty(t) + StopPenalty(s) + BusyPenalty(s, type, floor)

Cost(e, type, floor) == CostOf(known[e], age[e], type, floor)

CandidatesEver == {e \in Elevators : known[e] # Unknown}

Candidates == {e \in Elevators : known[e] # Unknown /\ ~Dead(age[e])}

(* The first of the cheapest in the order of the map, which is any order.   *)
Optimal(type, floor) ==
  {e \in Candidates :
     \A d \in Candidates : Cost(e, type, floor) <= Cost(d, type, floor)}

-----------------------------------------------------------------------------
(* Properties *)

TypeOK ==
  /\ known \in [Elevators -> States \cup {Unknown}]
  /\ age \in [Elevators -> Times]
  /\ report \in [Elevators -> Reports]
  /\ silence \in [Elevators -> Times]
  /\ entered \in BOOLEAN

(* "At least local cannot be dead so we should always find minimum": once   *)
(* the local elevator has reported, which it has before this node has a     *)
(* call to give, the assertion of scheduler.cpp:91 holds, wherever its next *)
(* report is held up and however old a recovered state looked.              *)
LocalIsNeverDead == entered => Local \in Candidates

(* A node that has been dead for longer than three keepAlives and what its  *)
(* last report may have waited on the wire gets no call.                    *)
DeadGetNoCalls ==
  \A e \in Remote \ Alive : silence[e] > 4 + Slack => e \notin Candidates

Fit(e) == ~known[e].stopped /\ ~Outdated(age[e])

(* A stopped elevator, or one not heard of for a while, is sent only if all *)
(* are like that: no distance and no direction outweighs it.                *)
UnfitIsLast ==
  \A type \in ButtonTypes, floor \in Floors :
    \A e \in Optimal(type, floor) :
      ~Fit(e) => \A d \in Candidates : ~Fit(d)

WrongWay(e, type, floor) ==
  known[e].direction # "None" /\ ~OnTheWay(known[e], type, floor)

(* "As a last resort we can schedule floor even to elevator which is        *)
(* running in different direction": no distance outweighs the direction.    *)
WrongWayIsLastResort ==
  \A type \in ButtonTypes, floor \in Floors :
    \A e \in Optimal(type, floor) :
      WrongWay(e, type, floor) =>
        \A d \in Candidates : Fit(d) => WrongWay(d, type, floor)
=============================================================================
