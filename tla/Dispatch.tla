------------------------------ MODULE Dispatch ------------------------------
(***************************************************************************)
(* How the nodes share out hall calls (elevator/scheduler.cpp with the     *)
(* queues and UDP links that tools/main.cpp puts between its threads).     *)
(*                                                                         *)
(* A node runs an elevator, a scheduling thread and a checking thread:     *)
(*                                                                         *)
(*   elevator --stateIn--> scheduling thread --toLocal--> elevator         *)
(*                             |       ^                     ^             *)
(*                    broadcast|       |stateNet             |commandNet   *)
(*                             v       |                     |             *)
(*                        to and from the same threads of other nodes      *)
(*                                                                         *)
(* State changes and commands have a queue, a sending thread, a port and a *)
(* receiving thread each, so that on the way from one node to another each *)
(* kind keeps its order, unless the network itself upsets it, while either *)
(* kind may overtake the other.                                            *)
(*                                                                         *)
(* The node where a hall button is pressed picks an elevator for the call, *)
(* sends it a command and keeps a request until the elevator reported that *)
(* it goes there ("going") and that it has been there ("served").  The     *)
(* checking thread sends a request again when its deadline passes.         *)
(*                                                                         *)
(* Left to other modules: how an elevator gets to a floor (module          *)
(* ElevatorControl; here it serves its orders at any time, in any order)   *)
(* and deadlines, locks and signals of the request queue (RequestQueue;    *)
(* here a request may expire at any time).  The elevator _optimalElevator  *)
(* picks depends on the states last heard of all elevators: here it is any *)
(* of them.  A request has an identity "id", which the code's have not, so *)
(* that two for the same call are two.                                     *)
(*                                                                         *)
(* A broadcast is put on the wire only for the nodes whose receiver        *)
(* accepts it: a state change by every other node, a command by its        *)
(* target.  The lights command for ANY_ID is accepted by none of them.     *)
(***************************************************************************)
EXTENDS Naturals, FiniteSets, Sequences, SequencesExt, Functions

CONSTANTS
  Nodes,
  Calls,       \* hall calls
  Landings,    \* the calls of one floor, as a sequence: up before down
  Mishaps,     \* what may go amiss: "loss" and "reorder" of messages, a floor
               \* served "unasked", an "early" deadline
  MaxPresses,  \* bound: hall buttons pressed in a behaviour
  MaxEvents    \* bound: buttons pressed and mishaps together

ASSUME BoundsAssumption ==
  /\ MaxPresses \in Nat /\ MaxEvents \in Nat
  /\ Mishaps \subseteq {"loss", "reorder", "unasked", "early"}

ASSUME CallsAssumption == Landings \subseteq Seq(Calls)

VARIABLES
  stateIn,   \* ConcurrentQueue< StateChange > of a node
  toLocal,   \* ConcurrentQueue< Command > of its elevator
  stateNet,  \* state changes on their way from one node to another,
  commandNet,\* and commands: from the sender's queue to the receiver's
  requests,  \* its RequestQueue, without the requests flagged Done
  held,      \* the request its checking thread has taken out
  orders,    \* hall calls its elevator is going to serve
  lamps,     \* its lit hall lamps
  own,       \* those of them that a press on this panel lit
  presses,   \* hall buttons pressed so far
  mishaps    \* how many of each kind there have been

networks == <<stateNet, commandNet>>
queues   == <<stateIn, toLocal, networks>>
books    == <<requests, held>>
elevator == <<orders, lamps, own>>
limits   == <<presses, mishaps>>
vars     == <<queues, books, elevator, limits>>

-----------------------------------------------------------------------------
(* Messages *)

Change  == [elev : Nodes, change : {"pressed", "going", "served"}, call : Calls]
Command == [target : Nodes, comm : {"call", "lightOn", "lightOff"}, call : Calls]
Ids == 1 .. MaxPresses
Request == [id : Ids, call : Calls, elev : Nodes, type : {"NotAcknowledged", "NotDone"}]

ChangeOf(n, change, c) == [elev |-> n, change |-> change, call |-> c]
CommandTo(n, comm, c)  == [target |-> n, comm |-> comm, call |-> c]
NewRequest(i, c, t) ==
  [id |-> i, call |-> c, elev |-> t, type |-> "NotAcknowledged"]

Emit(n, change, c) == stateIn' = [stateIn EXCEPT ![n] = Append(@, ChangeOf(n, change, c))]

Occurs(m, seq) == \E i \in DOMAIN seq : seq[i] = m

(* From a sender to a receiver. *)
Links == {l \in Nodes \X Nodes : l[1] # l[2]}

-----------------------------------------------------------------------------
Init ==
  /\ stateIn = [n \in Nodes |-> <<>>]
  /\ toLocal = [n \in Nodes |-> <<>>]
  /\ stateNet = [l \in Links |-> <<>>]
  /\ commandNet = [l \in Links |-> <<>>]
  /\ requests = [n \in Nodes |-> {}]
  /\ held = [n \in Nodes |-> {}]
  /\ orders = [n \in Nodes |-> {}]
  /\ lamps = [n \in Nodes |-> {}]
  /\ own = [n \in Nodes |-> {}]
  /\ presses = 0
  /\ mishaps = [kind \in Mishaps |-> 0]

-----------------------------------------------------------------------------
AllMishaps == FoldFunction(+, 0, mishaps)

Mishap(kind, happens) ==
  \/ ~happens /\ UNCHANGED mishaps
  \/ /\ happens
     /\ kind \in Mishaps /\ presses + AllMishaps < MaxEvents
     /\ mishaps' = [mishaps EXCEPT ![kind] = @ + 1]

(* The elevator of node n *)

LightsOff(n, cs) ==
  /\ lamps' = [lamps EXCEPT ![n] = @ \ cs]
  /\ own' = [own EXCEPT ![n] = @ \ cs]

(* A lit button is not polled as a new press. *)
Press(n, c) ==
  /\ presses < MaxPresses /\ presses + AllMishaps < MaxEvents
  /\ c \notin lamps[n]
  /\ lamps' = [lamps EXCEPT ![n] = @ \cup {c}]
  /\ own' = [own EXCEPT ![n] = @ \cup {c}]
  /\ Emit(n, "pressed", c)
  /\ presses' = presses + 1
  /\ UNCHANGED <<toLocal, networks, books, orders, mishaps>>

(* One command of the local queue per iteration of the control loop. *)
AcceptCall(n, c) ==
  /\ orders' = [orders EXCEPT ![n] = @ \cup {c}]
  /\ lamps' = [lamps EXCEPT ![n] = @ \cup {c}]
  /\ Emit(n, "going", c)
  /\ UNCHANGED own

LightOn(n, c) ==
  /\ lamps' = [lamps EXCEPT ![n] = @ \cup {c}]
  /\ UNCHANGED <<stateIn, orders, own>>

LightOff(n, c) ==
  /\ LightsOff(n, {c})
  /\ UNCHANGED <<stateIn, orders>>

HandleCommand(n) ==
  /\ toLocal[n] # <<>>
  /\ LET m == Head(toLocal[n])
     IN  \/ m.comm = "call"     /\ AcceptCall(n, m.call)
         \/ m.comm = "lightOn"  /\ LightOn(n, m.call)
         \/ m.comm = "lightOff" /\ LightOff(n, m.call)
  /\ toLocal' = [toLocal EXCEPT ![n] = Tail(@)]
  /\ UNCHANGED <<networks, books, limits>>

(* _clearDirectionButtonLamp, for a call the elevator has. *)
ServeDirection(n, c) ==
  /\ c \in orders[n]
  /\ orders' = [orders EXCEPT ![n] = @ \ {c}]
  /\ LightsOff(n, {c})
  /\ Emit(n, "served", c)
  /\ UNCHANGED <<toLocal, networks, books, limits>>

(* The doors time out at a floor it stopped at for whatever reason: all     *)
(* calls of the floor are reported served, had it been sent there or not.   *)
ServeLanding(n, l) ==
  /\ Mishap("unasked", orders[n] \cap ToSet(l) = {})
  /\ orders' = [orders EXCEPT ![n] = @ \ ToSet(l)]
  /\ LightsOff(n, ToSet(l))
  /\ stateIn' = [stateIn EXCEPT ![n] =
                   @ \o [i \in DOMAIN l |-> ChangeOf(n, "served", l[i])]]
  /\ UNCHANGED <<toLocal, networks, books, presses>>

(* Setting off from a floor, or idle at an end of the shaft, it turns this   *)
(* lamp off even if the call was given to another elevator.                 *)
ClearLamp(n, c) ==
  /\ c \in lamps[n] \ orders[n]
  /\ LightsOff(n, {c})
  /\ UNCHANGED <<queues, books, orders, limits>>

-----------------------------------------------------------------------------
(* The scheduling thread of node n *)

(* Faulty variants of definitions of this module stand before them: each    *)
(* breaks one of the properties below.                                      *)
ToAnybody(m) == [d \in Nodes |-> <<m>>]

(* Who takes a command: the filter of _forwardToTargets for the local       *)
(* elevator, the predicate of its receiver for another node's.              *)
To(m) == [d \in Nodes |-> IF d = m.target THEN <<m>> ELSE <<>>]

NoCommands == [d \in Nodes |-> <<>>]

(* _forwardToTargets, after the state changes ss were put into the queue of *)
(* the other sending thread.                                                *)
Forward(n, ss, ms) ==
  /\ toLocal' = [toLocal EXCEPT ![n] = @ \o ms[n]]
  /\ stateNet' = [l \in Links |-> stateNet[l] \o IF l[1] = n THEN ss ELSE <<>>]
  /\ commandNet' = [l \in Links |-> commandNet[l] \o IF l[1] = n THEN ms[l[2]] ELSE <<>>]

(* Each node passes on the changes of its own elevator. *)
Propagated(n, m) == IF m.elev = n THEN <<m>> ELSE <<>>

Triggers(r, m) ==
  /\ r.elev = m.elev
  /\ r.call = m.call
  /\ m.change = IF r.type = "NotAcknowledged" THEN "going" ELSE "served"

AfterAckClosed(rs, m) == {r \in rs : ~Triggers(r, m)}

(* ackRequest: acknowledged requests are NotDone, served ones are gone. *)
AfterAck(rs, m) ==
  {r \in rs : ~Triggers(r, m)}
    \cup {[r EXCEPT !.type = "NotDone"] :
            r \in {q \in rs : Triggers(q, m) /\ q.type = "NotAcknowledged"}}

(* The least identity that no request of node n has. *)
FreeId(n, i) ==
  LET taken == {r.id : r \in requests[n] \cup held[n]}
  IN  i \notin taken /\ 1 .. i - 1 \subseteq taken

(* A press here: light the lamp and send an elevator.                       *)
SchedulePress(n, m) ==
  /\ m.change = "pressed" /\ m.elev = n
  /\ \E t \in Nodes, i \in Ids :
       /\ FreeId(n, i)
       /\ requests' = [requests EXCEPT ![n] = @ \cup {NewRequest(i, m.call, t)}]
       /\ Forward(n, Propagated(n, m),
                  [d \in Nodes |-> To(CommandTo(n, "lightOn", m.call))[d]
                                     \o To(CommandTo(t, "call", m.call))[d]])

(* A press elsewhere: only the lamp. *)
ShowPress(n, m) ==
  /\ m.change = "pressed" /\ m.elev # n
  /\ Forward(n, <<>>, To(CommandTo(n, "lightOn", m.call)))
  /\ UNCHANGED requests

GoingNotice(n, m) ==
  /\ m.change = "going"
  /\ requests' = [requests EXCEPT ![n] = AfterAck(@, m)]
  /\ Forward(n, Propagated(n, m), NoCommands)

ServedLightsHere(n, m) ==
  IF m.elev = n THEN To(CommandTo(n, "lightOff", m.call)) ELSE NoCommands

ServedLights(n, m) == To(CommandTo(n, "lightOff", m.call))

ServedNotice(n, m) ==
  /\ m.change = "served"
  /\ requests' = [requests EXCEPT ![n] = AfterAck(@, m)]
  /\ Forward(n, Propagated(n, m), ServedLights(n, m))

Schedule(n) ==
  /\ stateIn[n] # <<>>
  /\ LET m == Head(stateIn[n])
     IN  SchedulePress(n, m) \/ ShowPress(n, m) \/ GoingNotice(n, m) \/ ServedNotice(n, m)
  /\ stateIn' = [stateIn EXCEPT ![n] = Tail(@)]
  /\ UNCHANGED <<held, elevator, limits>>

-----------------------------------------------------------------------------
(* The checking thread of node n *)

(* What r waits for is still to come: the command or the elevator's "going" *)
(* is under way between n and the elevator; for an acknowledged request,    *)
(* the ride goes on, or the report "served" is under way.                   *)
UnderWay(n, r) ==
  LET e == r.elev
      asked == CommandTo(e, "call", r.call)
      Answer(change) ==
        \/ Occurs(ChangeOf(e, change, r.call), stateIn[e])
        \/ Occurs(ChangeOf(e, change, r.call), stateIn[n])
        \/ \E l \in Links : l = <<e, n>> /\ Occurs(ChangeOf(e, change, r.call), stateNet[l])
  IN  \/ Occurs(asked, toLocal[e])
      \/ \E l \in Links : l = <<n, e>> /\ Occurs(asked, commandNet[l])
      \/ r.type = "NotAcknowledged" /\ Answer("going")
      \/ r.type = "NotDone" /\ (r.call \in orders[e] \/ Answer("served"))

(* The deadline passes.  The code means the 100 ms of a new request to be   *)
(* enough for a command and its answer, and the 30 s of an acknowledged one *)
(* for the ride; a deadline that is not is a mishap, one that passes after  *)
(* the answer was lost is not.                                              *)
Expire(n, r) ==
  /\ held[n] = {}
  /\ r \in requests[n]
  /\ Mishap("early", UnderWay(n, r))
  /\ held' = [held EXCEPT ![n] = {r}]
  /\ requests' = [requests EXCEPT ![n] = @ \ {r}]
  /\ UNCHANGED <<queues, elevator, presses>>

(* _resendRequest: to the same elevator, or from the fourth time on and for *)
(* a request not served in time to whichever seems best.                    *)
ResendForgetting(n, t, r) == requests[n]

ResendTracking(n, t, r) == requests[n] \cup {NewRequest(r.id, r.call, t)}

Resend(n, t) ==
  /\ \E r \in held[n] :
       /\ requests' = [requests EXCEPT ![n] = ResendTracking(n, t, r)]
       /\ Forward(n, <<>>, To(CommandTo(t, "call", r.call)))
  /\ held' = [held EXCEPT ![n] = {}]
  /\ UNCHANGED <<stateIn, elevator, limits>>

-----------------------------------------------------------------------------
(* The network *)

(* The receivers put what arrives on a link into the queues of its node. *)
ReceiveChange(l, i) ==
  /\ i \in DOMAIN stateNet[l]
  /\ Mishap("reorder", i > 1)
  /\ stateIn' = [stateIn EXCEPT ![l[2]] = Append(@, stateNet[l][i])]
  /\ stateNet' = [stateNet EXCEPT ![l] = RemoveAt(@, i)]
  /\ UNCHANGED <<toLocal, commandNet, books, elevator, presses>>

ReceiveCommand(l, i) ==
  /\ i \in DOMAIN commandNet[l]
  /\ Mishap("reorder", i > 1)
  /\ toLocal' = [toLocal EXCEPT ![l[2]] = Append(@, commandNet[l][i])]
  /\ commandNet' = [commandNet EXCEPT ![l] = RemoveAt(@, i)]
  /\ UNCHANGED <<stateIn, stateNet, books, elevator, presses>>

LoseChange(l, i) ==
  /\ Mishap("loss", TRUE)
  /\ i \in DOMAIN stateNet[l]
  /\ stateNet' = [stateNet EXCEPT ![l] = RemoveAt(@, i)]
  /\ UNCHANGED <<stateIn, toLocal, commandNet, books, elevator, presses>>

LoseCommand(l, i) ==
  /\ Mishap("loss", TRUE)
  /\ i \in DOMAIN commandNet[l]
  /\ commandNet' = [commandNet EXCEPT ![l] = RemoveAt(@, i)]
  /\ UNCHANGED <<stateIn, toLocal, stateNet, books, elevator, presses>>

-----------------------------------------------------------------------------
ReceiveAnyChange(l)  == \E i \in DOMAIN stateNet[l] : ReceiveChange(l, i)
ReceiveAnyCommand(l) == \E i \in DOMAIN commandNet[l] : ReceiveCommand(l, i)
LoseAny(l) ==
  \/ \E i \in DOMAIN stateNet[l] : LoseChange(l, i)
  \/ \E i \in DOMAIN commandNet[l] : LoseCommand(l, i)
ExpireAny(n) == \E r \in requests[n] : Expire(n, r)
ResendAny(n) == \E t \in Nodes : Resend(n, t)
ServeAny(n)  == \E c \in Calls : ServeDirection(n, c)

NodeNext(n) ==
  \/ HandleCommand(n) \/ Schedule(n) \/ ExpireAny(n) \/ ResendAny(n) \/ ServeAny(n)
  \/ \E l \in Landings : ServeLanding(n, l)
  \/ \E c \in Calls : Press(n, c) \/ ClearLamp(n, c)

LinkNext(l) == ReceiveAnyChange(l) \/ ReceiveAnyCommand(l) \/ LoseAny(l)

Next == (\E n \in Nodes : NodeNext(n)) \/ (\E l \in Links : LinkNext(l))

Spec == Init /\ [][Next]_vars

(* Every thread gets on with its work, elevators get to every order (module *)
(* ElevatorControl), deadlines pass, messages that are not lost arrive.     *)
Fairness ==
  /\ \A l \in Links : WF_vars(ReceiveAnyChange(l)) /\ WF_vars(ReceiveAnyCommand(l))
  /\ \A n \in Nodes :
       /\ WF_vars(HandleCommand(n))
       /\ WF_vars(Schedule(n))
       /\ WF_vars(ResendAny(n))
       /\ WF_vars(ExpireAny(n))
       /\ WF_vars(ServeAny(n))

FairSpec == Spec /\ Fairness

-----------------------------------------------------------------------------
(* Properties *)

TypeOK ==
  /\ stateIn \in [Nodes -> Seq(Change)]
  /\ toLocal \in [Nodes -> Seq(Command)]
  /\ stateNet \in [Links -> Seq(Change)]
  /\ commandNet \in [Links -> Seq(Command)]
  /\ requests \in [Nodes -> SUBSET Request]
  /\ held \in [Nodes -> SUBSET Request]
  /\ orders \in [Nodes -> SUBSET Calls]
  /\ lamps \in [Nodes -> SUBSET Calls]
  /\ own \in [Nodes -> SUBSET Calls]
  /\ presses \in 0 .. MaxPresses
  /\ mishaps \in [Mishaps -> Nat]

Tracked(n) == {r.call : r \in requests[n] \cup held[n]}

(* A lamp lit by a press on this node's panel, which hides further presses, *)
(* means that the node looks after the call: the press is still to be       *)
(* scheduled, or a request tracks it, or the lamp is about to go off.       *)
(* Whatever is lost, reordered, rescheduled or reported by the way.         *)
OwnLampIsTracked ==
  \A n \in Nodes : \A c \in own[n] :
    \/ Occurs(ChangeOf(n, "pressed", c), stateIn[n])
    \/ c \in Tracked(n)
    \/ Occurs(CommandTo(n, "lightOff", c), toLocal[n])

(* Assertion of elevator.cpp:323: the local queue holds no command to       *)
(* another elevator.                                                        *)
NoCommandToOther ==
  \A n \in Nodes : \A i \in DOMAIN toLocal[n] : toLocal[n][i].target = n

Settled ==
  \A n \in Nodes :
    requests[n] = {} /\ held[n] = {} /\ orders[n] = {} /\ own[n] = {}

(* Whatever goes amiss for a while, in the end every call is served, every  *)
(* request closed, and every button can be pressed again.                   *)
EventuallySettled == <>[]Settled

(* To each node's scheduler its requests are a book: no two of them, nor one *)
(* and the one in the checking thread's hands, are the same, and nothing    *)
(* but a report of the elevator that was sent, or the checking thread,      *)
(* takes one out.                                                           *)
Book(n) == INSTANCE RequestBook WITH
  book <- requests[n], hand <- held[n], Elevators <- Nodes, Drops <- FALSE

KeepsBooks ==
  [][\A n \in Nodes : [Book(n)!Next]_(Book(n)!vars)]_vars

(* The press of a button on another node is still on its way when this node *)
(* already hears that the call was served: the command to the elevator was  *)
(* faster than the state change, or the network upset the order of these.   *)
HearsServiceFirst(n, c) ==
  /\ \E l \in Links : l[2] = n /\ Occurs(ChangeOf(l[1], "pressed", c), stateNet[l])
  /\ \E e \in Nodes : Occurs(ChangeOf(e, "served", c), stateIn[n])

NothingLost == "loss" \in Mishaps => mishaps["loss"] = 0

(* If no message is lost, every lamp of every node goes off for good, that  *)
(* of a node which only heard of the press included, with one exception:    *)
(* ServedUp and ServedDown turn a lamp off once, so that a node which hears *)
(* of the press after that leaves its lamp lit (scheduler.cpp:123, 173).    *)
LampsGoOff ==
  []NothingLost =>
    \/ <>(\E n \in Nodes, c \in Calls : HearsServiceFirst(n, c))
    \/ <>[](\A n \in Nodes : lamps[n] = {})
=============================================================================
