--------------------------- MODULE DispatchProofs ---------------------------
(***************************************************************************)
(* The safety properties of Dispatch hold for any sets of nodes, calls and *)
(* landings, and any number of presses, messages and mishaps.              *)
(***************************************************************************)
EXTENDS Dispatch, SequenceTheorems, TLAPS

(* Who the commands in a queue are for. *)
CommandsTo(n) == {m \in Command : m.target = n}

AddressedRight ==
  /\ toLocal \in [Nodes -> Seq(Command)]
  /\ \A n \in Nodes : toLocal[n] \in Seq(CommandsTo(n))
  /\ \A l \in Links : commandNet[l] \in Seq(CommandsTo(l[2]))

(* The checking thread has at most one request in its hands. *)
OneHeld == \A n \in Nodes : \A r, q \in held[n] : r = q

IInv == TypeOK /\ AddressedRight /\ OneHeld /\ OwnLampIsTracked

-----------------------------------------------------------------------------
(* Sequences of messages *)

LEMMA Appended ==
  ASSUME NEW S, NEW s \in Seq(S), NEW e \in S
  PROVE  /\ Append(s, e) \in Seq(S)
         /\ Occurs(e, Append(s, e))
         /\ \A m : Occurs(m, s) => Occurs(m, Append(s, e))
BY DEF Occurs

LEMMA Joined ==
  ASSUME NEW S, NEW s \in Seq(S), NEW t \in Seq(S)
  PROVE  /\ s \o t \in Seq(S)
         /\ \A m : Occurs(m, s) => Occurs(m, s \o t)
         /\ \A m : Occurs(m, t) => Occurs(m, s \o t)
<1>1. s \o t \in Seq(S)
  OBVIOUS
<1>2. ASSUME NEW m, Occurs(m, s) PROVE Occurs(m, s \o t)
  BY <1>2 DEF Occurs
<1>3. ASSUME NEW m, Occurs(m, t) PROVE Occurs(m, s \o t)
  <2>1. PICK i \in DOMAIN t : t[i] = m
    BY <1>3 DEF Occurs
  <2>2. Len(s) + i \in DOMAIN (s \o t) /\ (s \o t)[Len(s) + i] = m
    BY <2>1
  <2> QED BY <2>2 DEF Occurs
<1> QED BY <1>1, <1>2, <1>3

LEMMA Popped ==
  ASSUME NEW S, NEW s \in Seq(S), s # <<>>
  PROVE  /\ Head(s) \in S /\ Tail(s) \in Seq(S)
         /\ \A m : Occurs(m, s) => m = Head(s) \/ Occurs(m, Tail(s))
<1>1. Head(s) \in S /\ Tail(s) \in Seq(S)
  OBVIOUS
<1>2. ASSUME NEW m, Occurs(m, s), m # Head(s) PROVE Occurs(m, Tail(s))
  <2>1. PICK i \in DOMAIN s : s[i] = m
    BY <1>2 DEF Occurs
  <2>2. i \in 1 .. Len(s) /\ i # 1
    BY <1>2, <2>1
  <2>3. i - 1 \in DOMAIN Tail(s) /\ Tail(s)[i - 1] = m
    BY <2>1, <2>2
  <2> QED BY <2>3 DEF Occurs
<1> QED BY <1>1, <1>2

LEMMA Removed ==
  ASSUME NEW S, NEW s \in Seq(S), NEW i \in DOMAIN s
  PROVE  s[i] \in S /\ RemoveAt(s, i) \in Seq(S)
<1>1. i \in 1 .. Len(s) /\ Len(s) \in Nat
  OBVIOUS
<1>2. SubSeq(s, 1, i - 1) \in Seq(S) /\ SubSeq(s, i + 1, Len(s)) \in Seq(S)
  BY <1>1
<1> QED BY <1>1, <1>2 DEF RemoveAt

(* What a queue may hold is told by its messages alone. *)
LEMMA MessageTypes ==
  ASSUME NEW n \in Nodes, NEW e \in Nodes, NEW c \in Calls
  PROVE  /\ \A change \in {"pressed", "going", "served"} : ChangeOf(e, change, c) \in Change
         /\ \A comm \in {"call", "lightOn", "lightOff"} :
              CommandTo(n, comm, c) \in Command /\ CommandTo(n, comm, c) \in CommandsTo(n)
BY DEF ChangeOf, CommandTo, Change, Command, CommandsTo

LEMMA InitInvariant == Init => IInv
<1> SUFFICES ASSUME Init PROVE IInv
  OBVIOUS
<1>1. \A S : <<>> \in Seq(S)
  OBVIOUS
<1> QED BY <1>1, BoundsAssumption
        DEF Init, IInv, TypeOK, AddressedRight, OneHeld, OwnLampIsTracked

-----------------------------------------------------------------------------
(* Parts of a step *)

LEMMA MishapType ==
  ASSUME TypeOK, NEW kind, NEW happens, Mishap(kind, happens)
  PROVE  mishaps' \in [Mishaps -> Nat]
<1>1. CASE UNCHANGED mishaps
  BY <1>1 DEF TypeOK
<1>2. CASE kind \in Mishaps /\ mishaps' = [mishaps EXCEPT ![kind] = @ + 1]
  BY <1>2 DEF TypeOK
<1> QED BY <1>1, <1>2 DEF Mishap

(* An elevator reports a change of its own. *)
LEMMA EmitStep ==
  ASSUME TypeOK, NEW n \in Nodes, NEW c \in Calls,
         NEW change \in {"pressed", "going", "served"}, Emit(n, change, c)
  PROVE  /\ stateIn' \in [Nodes -> Seq(Change)]
         /\ Occurs(ChangeOf(n, change, c), stateIn'[n])
         /\ \A d \in Nodes : \A m : Occurs(m, stateIn[d]) => Occurs(m, stateIn'[d])
<1>1. ChangeOf(n, change, c) \in Change
  BY MessageTypes
<1>2. stateIn[n] \in Seq(Change)
  BY DEF TypeOK
<1>3. stateIn' = [stateIn EXCEPT ![n] = Append(stateIn[n], ChangeOf(n, change, c))]
  BY DEF Emit
<1>4. Append(stateIn[n], ChangeOf(n, change, c)) \in Seq(Change)
      /\ Occurs(ChangeOf(n, change, c), Append(stateIn[n], ChangeOf(n, change, c)))
      /\ \A m : Occurs(m, stateIn[n]) => Occurs(m, Append(stateIn[n], ChangeOf(n, change, c)))
  BY <1>1, <1>2, Appended
<1> QED BY <1>3, <1>4 DEF TypeOK

(* A command goes to the queue of its target only. *)
LEMMA ToStep ==
  ASSUME NEW m \in Command, NEW d \in Nodes
  PROVE  /\ To(m)[d] \in Seq(CommandsTo(d))
         /\ m.target = d => Occurs(m, To(m)[d])
<1>1. CASE m.target = d
  <2>1. To(m)[d] = <<m>> /\ m \in CommandsTo(d)
    BY <1>1 DEF To, CommandsTo
  <2>2. 1 \in DOMAIN <<m>> /\ <<m>>[1] = m
    OBVIOUS
  <2> QED BY <2>1, <2>2 DEF Occurs
<1>2. CASE m.target # d
  BY <1>2 DEF To
<1> QED BY <1>1, <1>2

(* _forwardToTargets puts nothing into a wrong queue and drops nothing that *)
(* is in one.                                                               *)
LEMMA ForwardStep ==
  ASSUME TypeOK, AddressedRight, NEW n \in Nodes, NEW ss \in Seq(Change),
         NEW ms, \A d \in Nodes : ms[d] \in Seq(CommandsTo(d)),
         Forward(n, ss, ms)
  PROVE  /\ toLocal' \in [Nodes -> Seq(Command)]
         /\ stateNet' \in [Links -> Seq(Change)]
         /\ commandNet' \in [Links -> Seq(Command)]
         /\ AddressedRight'
         /\ \A d \in Nodes : \A m : Occurs(m, toLocal[d]) => Occurs(m, toLocal'[d])
         /\ \A m : Occurs(m, ms[n]) => Occurs(m, toLocal'[n])
<1>0. \A d \in Nodes : CommandsTo(d) \subseteq Command
  BY DEF CommandsTo
<1>1. /\ toLocal[n] \o ms[n] \in Seq(CommandsTo(n))
      /\ \A m : Occurs(m, toLocal[n]) => Occurs(m, toLocal[n] \o ms[n])
      /\ \A m : Occurs(m, ms[n]) => Occurs(m, toLocal[n] \o ms[n])
  <2>1. toLocal[n] \in Seq(CommandsTo(n)) /\ ms[n] \in Seq(CommandsTo(n))
    BY DEF AddressedRight
  <2> QED BY <2>1, Joined
<1>2. ASSUME NEW l \in Links
      PROVE  /\ stateNet[l] \o (IF l[1] = n THEN ss ELSE <<>>) \in Seq(Change)
             /\ commandNet[l] \o (IF l[1] = n THEN ms[l[2]] ELSE <<>>) \in Seq(CommandsTo(l[2]))
  <2>1. l[2] \in Nodes /\ stateNet[l] \in Seq(Change) /\ commandNet[l] \in Seq(CommandsTo(l[2]))
    BY DEF Links, TypeOK, AddressedRight
  <2>2. /\ (IF l[1] = n THEN ss ELSE <<>>) \in Seq(Change)
        /\ (IF l[1] = n THEN ms[l[2]] ELSE <<>>) \in Seq(CommandsTo(l[2]))
    <3>1. /\ ms[l[2]] \in Seq(CommandsTo(l[2])) /\ <<>> \in Seq(CommandsTo(l[2]))
          /\ <<>> \in Seq(Change)
      BY <2>1
    <3> QED BY <3>1
  <2> QED BY <2>1, <2>2
<1>3. toLocal' = [toLocal EXCEPT ![n] = toLocal[n] \o ms[n]]
  BY DEF Forward
<1>4. \A d \in Nodes : Seq(CommandsTo(d)) \subseteq Seq(Command)
  BY <1>0
<1>5. /\ toLocal' \in [Nodes -> Seq(Command)]
      /\ \A d \in Nodes : toLocal'[d] \in Seq(CommandsTo(d))
  BY <1>1, <1>3, <1>4 DEF AddressedRight
<1>6. /\ stateNet' \in [Links -> Seq(Change)]
      /\ \A l \in Links : commandNet'[l] \in Seq(CommandsTo(l[2]))
  BY <1>2 DEF Forward
<1>7. commandNet' \in [Links -> Seq(Command)]
  <2>1. commandNet' = [l \in Links |-> commandNet'[l]]
    BY DEF Forward
  <2>2. \A l \in Links : l[2] \in Nodes
    BY DEF Links
  <2> QED BY <1>4, <1>6, <2>1, <2>2
<1> QED BY <1>1, <1>3, <1>5, <1>6, <1>7 DEF AddressedRight

(* ackRequest keeps a request for every call it had one for, unless it is   *)
(* the report that the call was served.                                     *)
LEMMA AckStep ==
  ASSUME NEW rs \in SUBSET Request, NEW m \in Change
  PROVE  /\ AfterAck(rs, m) \in SUBSET Request
         /\ \A r \in rs :
              \/ \E q \in AfterAck(rs, m) : q.call = r.call
              \/ m.change = "served" /\ m.call = r.call
<1>1. \A r \in Request : /\ [r EXCEPT !.type = "NotDone"] \in Request
                         /\ [r EXCEPT !.type = "NotDone"].call = r.call
  BY DEF Request
<1>2. AfterAck(rs, m) \in SUBSET Request
  BY <1>1 DEF AfterAck
<1>3. ASSUME NEW r \in rs
      PROVE  \/ \E q \in AfterAck(rs, m) : q.call = r.call
             \/ m.change = "served" /\ m.call = r.call
  <2>1. CASE ~Triggers(r, m)
    BY <2>1 DEF AfterAck
  <2>2. CASE Triggers(r, m) /\ r.type = "NotAcknowledged"
    <3>1. [r EXCEPT !.type = "NotDone"] \in AfterAck(rs, m)
      BY <2>2 DEF AfterAck
    <3> QED BY <1>1, <3>1
  <2>3. CASE Triggers(r, m) /\ r.type # "NotAcknowledged"
    BY <2>3 DEF Triggers
  <2> QED BY <2>1, <2>2, <2>3
<1> QED BY <1>2, <1>3

-----------------------------------------------------------------------------
(* The elevator *)

LEMMA PressStep == ASSUME IInv, NEW n \in Nodes, NEW c \in Calls, Press(n, c) PROVE IInv'
<1> USE DEF Press, queues, networks, books
<1>1. TypeOK /\ Emit(n, "pressed", c)
  BY DEF IInv
<1>2. /\ stateIn' \in [Nodes -> Seq(Change)]
      /\ Occurs(ChangeOf(n, "pressed", c), stateIn'[n])
      /\ \A d \in Nodes : \A m : Occurs(m, stateIn[d]) => Occurs(m, stateIn'[d])
  BY <1>1, EmitStep
<1>3. lamps' \in [Nodes -> SUBSET Calls] /\ own' \in [Nodes -> SUBSET Calls]
  BY <1>1 DEF TypeOK
<1>4. presses' \in 0 .. MaxPresses
  BY <1>1, BoundsAssumption DEF TypeOK
<1>5. TypeOK'
  BY <1>1, <1>2, <1>3, <1>4 DEF TypeOK
<1>6. AddressedRight' /\ OneHeld'
  BY DEF IInv, AddressedRight, OneHeld
<1>7. \A d \in Nodes : \A b \in own'[d] : b \in own[d] \/ (d = n /\ b = c)
  BY <1>1 DEF TypeOK
<1>8. OwnLampIsTracked'
  BY <1>2, <1>7 DEF IInv, OwnLampIsTracked, Tracked
<1> QED BY <1>5, <1>6, <1>8 DEF IInv

(* Turning lamps off leaves fewer of them to look after.                    *)
LEMMA LightsOffStep ==
  ASSUME TypeOK, NEW n \in Nodes, NEW cs \in SUBSET Calls, LightsOff(n, cs)
  PROVE  /\ lamps' \in [Nodes -> SUBSET Calls]
         /\ own' \in [Nodes -> SUBSET Calls]
         /\ \A d \in Nodes : own'[d] \subseteq own[d]
         /\ own'[n] \cap cs = {}
BY DEF LightsOff, TypeOK

LEMMA HandleCommandStep == ASSUME IInv, NEW n \in Nodes, HandleCommand(n) PROVE IInv'
<1> USE DEF HandleCommand, networks, books, limits
<1> DEFINE m == Head(toLocal[n])
<1>1. TypeOK /\ AddressedRight /\ toLocal[n] # <<>>
      /\ toLocal' = [toLocal EXCEPT ![n] = Tail(toLocal[n])]
  BY DEF IInv
<1>2. /\ m \in CommandsTo(n) /\ Tail(toLocal[n]) \in Seq(CommandsTo(n))
      /\ \A k : Occurs(k, toLocal[n]) => k = m \/ Occurs(k, Tail(toLocal[n]))
  <2>1. toLocal[n] \in Seq(CommandsTo(n))
    BY <1>1 DEF AddressedRight
  <2> QED BY <1>1, <2>1, Popped
<1>3. m \in Command /\ m.call \in Calls
  BY <1>2 DEF CommandsTo, Command
<1>4. toLocal' \in [Nodes -> Seq(Command)] /\ AddressedRight'
  <2>1. Seq(CommandsTo(n)) \subseteq Seq(Command)
    BY DEF CommandsTo
  <2> QED BY <1>1, <1>2, <2>1 DEF AddressedRight
<1>5. \A d \in Nodes : \A k : Occurs(k, toLocal[d]) =>
        Occurs(k, toLocal'[d]) \/ (d = n /\ k = m)
  BY <1>1, <1>2 DEF TypeOK
<1>6. OneHeld' /\ requests' = requests /\ held' = held
  BY DEF IInv, OneHeld
<1>7. CASE m.comm = "call" /\ AcceptCall(n, m.call)
  <2>1. /\ stateIn' \in [Nodes -> Seq(Change)]
        /\ \A d \in Nodes : \A k : Occurs(k, stateIn[d]) => Occurs(k, stateIn'[d])
    BY <1>1, <1>3, <1>7, EmitStep DEF AcceptCall
  <2>2. orders' \in [Nodes -> SUBSET Calls] /\ lamps' \in [Nodes -> SUBSET Calls]
    BY <1>1, <1>3, <1>7 DEF AcceptCall, TypeOK
  <2>3. TypeOK'
    BY <1>1, <1>4, <1>7, <2>1, <2>2 DEF AcceptCall, TypeOK
  <2>4. own' = own /\ \A c : m # CommandTo(n, "lightOff", c)
    BY <1>7 DEF AcceptCall, CommandTo
  <2>5. OwnLampIsTracked'
    BY <1>5, <1>6, <2>1, <2>4 DEF IInv, OwnLampIsTracked, Tracked
  <2> QED BY <1>4, <1>6, <2>3, <2>5 DEF IInv
<1>8. CASE m.comm = "lightOn" /\ LightOn(n, m.call)
  <2>1. lamps' \in [Nodes -> SUBSET Calls]
    BY <1>1, <1>3, <1>8 DEF LightOn, TypeOK
  <2>2. TypeOK'
    BY <1>1, <1>4, <1>8, <2>1 DEF LightOn, TypeOK
  <2>3. own' = own /\ stateIn' = stateIn /\ \A c : m # CommandTo(n, "lightOff", c)
    BY <1>8 DEF LightOn, CommandTo
  <2>4. OwnLampIsTracked'
    BY <1>5, <1>6, <2>3 DEF IInv, OwnLampIsTracked, Tracked
  <2> QED BY <1>4, <1>6, <2>2, <2>4 DEF IInv
<1>9. CASE m.comm = "lightOff" /\ LightOff(n, m.call)
  <2>1. /\ lamps' \in [Nodes -> SUBSET Calls] /\ own' \in [Nodes -> SUBSET Calls]
        /\ \A d \in Nodes : own'[d] \subseteq own[d]
        /\ own'[n] \cap {m.call} = {}
    BY <1>1, <1>3, <1>9, LightsOffStep DEF LightOff
  <2>2. TypeOK'
    BY <1>1, <1>4, <1>9, <2>1 DEF LightOff, TypeOK
  <2>3. \A c \in own'[n] : m # CommandTo(n, "lightOff", c)
    BY <2>1 DEF CommandTo
  <2>4. stateIn' = stateIn
    BY <1>9 DEF LightOff
  <2>5. OwnLampIsTracked'
    BY <1>5, <1>6, <2>1, <2>3, <2>4 DEF IInv, OwnLampIsTracked, Tracked
  <2> QED BY <1>4, <1>6, <2>2, <2>5 DEF IInv
<1> QED BY <1>7, <1>8, <1>9

LEMMA ServeDirectionStep ==
  ASSUME IInv, NEW n \in Nodes, NEW c \in Calls, ServeDirection(n, c)
  PROVE  IInv'
<1> USE DEF ServeDirection, networks, books, limits
<1>1. TypeOK /\ LightsOff(n, {c}) /\ Emit(n, "served", c)
  BY DEF IInv
<1>2. /\ stateIn' \in [Nodes -> Seq(Change)]
      /\ \A d \in Nodes : \A m : Occurs(m, stateIn[d]) => Occurs(m, stateIn'[d])
  BY <1>1, EmitStep
<1>3. /\ lamps' \in [Nodes -> SUBSET Calls] /\ own' \in [Nodes -> SUBSET Calls]
      /\ \A d \in Nodes : own'[d] \subseteq own[d]
  BY <1>1, LightsOffStep
<1>4. TypeOK'
  BY <1>1, <1>2, <1>3 DEF TypeOK
<1>5. AddressedRight' /\ OneHeld'
  BY DEF IInv, AddressedRight, OneHeld
<1>6. OwnLampIsTracked'
  BY <1>2, <1>3 DEF IInv, OwnLampIsTracked, Tracked
<1> QED BY <1>4, <1>5, <1>6 DEF IInv

LEMMA ServeLandingStep ==
  ASSUME IInv, NEW n \in Nodes, NEW l \in Landings, ServeLanding(n, l)
  PROVE  IInv'
<1> USE DEF ServeLanding, networks, books
<1>1. TypeOK /\ LightsOff(n, ToSet(l)) /\ mishaps' \in [Mishaps -> Nat]
  BY MishapType DEF IInv
<1>2. l \in Seq(Calls) /\ ToSet(l) \in SUBSET Calls
  BY CallsAssumption DEF ToSet
<1> DEFINE served == [i \in DOMAIN l |-> ChangeOf(n, "served", l[i])]
<1>3. served \in Seq(Change)
  <2>1. DOMAIN l = 1 .. Len(l) /\ Len(l) \in Nat /\ \A i \in DOMAIN l : l[i] \in Calls
    BY <1>2
  <2>2. \A i \in 1 .. Len(l) : ChangeOf(n, "served", l[i]) \in Change
    BY <2>1, MessageTypes
  <2> QED BY <2>1, <2>2
<1>4. /\ stateIn[n] \o served \in Seq(Change)
      /\ \A m : Occurs(m, stateIn[n]) => Occurs(m, stateIn[n] \o served)
  <2>1. stateIn[n] \in Seq(Change)
    BY <1>1 DEF TypeOK
  <2> QED BY <1>3, <2>1, Joined
<1>5. stateIn' = [stateIn EXCEPT ![n] = stateIn[n] \o served]
  OBVIOUS
<1> HIDE DEF served
<1>6. /\ stateIn' \in [Nodes -> Seq(Change)]
      /\ \A d \in Nodes : \A m : Occurs(m, stateIn[d]) => Occurs(m, stateIn'[d])
  <2>1. stateIn \in [Nodes -> Seq(Change)]
    BY <1>1 DEF TypeOK
  <2>2. stateIn' \in [Nodes -> Seq(Change)]
    BY ONLY <1>4, <1>5, <2>1
  <2>3. \A d \in Nodes :
          stateIn'[d] = IF d = n THEN stateIn[n] \o served ELSE stateIn[d]
    BY ONLY <1>5, <2>1
  <2> QED BY <1>4, <2>2, <2>3
<1>7. /\ lamps' \in [Nodes -> SUBSET Calls] /\ own' \in [Nodes -> SUBSET Calls]
      /\ \A d \in Nodes : own'[d] \subseteq own[d]
  BY <1>1, <1>2, LightsOffStep
<1>8. TypeOK'
  BY <1>1, <1>6, <1>7 DEF TypeOK
<1>9. AddressedRight' /\ OneHeld'
  BY DEF IInv, AddressedRight, OneHeld
<1>10. OwnLampIsTracked'
  BY <1>6, <1>7 DEF IInv, OwnLampIsTracked, Tracked
<1> QED BY <1>8, <1>9, <1>10 DEF IInv

LEMMA ClearLampStep ==
  ASSUME IInv, NEW n \in Nodes, NEW c \in Calls, ClearLamp(n, c)
  PROVE  IInv'
<1> USE DEF ClearLamp, queues, networks, books, limits
<1>1. /\ lamps' \in [Nodes -> SUBSET Calls] /\ own' \in [Nodes -> SUBSET Calls]
      /\ \A d \in Nodes : own'[d] \subseteq own[d]
  BY LightsOffStep DEF IInv
<1> QED BY <1>1 DEF IInv, TypeOK, AddressedRight, OneHeld, OwnLampIsTracked, Tracked

-----------------------------------------------------------------------------
(* The scheduling thread *)

(* What it passes on and the commands it gives are messages. *)
LEMMA SentTypes ==
  ASSUME NEW n \in Nodes, NEW m \in Change
  PROVE  /\ Propagated(n, m) \in Seq(Change) /\ <<>> \in Seq(Change)
         /\ \A d \in Nodes : NoCommands[d] \in Seq(CommandsTo(d))
BY DEF Propagated, NoCommands

(* The lamp's press leaves the queue only when a request is made for it,    *)
(* and the request closes only when the lamp is told to go off.             *)
LEMMA ScheduleStep == ASSUME IInv, NEW n \in Nodes, Schedule(n) PROVE IInv'
<1> DEFINE m == Head(stateIn[n])
<1>1. /\ TypeOK /\ AddressedRight /\ stateIn[n] # <<>>
      /\ stateIn' = [stateIn EXCEPT ![n] = Tail(stateIn[n])]
      /\ held' = held /\ orders' = orders /\ lamps' = lamps /\ own' = own
      /\ presses' = presses /\ mishaps' = mishaps
  BY DEF IInv, Schedule, elevator, limits
<1>2. /\ m \in Change /\ Tail(stateIn[n]) \in Seq(Change)
      /\ \A k : Occurs(k, stateIn[n]) => k = m \/ Occurs(k, Tail(stateIn[n]))
  <2>1. stateIn[n] \in Seq(Change)
    BY <1>1 DEF TypeOK
  <2> QED BY <1>1, <2>1, Popped
<1>3. stateIn' \in [Nodes -> Seq(Change)]
      /\ \A d \in Nodes : \A k : Occurs(k, stateIn[d]) =>
           Occurs(k, stateIn'[d]) \/ (d = n /\ k = m)
  BY <1>1, <1>2 DEF TypeOK
<1>4. m.call \in Calls /\ m.elev \in Nodes
  BY <1>2 DEF Change
<1>5. /\ Propagated(n, m) \in Seq(Change) /\ <<>> \in Seq(Change)
      /\ \A d \in Nodes : NoCommands[d] \in Seq(CommandsTo(d))
  BY <1>2, SentTypes
<1>6. \A comm \in {"call", "lightOn", "lightOff"}, t \in Nodes :
        CommandTo(t, comm, m.call) \in Command /\ CommandTo(t, comm, m.call).target = t
  BY <1>4, MessageTypes DEF CommandTo
<1>7. OneHeld'
  BY <1>1 DEF IInv, OneHeld
<1>8. requests[n] \in SUBSET Request
  BY <1>1 DEF TypeOK
<1> DEFINE Sent == /\ toLocal' \in [Nodes -> Seq(Command)]
                   /\ stateNet' \in [Links -> Seq(Change)]
                   /\ commandNet' \in [Links -> Seq(Command)]
                   /\ AddressedRight'
                   /\ \A d \in Nodes : \A k : Occurs(k, toLocal[d]) => Occurs(k, toLocal'[d])
<1> HIDE DEF m
<1>9. CASE SchedulePress(n, m)
  <2>1. PICK t \in Nodes, i \in Ids :
          /\ requests' = [requests EXCEPT ![n] = @ \cup {NewRequest(i, m.call, t)}]
          /\ Forward(n, Propagated(n, m),
                     [d \in Nodes |-> To(CommandTo(n, "lightOn", m.call))[d]
                                        \o To(CommandTo(t, "call", m.call))[d]])
    BY <1>9 DEF SchedulePress
  <2> DEFINE ms == [d \in Nodes |-> To(CommandTo(n, "lightOn", m.call))[d]
                                      \o To(CommandTo(t, "call", m.call))[d]]
  <2>2. ASSUME NEW d \in Nodes PROVE ms[d] \in Seq(CommandsTo(d))
    <3>1. /\ To(CommandTo(n, "lightOn", m.call))[d] \in Seq(CommandsTo(d))
          /\ To(CommandTo(t, "call", m.call))[d] \in Seq(CommandsTo(d))
      BY <1>6, ToStep
    <3> QED BY <3>1
  <2>3. Forward(n, Propagated(n, m), ms)
    BY <2>1
  <2> HIDE DEF ms
  <2>4. Sent
    BY <1>1, <1>5, <2>2, <2>3, ForwardStep
  <2>5. NewRequest(i, m.call, t) \in Request /\ NewRequest(i, m.call, t).call = m.call
    BY <1>4 DEF NewRequest, Request
  <2>6. TypeOK'
    <3>1. requests' \in [Nodes -> SUBSET Request]
      BY <1>1, <2>1, <2>5 DEF TypeOK
    <3> QED BY <1>1, <1>3, <2>4, <3>1 DEF TypeOK
  <2>7. /\ \A d \in Nodes : Tracked(d) \subseteq Tracked(d)'
        /\ m.call \in Tracked(n)'
    BY <1>1, <2>1, <2>5 DEF TypeOK, Tracked
  <2>8. \A c : ChangeOf(n, "pressed", c) = m => c = m.call
    BY DEF ChangeOf
  <2>9. OwnLampIsTracked'
    BY <1>1, <1>3, <2>4, <2>7, <2>8 DEF IInv, OwnLampIsTracked
  <2> QED BY <1>7, <2>4, <2>6, <2>9 DEF IInv
<1>10. CASE ShowPress(n, m)
  <2>1. Forward(n, <<>>, To(CommandTo(n, "lightOn", m.call))) /\ requests' = requests
    BY <1>10 DEF ShowPress
  <2>2. Sent
    <3>1. \A d \in Nodes : To(CommandTo(n, "lightOn", m.call))[d] \in Seq(CommandsTo(d))
      BY <1>6, ToStep
    <3> QED BY <1>1, <1>5, <2>1, <3>1, ForwardStep
  <2>3. TypeOK'
    BY <1>1, <1>3, <2>1, <2>2 DEF TypeOK
  <2>4. \A c : ChangeOf(n, "pressed", c) # m
    BY <1>10 DEF ShowPress, ChangeOf
  <2>5. OwnLampIsTracked'
    BY <1>1, <1>3, <2>1, <2>2, <2>4 DEF IInv, OwnLampIsTracked, Tracked
  <2> QED BY <1>7, <2>2, <2>3, <2>5 DEF IInv
<1>11. ASSUME requests' = [requests EXCEPT ![n] = AfterAck(requests[n], m)]
       PROVE  /\ requests' \in [Nodes -> SUBSET Request]
              /\ \A d \in Nodes : \A c : c \in Tracked(d) =>
                   \/ c \in Tracked(d)'
                   \/ d = n /\ c = m.call /\ m.change = "served"
  <2>1. /\ AfterAck(requests[n], m) \in SUBSET Request
        /\ \A r \in requests[n] :
             \/ \E q \in AfterAck(requests[n], m) : q.call = r.call
             \/ m.change = "served" /\ m.call = r.call
    BY <1>2, <1>8, AckStep DEF m
  <2>2. requests' \in [Nodes -> SUBSET Request]
    BY <1>1, <1>11, <2>1 DEF TypeOK
  <2>3. ASSUME NEW d \in Nodes, NEW c \in Tracked(d)
        PROVE  c \in Tracked(d)' \/ (d = n /\ c = m.call /\ m.change = "served")
    <3>1. PICK r \in requests[d] \cup held[d] : r.call = c
      BY DEF Tracked
    <3>2. CASE r \in held[d] \/ d # n
      BY <1>1, <1>11, <3>1, <3>2 DEF TypeOK, Tracked
    <3>3. CASE r \in requests[n] /\ d = n
      <4>1. requests'[n] = AfterAck(requests[n], m)
        BY <1>1, <1>11 DEF TypeOK
      <4> QED BY <2>1, <3>1, <3>3, <4>1 DEF Tracked
    <3> QED BY <3>1, <3>2, <3>3
  <2> QED BY <2>2, <2>3
<1>12. CASE GoingNotice(n, m)
  <2>1. /\ m.change = "going"
        /\ requests' = [requests EXCEPT ![n] = AfterAck(requests[n], m)]
        /\ Forward(n, Propagated(n, m), NoCommands)
    BY <1>12 DEF GoingNotice
  <2>2. Sent
    BY <1>1, <1>5, <2>1, ForwardStep
  <2>3. TypeOK'
    BY <1>1, <1>3, <1>11, <2>1, <2>2 DEF TypeOK
  <2>4. \A c : ChangeOf(n, "pressed", c) # m
    BY <2>1 DEF ChangeOf
  <2>5. \A d \in Nodes : Tracked(d) \subseteq Tracked(d)'
    BY <1>11, <2>1
  <2>6. OwnLampIsTracked'
    BY <1>1, <1>3, <2>2, <2>4, <2>5 DEF IInv, OwnLampIsTracked
  <2> QED BY <1>7, <2>2, <2>3, <2>6 DEF IInv
<1>13. CASE ServedNotice(n, m)
  <2>1. /\ m.change = "served"
        /\ requests' = [requests EXCEPT ![n] = AfterAck(requests[n], m)]
        /\ Forward(n, Propagated(n, m), To(CommandTo(n, "lightOff", m.call)))
    BY <1>13 DEF ServedNotice, ServedLights
  <2> DEFINE off == CommandTo(n, "lightOff", m.call)
  <2>2. /\ \A d \in Nodes : To(off)[d] \in Seq(CommandsTo(d))
        /\ Occurs(off, To(off)[n])
    BY <1>6, ToStep
  <2> HIDE DEF off
  <2>3. Sent /\ Occurs(off, toLocal'[n])
    BY <1>1, <1>5, <2>1, <2>2, ForwardStep DEF off
  <2>4. TypeOK'
    BY <1>1, <1>3, <1>11, <2>1, <2>3 DEF TypeOK
  <2>5. \A c : ChangeOf(n, "pressed", c) # m
    BY <2>1 DEF ChangeOf
  <2>6. OwnLampIsTracked'
    BY <1>1, <1>3, <1>11, <2>1, <2>3, <2>5 DEF IInv, OwnLampIsTracked, off
  <2> QED BY <1>7, <2>3, <2>4, <2>6 DEF IInv
<1> QED BY <1>9, <1>10, <1>12, <1>13 DEF Schedule, m

-----------------------------------------------------------------------------
(* The checking thread and the network *)

LEMMA ExpireStep ==
  ASSUME IInv, NEW n \in Nodes, NEW r \in requests[n], Expire(n, r)
  PROVE  IInv'
<1> USE DEF Expire, queues, networks, elevator
<1>1. TypeOK /\ mishaps' \in [Mishaps -> Nat]
  BY MishapType DEF IInv
<1>2. TypeOK'
  <2>1. requests' \in [Nodes -> SUBSET Request] /\ held' \in [Nodes -> SUBSET Request]
    BY <1>1 DEF TypeOK
  <2> QED BY <1>1, <2>1 DEF TypeOK
<1>3. AddressedRight' /\ OneHeld'
  BY <1>1 DEF IInv, TypeOK, AddressedRight, OneHeld
<1>4. \A d \in Nodes : Tracked(d) \subseteq Tracked(d)'
  BY <1>1 DEF TypeOK, Tracked
<1>5. OwnLampIsTracked'
  BY <1>4 DEF IInv, OwnLampIsTracked
<1> QED BY <1>2, <1>3, <1>5 DEF IInv

(* The request that is sent again replaces the one taken out. *)
LEMMA ResendStep ==
  ASSUME IInv, NEW n \in Nodes, NEW t \in Nodes, Resend(n, t)
  PROVE  IInv'
<1>1. PICK r \in held[n] :
        /\ requests' = [requests EXCEPT ![n] = requests[n] \cup {NewRequest(r.id, r.call, t)}]
        /\ Forward(n, <<>>, To(CommandTo(t, "call", r.call)))
  BY DEF Resend, ResendTracking
<1>2. /\ TypeOK /\ AddressedRight /\ held' = [held EXCEPT ![n] = {}]
      /\ stateIn' = stateIn /\ orders' = orders /\ lamps' = lamps /\ own' = own
      /\ presses' = presses /\ mishaps' = mishaps
  BY DEF IInv, Resend, elevator, limits
<1>3. r \in Request /\ r.call \in Calls
  BY <1>2 DEF TypeOK, Request
<1>4. CommandTo(t, "call", r.call) \in Command
  BY <1>3, MessageTypes
<1>5. /\ toLocal' \in [Nodes -> Seq(Command)]
      /\ stateNet' \in [Links -> Seq(Change)] /\ commandNet' \in [Links -> Seq(Command)]
      /\ AddressedRight'
      /\ \A d \in Nodes : \A k : Occurs(k, toLocal[d]) => Occurs(k, toLocal'[d])
  <2>1. \A d \in Nodes : To(CommandTo(t, "call", r.call))[d] \in Seq(CommandsTo(d))
    BY <1>4, ToStep
  <2>2. <<>> \in Seq(Change)
    OBVIOUS
  <2> QED BY <1>1, <1>2, <2>1, <2>2, ForwardStep
<1>6. NewRequest(r.id, r.call, t) \in Request /\ NewRequest(r.id, r.call, t).call = r.call
  BY <1>3 DEF NewRequest, Request
<1>7. TypeOK'
  <2>1. requests' \in [Nodes -> SUBSET Request] /\ held' \in [Nodes -> SUBSET Request]
    BY <1>1, <1>2, <1>6 DEF TypeOK
  <2> QED BY <1>2, <1>5, <2>1 DEF TypeOK
<1>8. OneHeld'
  BY <1>2 DEF IInv, TypeOK, OneHeld
<1>9. \A d \in Nodes : Tracked(d) \subseteq Tracked(d)'
  <2> SUFFICES ASSUME NEW d \in Nodes, NEW q \in requests[d] \cup held[d]
               PROVE  q.call \in Tracked(d)'
    BY DEF Tracked
  <2>1. CASE q \in requests[d] \/ d # n
    BY <1>1, <1>2, <2>1 DEF TypeOK, Tracked
  <2>2. CASE q \in held[n] /\ d = n
    <3>1. q = r
      BY <2>2 DEF IInv, OneHeld
    <3>2. NewRequest(r.id, r.call, t) \in requests'[n]
      BY <1>1, <1>2 DEF TypeOK
    <3> QED BY <1>6, <2>2, <3>1, <3>2 DEF Tracked
  <2> QED BY <2>1, <2>2
<1>10. OwnLampIsTracked'
  BY <1>2, <1>5, <1>9 DEF IInv, OwnLampIsTracked
<1> QED BY <1>5, <1>7, <1>8, <1>10 DEF IInv

(* A receiver adds what it accepts to the queue of its node. *)
LEMMA ReceiveChangeStep ==
  ASSUME IInv, NEW l \in Links, NEW i \in DOMAIN stateNet[l], ReceiveChange(l, i)
  PROVE  IInv'
<1> DEFINE m == stateNet[l][i]
           n == l[2]
<1>1. /\ TypeOK /\ AddressedRight /\ mishaps' \in [Mishaps -> Nat] /\ n \in Nodes
      /\ stateIn' = [stateIn EXCEPT ![n] = Append(stateIn[n], m)]
      /\ stateNet' = [stateNet EXCEPT ![l] = RemoveAt(stateNet[l], i)]
      /\ UNCHANGED <<toLocal, commandNet, requests, held, orders, lamps, own, presses>>
  BY MishapType DEF IInv, ReceiveChange, books, elevator, Links
<1>2. m \in Change /\ RemoveAt(stateNet[l], i) \in Seq(Change)
  <2>1. stateNet[l] \in Seq(Change)
    BY <1>1 DEF TypeOK
  <2> QED BY <2>1, Removed
<1> HIDE DEF m, n
<1>3. /\ Append(stateIn[n], m) \in Seq(Change)
      /\ \A k : Occurs(k, stateIn[n]) => Occurs(k, Append(stateIn[n], m))
  <2>1. stateIn[n] \in Seq(Change)
    BY <1>1 DEF TypeOK
  <2> QED BY <1>2, <2>1, Appended
<1>4. /\ stateIn' \in [Nodes -> Seq(Change)]
      /\ \A d \in Nodes : \A k : Occurs(k, stateIn[d]) => Occurs(k, stateIn'[d])
  BY <1>1, <1>3 DEF TypeOK
<1>5. TypeOK'
  BY <1>1, <1>2, <1>4 DEF TypeOK
<1>6. AddressedRight' /\ OneHeld'
  BY <1>1 DEF IInv, AddressedRight, OneHeld
<1>7. OwnLampIsTracked'
  BY <1>1, <1>4 DEF IInv, OwnLampIsTracked, Tracked
<1> QED BY <1>5, <1>6, <1>7 DEF IInv

LEMMA ReceiveCommandStep ==
  ASSUME IInv, NEW l \in Links, NEW i \in DOMAIN commandNet[l], ReceiveCommand(l, i)
  PROVE  IInv'
<1> DEFINE m == commandNet[l][i]
           n == l[2]
<1>1. /\ TypeOK /\ AddressedRight /\ mishaps' \in [Mishaps -> Nat] /\ n \in Nodes
      /\ toLocal' = [toLocal EXCEPT ![n] = Append(toLocal[n], m)]
      /\ commandNet' = [commandNet EXCEPT ![l] = RemoveAt(commandNet[l], i)]
      /\ UNCHANGED <<stateIn, stateNet, requests, held, orders, lamps, own, presses>>
  BY MishapType DEF IInv, ReceiveCommand, books, elevator, Links
<1>2. m \in CommandsTo(n) /\ RemoveAt(commandNet[l], i) \in Seq(CommandsTo(n))
  <2>1. commandNet[l] \in Seq(CommandsTo(n))
    BY <1>1 DEF AddressedRight
  <2> QED BY <2>1, Removed
<1> HIDE DEF m
<1>3. Seq(CommandsTo(n)) \subseteq Seq(Command)
  BY DEF CommandsTo
<1>4. /\ commandNet' \in [Links -> Seq(Command)]
      /\ \A k \in Links : commandNet'[k] \in Seq(CommandsTo(k[2]))
  BY <1>1, <1>2, <1>3 DEF TypeOK, AddressedRight
<1> HIDE DEF n
<1>5. /\ Append(toLocal[n], m) \in Seq(CommandsTo(n))
      /\ \A k : Occurs(k, toLocal[n]) => Occurs(k, Append(toLocal[n], m))
  <2>1. toLocal[n] \in Seq(CommandsTo(n))
    BY <1>1 DEF AddressedRight
  <2> QED BY <1>2, <2>1, Appended
<1>6. /\ toLocal' \in [Nodes -> Seq(Command)]
      /\ \A d \in Nodes : toLocal'[d] \in Seq(CommandsTo(d))
      /\ \A d \in Nodes : \A k : Occurs(k, toLocal[d]) => Occurs(k, toLocal'[d])
  BY <1>1, <1>3, <1>5 DEF TypeOK, AddressedRight
<1>7. TypeOK' /\ AddressedRight'
  BY <1>1, <1>4, <1>6 DEF TypeOK, AddressedRight
<1>8. OneHeld' /\ OwnLampIsTracked'
  BY <1>1, <1>6 DEF IInv, OneHeld, OwnLampIsTracked, Tracked
<1> QED BY <1>7, <1>8 DEF IInv

(* What is lost on the way was not counted on. *)
LEMMA LoseStep ==
  ASSUME IInv, NEW l \in Links, LoseAny(l)
  PROVE  IInv'
<1>1. /\ TypeOK /\ AddressedRight /\ mishaps' \in [Mishaps -> Nat] /\ l[2] \in Nodes
      /\ UNCHANGED <<stateIn, toLocal, requests, held, orders, lamps, own, presses>>
  BY MishapType DEF IInv, LoseAny, LoseChange, LoseCommand, books, elevator, Links
<1>2. stateNet[l] \in Seq(Change) /\ commandNet[l] \in Seq(CommandsTo(l[2]))
  BY <1>1 DEF TypeOK, AddressedRight
<1>3. Seq(CommandsTo(l[2])) \subseteq Seq(Command)
  BY DEF CommandsTo
<1>4. /\ stateNet' \in [Links -> Seq(Change)]
      /\ commandNet' \in [Links -> Seq(Command)]
      /\ \A k \in Links : commandNet'[k] \in Seq(CommandsTo(k[2]))
  <2>1. ASSUME NEW i \in DOMAIN stateNet[l],
               stateNet' = [stateNet EXCEPT ![l] = RemoveAt(stateNet[l], i)],
               commandNet' = commandNet
        PROVE  <1>4!:
    <3>1. RemoveAt(stateNet[l], i) \in Seq(Change)
      BY <1>2, Removed
    <3> QED BY <1>1, <2>1, <3>1 DEF TypeOK, AddressedRight
  <2>2. ASSUME NEW i \in DOMAIN commandNet[l],
               commandNet' = [commandNet EXCEPT ![l] = RemoveAt(commandNet[l], i)],
               stateNet' = stateNet
        PROVE  <1>4!:
    <3>1. RemoveAt(commandNet[l], i) \in Seq(CommandsTo(l[2]))
      BY <1>2, Removed
    <3> QED BY <1>1, <1>3, <2>2, <3>1 DEF TypeOK, AddressedRight
  <2> QED BY <2>1, <2>2 DEF LoseAny, LoseChange, LoseCommand
<1>5. TypeOK' /\ AddressedRight'
  BY <1>1, <1>4 DEF TypeOK, AddressedRight
<1>6. OneHeld' /\ OwnLampIsTracked'
  BY <1>1 DEF IInv, OneHeld, OwnLampIsTracked, Tracked
<1> QED BY <1>5, <1>6 DEF IInv

-----------------------------------------------------------------------------
(* Every step keeps the invariant. *)
LEMMA StepInvariant == IInv /\ [Next]_vars => IInv'
<1> SUFFICES ASSUME IInv, [Next]_vars PROVE IInv'
  OBVIOUS
<1>1. ASSUME NEW n \in Nodes, HandleCommand(n) \/ Schedule(n) PROVE IInv'
  BY <1>1, HandleCommandStep, ScheduleStep
<1>2. ASSUME NEW n \in Nodes, ResendAny(n) PROVE IInv'
  BY <1>2, ResendStep DEF ResendAny
<1>3. ASSUME NEW l \in Links, LinkNext(l) PROVE IInv'
  BY <1>3, ReceiveChangeStep, ReceiveCommandStep, LoseStep
     DEF LinkNext, ReceiveAnyChange, ReceiveAnyCommand
<1>4. ASSUME NEW n \in Nodes, ExpireAny(n) PROVE IInv'
  BY <1>4, ExpireStep DEF ExpireAny
<1>5. ASSUME NEW n \in Nodes, NEW l \in Landings, ServeLanding(n, l) PROVE IInv'
  BY <1>5, ServeLandingStep
<1>6. ASSUME NEW n \in Nodes, NEW c \in Calls,
             Press(n, c) \/ ServeDirection(n, c) \/ ClearLamp(n, c)
      PROVE  IInv'
  BY <1>6, PressStep, ServeDirectionStep, ClearLampStep
<1>7. CASE UNCHANGED vars
  BY <1>7 DEF vars, queues, networks, books, elevator, limits, IInv, TypeOK, AddressedRight,
              OneHeld, OwnLampIsTracked, Tracked
<1> QED BY <1>1, <1>2, <1>3, <1>4, <1>5, <1>6, <1>7 DEF Next, NodeNext, ServeAny

(* Every queue holds messages of its kind, every book requests. *)
THEOREM TypeCorrect == Spec => []TypeOK
<1>1. IInv => TypeOK
  BY DEF IInv
<1> QED BY <1>1, InitInvariant, StepInvariant, PTL DEF Spec

(* A lamp that a press on this panel lit, which hides the button's further  *)
(* presses, always has somebody who looks after its call.                   *)
THEOREM LampsAreLookedAfter == Spec => []OwnLampIsTracked
<1>1. IInv => OwnLampIsTracked
  BY DEF IInv
<1> QED BY <1>1, InitInvariant, StepInvariant, PTL DEF Spec

(* The assertion of the control loop: the local queue holds no command to   *)
(* another elevator.                                                        *)
THEOREM CommandsArriveRight == Spec => []NoCommandToOther
<1>1. IInv => NoCommandToOther
  <2> SUFFICES ASSUME IInv, NEW n \in Nodes, NEW i \in DOMAIN toLocal[n]
               PROVE  toLocal[n][i].target = n
    BY DEF NoCommandToOther
  <2>1. toLocal[n] \in Seq(CommandsTo(n))
    BY DEF IInv, AddressedRight
  <2>2. toLocal[n][i] \in CommandsTo(n)
    BY <2>1
  <2> QED BY <2>2 DEF CommandsTo
<1> QED BY <1>1, InitInvariant, StepInvariant, PTL DEF Spec

-----------------------------------------------------------------------------
(* The books *)

(* ackRequest, in the words of the book. *)
LEMMA AckIsReport ==
  ASSUME TypeOK, NEW n \in Nodes, NEW m \in Change,
         requests' = [requests EXCEPT ![n] = AfterAck(requests[n], m)],
         held' = held
  PROVE  /\ m.change = "going" => Book(n)!Going(m.call, m.elev)
         /\ m.change = "served" => Book(n)!Served(m.call, m.elev)
<1>1. /\ requests[n] \in SUBSET Request
      /\ requests'[n] = AfterAck(requests[n], m)
  BY DEF TypeOK
<1>2. CASE m.change = "going"
  <2>1. \A r \in requests[n] :
          Triggers(r, m) <=> r \in Book(n)!Waits(m.call, m.elev, "NotAcknowledged")
    BY <1>1, <1>2 DEF Triggers, Request, Book!Waits
  <2>2. \A r \in Book(n)!Waits(m.call, m.elev, "NotAcknowledged") :
          r \in requests[n] /\ r.type = "NotAcknowledged"
    BY DEF Book!Waits
  <2>3. AfterAck(requests[n], m) =
          (requests[n] \ Book(n)!Waits(m.call, m.elev, "NotAcknowledged"))
            \cup {[r EXCEPT !.type = "NotDone"] :
                    r \in Book(n)!Waits(m.call, m.elev, "NotAcknowledged")}
    BY <2>1, <2>2 DEF AfterAck
  <2> QED
    BY <1>1, <1>2, <2>3 DEF Book!Going
<1>3. CASE m.change = "served"
  <2>1. \A r \in requests[n] :
          Triggers(r, m) <=> r \in Book(n)!Waits(m.call, m.elev, "NotDone")
    BY <1>1, <1>3 DEF Triggers, Request, Book!Waits
  <2>2. \A r \in requests[n] : Triggers(r, m) => r.type # "NotAcknowledged"
    BY <1>3 DEF Triggers
  <2>3. AfterAck(requests[n], m) =
          requests[n] \ Book(n)!Waits(m.call, m.elev, "NotDone")
    BY <2>1, <2>2 DEF AfterAck
  <2> QED
    BY <1>1, <1>3, <2>3 DEF Book!Served
<1> QED
  BY <1>2, <1>3

LEMMA ScheduleIsReport ==
  ASSUME TypeOK, NEW n \in Nodes, Schedule(n)
  PROVE  Book(n)!Next \/ UNCHANGED <<requests[n], held[n]>>
<1> DEFINE m == Head(stateIn[n])
<1>1. /\ m \in Change /\ m.call \in Calls /\ m.elev \in Nodes
      /\ held' = held
  <2>1. stateIn[n] \in Seq(Change) /\ stateIn[n] # <<>>
    BY DEF TypeOK, Schedule
  <2>2. m \in Change
    BY <2>1, Popped
  <2> QED
    BY <2>2 DEF Change, Schedule
<1> HIDE DEF m
<1>2. CASE SchedulePress(n, m)
  <2>1. PICK t \in Nodes, i \in Ids :
          /\ \A r \in requests[n] \cup held[n] : r.id # i
          /\ requests' = [requests EXCEPT ![n] = @ \cup {NewRequest(i, m.call, t)}]
    BY <1>2 DEF SchedulePress, FreeId
  <2>2. requests'[n] = requests[n] \cup {Book(n)!NewEntry(i, m.call, t)}
    BY <2>1 DEF TypeOK, NewRequest, Book!NewEntry
  <2>3. Book(n)!Add(m.call, t)
    BY <1>1, <2>1, <2>2 DEF Book!Add
  <2> QED
    BY <1>1, <2>1, <2>3 DEF Book!Next
<1>3. CASE ShowPress(n, m)
  BY <1>1, <1>3 DEF ShowPress
<1>4. CASE GoingNotice(n, m) \/ ServedNotice(n, m)
  <2>1. /\ requests' = [requests EXCEPT ![n] = AfterAck(requests[n], m)]
        /\ m.change \in {"going", "served"}
    BY <1>4 DEF GoingNotice, ServedNotice
  <2>2. Book(n)!Going(m.call, m.elev) \/ Book(n)!Served(m.call, m.elev)
    BY <1>1, <2>1, AckIsReport
  <2> QED
    BY <1>1, <2>2 DEF Book!Next
<1> QED
  BY <1>2, <1>3, <1>4 DEF Schedule, m

LEMMA CheckingIsBooking ==
  ASSUME TypeOK, NEW n \in Nodes,
         ResendAny(n) \/ ExpireAny(n)
  PROVE  Book(n)!Next
<1>1. CASE ResendAny(n)
  <2>1. PICK t \in Nodes : Resend(n, t)
    BY <1>1 DEF ResendAny
  <2>2. PICK r \in held[n] :
          requests' = [requests EXCEPT ![n] = requests[n] \cup {NewRequest(r.id, r.call, t)}]
    BY <2>1 DEF Resend, ResendTracking
  <2>3. Book(n)!PutBack(r, t)
    BY <2>1, <2>2 DEF TypeOK, Resend, NewRequest, Book!PutBack, Book!NewEntry
  <2> QED
    BY <2>3 DEF Book!Next
<1>2. ASSUME NEW r \in requests[n], Expire(n, r) PROVE Book(n)!Next
  <2>1. Book(n)!Take(r)
    BY <1>2 DEF TypeOK, Expire, Book!Take
  <2> QED
    BY <2>1 DEF Book!Next
<1> QED
  BY <1>1, <1>2 DEF ExpireAny

(* A step of one node leaves the books of the others alone. *)
LEMMA OthersBooks ==
  ASSUME TypeOK, NEW n \in Nodes, NEW d \in Nodes \ {n},
         Schedule(n) \/ ResendAny(n) \/ ExpireAny(n)
  PROVE  UNCHANGED <<requests[d], held[d]>>
<1>1. CASE Schedule(n)
  BY <1>1 DEF TypeOK, Schedule, SchedulePress, ShowPress, GoingNotice, ServedNotice
<1>2. CASE ResendAny(n) \/ ExpireAny(n)
  BY <1>2 DEF TypeOK, ResendAny, Resend, ExpireAny, Expire
<1> QED
  BY <1>1, <1>2

LEMMA BookStep ==
  ASSUME TypeOK, [Next]_vars, NEW d \in Nodes
  PROVE  [Book(d)!Next]_(Book(d)!vars)
<1> USE DEF Book!vars
<1>1. ASSUME NEW n \in Nodes,
             Schedule(n) \/ ResendAny(n) \/ ExpireAny(n)
      PROVE  [Book(d)!Next]_(Book(d)!vars)
  <2>1. CASE d = n
    BY <1>1, <2>1, ScheduleIsReport, CheckingIsBooking
  <2>2. CASE d # n
    BY <1>1, <2>2, OthersBooks
  <2> QED
    BY <2>1, <2>2
<1>2. ASSUME NEW n \in Nodes,
             \/ HandleCommand(n) \/ ServeAny(n)
             \/ \E l \in Landings : ServeLanding(n, l)
             \/ \E c \in Calls : Press(n, c) \/ ClearLamp(n, c)
      PROVE  requests' = requests /\ held' = held
  BY <1>2 DEF HandleCommand, ServeAny, ServeLanding, Press, ServeDirection, ClearLamp, books
<1>3. ASSUME NEW l \in Links, LinkNext(l)
      PROVE  requests' = requests /\ held' = held
  BY <1>3 DEF LinkNext, ReceiveAnyChange, ReceiveChange, ReceiveAnyCommand, ReceiveCommand,
              LoseAny, LoseChange, LoseCommand, books
<1>4. CASE UNCHANGED vars
  BY <1>4 DEF vars, books
<1> QED
  BY <1>1, <1>2, <1>3, <1>4 DEF Next, NodeNext

(* What the scheduler of each node does with its requests, and nothing else *)
(* does, is what a request queue has been shown to allow (theorem           *)
(* QueueIsABook of RequestQueueProofs): each request is in the book or in   *)
(* the checking thread's hands until its elevator reported it served.       *)
THEOREM BooksAreKept == Spec => KeepsBooks
<1>1. TypeOK /\ [Next]_vars => [\A n \in Nodes : [Book(n)!Next]_(Book(n)!vars)]_vars
  BY BookStep
<1> QED
  BY <1>1, TypeCorrect, PTL DEF Spec, KeepsBooks

(* The same, as the specification of each of the books.                     *)
THEOREM EachBookIsKept ==
  ASSUME NEW n \in Nodes
  PROVE  Spec => Book(n)!Spec
<1>1. Init => Book(n)!Init
  BY DEF Init, Book!Init
<1>2. TypeOK /\ [Next]_vars => [Book(n)!Next]_(Book(n)!vars)
  BY BookStep
<1> QED
  BY <1>1, <1>2, TypeCorrect, PTL DEF Spec, Book!Spec
=============================================================================
