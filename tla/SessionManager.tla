--------------------------- MODULE SessionManager ---------------------------
(***************************************************************************)
(* How the nodes find each other, agree on their numbers, and help one     *)
(* that was restarted (elevator/sessionmanager.cpp, called by              *)
(* tools/main.cpp before anything else).                                   *)
(*                                                                         *)
(* A node that connects runs two threads over a shared phase:              *)
(*                                                                         *)
(*   the sender broadcasts Initial in phase 0 and Ready in phase 1;        *)
(*   the listener collects the senders of both as peers, and those of      *)
(*   Ready in a barrier.  All peers known: phase 1.  All in the barrier,   *)
(*   or a node that runs already has answered: phase 2, connected.         *)
(*                                                                         *)
(* Then its session thread answers every Initial of a known peer with the  *)
(* peers, and the state it last heard of that node, if any.                *)
(*                                                                         *)
(* Broadcasts reach the sender too.  A socket is a queue, in the order the *)
(* messages were sent; one that repeats what its sender has waiting there  *)
(* last is left out, as the senders repeat theirs until they move on.  The *)
(* time-outs of the listeners change nothing and are left out, too.        *)
(***************************************************************************)
EXTENDS Integers, FiniteSets, Sequences

CONSTANTS
  Nodes,       \* the IP addresses of the nodes, which are ordered
  MaxCrashes,  \* bound: processes that die
  MaxLosses    \* bound: messages lost

ASSUME NodesAssumption == Nodes \subseteq Nat /\ IsFiniteSet(Nodes)

ASSUME BoundsAssumption == MaxCrashes \in Nat /\ MaxLosses \in Nat

Count == Cardinality(Nodes)
NoId  == -1
Ids   == 0 .. Count - 1

VARIABLES
  pc,         \* "down", "connecting" or "running"
  phase,      \* initPhase
  sender,     \* the sender thread: about to test the phase, to send, or done
  peers,      \* _peers
  barrier,    \* the listener's barrier
  id,         \* _id
  inbox,      \* the messages that wait at the socket of a node
  states,     \* ids of the elevators its GlobalState has
  recovered,  \* id of the state in _recoveryState: at most one
  ready,      \* nodes that have ever sent Ready
  reported,   \* nodes whose elevator has ever sent a state
  crashes, losses

session == <<pc, phase, sender, peers, barrier, id, states, recovered>>
history == <<ready, reported>>
limits  == <<crashes, losses>>
vars    == <<session, inbox, history, limits>>

-----------------------------------------------------------------------------
(* Messages *)

(* Who sent it and what it says. *)
Initial(n)             == [type |-> "Initial", from |-> n]
Ready(n)               == [type |-> "Ready", from |-> n]
RecoveryPeers(n, P)    == [type |-> "RecoveryPeers", from |-> n, peers |-> P]
RecoveryState(n, P, i) == [type |-> "RecoveryState", from |-> n, peers |-> P, state |-> i]

Message ==
  [type : {"Initial", "Ready"}, from : Nodes]
    \cup [type : {"RecoveryPeers"}, from : Nodes, peers : SUBSET Nodes]
    \cup [type : {"RecoveryState"}, from : Nodes, peers : SUBSET Nodes, state : Ids]

(* Faulty variants of definitions of this module stand before them: each    *)
(* breaks one of the properties below.                                      *)
(* The place of an address in a sorted set of addresses. *)
Place(n, P) == Cardinality({m \in P : m < n})

Repeats(queue, m) ==
  \E i \in 1 .. Len(queue) :
    /\ queue[i] = m
    /\ \A j \in i + 1 .. Len(queue) : queue[j].from # m.from

(* What the queue of a node becomes when m reaches it: a node that is down *)
(* has none.                                                               *)
Queued(k, queue, m) ==
  IF pc[k] = "down" \/ Repeats(queue, m) THEN queue ELSE Append(queue, m)

Broadcast(m) == inbox' = [k \in Nodes |-> Queued(k, inbox[k], m)]

-----------------------------------------------------------------------------
Init ==
  /\ pc = [n \in Nodes |-> "down"]
  /\ phase = [n \in Nodes |-> 0]
  /\ sender = [n \in Nodes |-> "test"]
  /\ peers = [n \in Nodes |-> {}]
  /\ barrier = [n \in Nodes |-> {}]
  /\ id = [n \in Nodes |-> NoId]
  /\ inbox = [n \in Nodes |-> <<>>]
  /\ states = [n \in Nodes |-> {}]
  /\ recovered = [n \in Nodes |-> {}]
  /\ ready = {}
  /\ reported = {}
  /\ crashes = 0
  /\ losses = 0

(* A process starts, the first time or after its parent saw it die. *)
Start(n) ==
  /\ pc[n] = "down"
  /\ pc' = [pc EXCEPT ![n] = "connecting"]
  /\ UNCHANGED <<phase, sender, peers, barrier, id, inbox, states, recovered, history, limits>>

(* It dies, and what it kept and what its socket had received is gone. *)
Die(n) ==
  /\ crashes < MaxCrashes
  /\ crashes' = crashes + 1
  /\ pc' = [pc EXCEPT ![n] = "down"]
  /\ phase' = [phase EXCEPT ![n] = 0]
  /\ sender' = [sender EXCEPT ![n] = "test"]
  /\ peers' = [peers EXCEPT ![n] = {}]
  /\ barrier' = [barrier EXCEPT ![n] = {}]
  /\ id' = [id EXCEPT ![n] = NoId]
  /\ inbox' = [inbox EXCEPT ![n] = <<>>]
  /\ states' = [states EXCEPT ![n] = {}]
  /\ recovered' = [recovered EXCEPT ![n] = {}]
  /\ UNCHANGED <<history, losses>>

Crash(n) == pc[n] # "down" /\ Die(n)

-----------------------------------------------------------------------------
(* The sender thread: it reads the phase in the condition of its loop and   *)
(* again in the switch.                                                     *)

SenderTest(n) ==
  /\ pc[n] = "connecting" /\ sender[n] = "test"
  /\ sender' = [sender EXCEPT ![n] = IF phase[n] < 2 THEN "send" ELSE "done"]
  /\ UNCHANGED <<pc, phase, peers, barrier, id, inbox, states, recovered, history, limits>>

SendInitial(n) ==
  /\ phase[n] = 0
  /\ Broadcast(Initial(n))
  /\ UNCHANGED ready

SendReady(n) ==
  /\ phase[n] = 1
  /\ Broadcast(Ready(n))
  /\ ready' = ready \cup {n}

(* The listener was faster: the packet was never filled in.  If its size,   *)
(* which nobody has set, happens to be 0, an empty datagram goes out, which *)
(* every listener takes for a time-out.                                     *)
SendEmpty(n) ==
  /\ phase[n] = 2
  /\ UNCHANGED <<inbox, ready>>

SenderSend(n) ==
  /\ pc[n] = "connecting" /\ sender[n] = "send"
  /\ SendInitial(n) \/ SendReady(n) \/ SendEmpty(n)
  /\ sender' = [sender EXCEPT ![n] = "test"]
  /\ UNCHANGED <<pc, phase, peers, barrier, id, states, recovered, reported, limits>>

(* If it is not 0, nothing is sent, the assertion fails in a thread without *)
(* a restart wrapper, and the process ends.                                 *)
SenderFails(n) ==
  /\ pc[n] = "connecting" /\ sender[n] = "send"
  /\ phase[n] = 2
  /\ Die(n)

-----------------------------------------------------------------------------
(* The listener *)

PeersAfterReadyIgnored(n, m) ==
  CASE m.type = "Initial" -> peers[n] \cup {m.from}
    [] m.type = "Ready"   -> peers[n]
    [] OTHER              -> m.peers

PeersAfterKept(n, m) ==
  IF m.type \in {"Initial", "Ready"} THEN peers[n] \cup {m.from} ELSE peers[n]

PeersAfter(n, m) ==
  IF m.type \in {"Initial", "Ready"} THEN peers[n] \cup {m.from} ELSE m.peers

BarrierAfterAny(n, m) ==
  IF m.type \in {"Initial", "Ready"} THEN barrier[n] \cup {m.from} ELSE m.peers

BarrierAfter(n, m) ==
  CASE m.type = "Initial" -> barrier[n]
    [] m.type = "Ready"   -> barrier[n] \cup {m.from}
    [] OTHER              -> m.peers

PhaseAfter(n, m) ==
  CASE Cardinality(BarrierAfter(n, m)) = Count              -> 2
    [] m.type \in {"RecoveryPeers", "RecoveryState"}        -> 2
    [] OTHER -> IF Cardinality(PeersAfter(n, m)) = Count THEN 1 ELSE phase[n]

Recover(n, m) ==
  \/ /\ m.type = "RecoveryState"
     /\ states' = [states EXCEPT ![n] = @ \cup {m.state}]
     /\ recovered' = [recovered EXCEPT ![n] = {m.state}]
  \/ /\ m.type # "RecoveryState"
     /\ UNCHANGED <<states, recovered>>

Listen(n) ==
  LET m == Head(inbox[n]) IN
  /\ pc[n] = "connecting" /\ phase[n] < 2
  /\ inbox[n] # <<>>
  /\ peers' = [peers EXCEPT ![n] = PeersAfter(n, m)]
  /\ barrier' = [barrier EXCEPT ![n] = BarrierAfter(n, m)]
  /\ phase' = [phase EXCEPT ![n] = PhaseAfter(n, m)]
  /\ Recover(n, m)
  /\ inbox' = [inbox EXCEPT ![n] = Tail(@)]
  /\ UNCHANGED <<pc, sender, id, history, limits>>

(* connect joins the sender thread and looks up its own address. *)
Connected(n) ==
  /\ pc[n] = "connecting" /\ phase[n] = 2 /\ sender[n] = "done"
  /\ n \in peers[n]
  /\ id' = [id EXCEPT ![n] = Place(n, peers[n])]
  /\ pc' = [pc EXCEPT ![n] = "running"]
  /\ UNCHANGED <<phase, sender, peers, barrier, inbox, states, recovered, history, limits>>

-----------------------------------------------------------------------------
(* A node that runs *)

AnswerOfAny(n, i) ==
  IF states[n] # {} THEN RecoveryState(n, peers[n], i) ELSE RecoveryPeers(n, peers[n])

(* The answer to the node with number i. *)
Answer(n, i) ==
  IF i \in states[n] THEN RecoveryState(n, peers[n], i) ELSE RecoveryPeers(n, peers[n])

(* _loop takes any message and answers an Initial of a peer. *)
Serve(n) ==
  LET m    == Head(inbox[n])
      rest == [inbox EXCEPT ![n] = Tail(@)]
  IN
  /\ pc[n] = "running"
  /\ inbox[n] # <<>>
  /\ \/ /\ m.type = "Initial" /\ m.from \in peers[n]
        /\ inbox' = [rest EXCEPT
             ![m.from] = Queued(m.from, @, Answer(n, Place(m.from, peers[n])))]
     \/ /\ ~(m.type = "Initial" /\ m.from \in peers[n])
        /\ inbox' = rest
  /\ UNCHANGED <<session, history, limits>>

(* Its elevator reports a state, which some of the others hear. *)
Report(n, heard) ==
  /\ pc[n] = "running"
  /\ \A k \in heard : pc[k] = "running"
  /\ states' = [k \in Nodes |-> IF k \in heard \cup {n} THEN states[k] \cup {id[n]} ELSE states[k]]
  /\ reported' = reported \cup {n}
  /\ UNCHANGED <<pc, phase, sender, peers, barrier, id, inbox, recovered, ready, limits>>

Lose(n) ==
  /\ losses < MaxLosses
  /\ inbox[n] # <<>>
  /\ inbox' = [inbox EXCEPT ![n] = Tail(@)]
  /\ losses' = losses + 1
  /\ UNCHANGED <<session, history, crashes>>

-----------------------------------------------------------------------------
Sender(n) == SenderTest(n) \/ SenderSend(n)
Take(n)   == Listen(n) \/ Serve(n)

Next ==
  \E n \in Nodes :
    \/ Start(n) \/ Crash(n) \/ Sender(n) \/ SenderFails(n)
    \/ Take(n) \/ Lose(n) \/ Connected(n)
    \/ \E heard \in SUBSET Nodes : Report(n, heard)

Spec == Init /\ [][Next]_vars

(* A node that is down is started at some time, and the threads run: each   *)
(* message that reached a socket is read.                                   *)
Fairness ==
  \A n \in Nodes :
    WF_vars(Start(n)) /\ WF_vars(Sender(n)) /\ WF_vars(Take(n)) /\ WF_vars(Connected(n))

FairSpec == Spec /\ Fairness

-----------------------------------------------------------------------------
(* Properties *)

TypeOK ==
  /\ pc \in [Nodes -> {"down", "connecting", "running"}]
  /\ phase \in [Nodes -> 0 .. 2]
  /\ sender \in [Nodes -> {"test", "send", "done"}]
  /\ peers \in [Nodes -> SUBSET Nodes]
  /\ barrier \in [Nodes -> SUBSET Nodes]
  /\ id \in [Nodes -> Ids \cup {NoId}]
  /\ inbox \in [Nodes -> Seq(Message)]
  /\ states \in [Nodes -> SUBSET Ids]
  /\ recovered \in [Nodes -> SUBSET Ids]
  /\ ready \subseteq Nodes
  /\ reported \subseteq Nodes
  /\ crashes \in 0 .. MaxCrashes
  /\ losses \in 0 .. MaxLosses

(* Comment of sessionmanager.cpp:138, "therefore same on all elevators":    *)
(* each node that runs has the number its address has among all nodes,      *)
(* whenever and however often it was started, and whoever told it.          *)
SameNumbers ==
  \A n \in Nodes :
    pc[n] = "running" => peers[n] = Nodes /\ id[n] = Cardinality({m \in Nodes : m < n})

(* Nobody gets past the barrier before everybody has found all peers and    *)
(* said so, whatever dies and starts again meanwhile.                       *)
BarrierHolds ==
  \A n \in Nodes : phase[n] = 2 => ready = Nodes

(* What a node recovers is a state its own elevator once reported, never    *)
(* that of another one or of one that never ran.                            *)
RecoveredIsOwn ==
  \A n \in Nodes :
    recovered[n] \subseteq {Place(n, Nodes)} /\ (recovered[n] # {} => n \in reported)

(* What the proof of these properties needs beyond them. *)
ProgressOK ==
  \A n \in Nodes :
    /\ barrier[n] \subseteq peers[n] \cap ready
    /\ phase[n] = 2 => peers[n] = Nodes /\ ready = Nodes
    /\ pc[n] = "running" => phase[n] = 2 /\ id[n] = Place(n, Nodes)

StatesOK ==
  \A n \in Nodes : \A i \in states[n] : \E k \in reported : i = Place(k, Nodes)

(* What may be on its way to node n. *)
Sound(n) ==
  {m \in Message :
     /\ m.type = "Ready" => m.from \in ready
     /\ m.type \in {"RecoveryPeers", "RecoveryState"} => m.peers = Nodes /\ ready = Nodes
     /\ m.type = "RecoveryState" => m.state = Place(n, Nodes) /\ n \in reported}

MessagesOK == \A n \in Nodes : inbox[n] \in Seq(Sound(n))

IInv == TypeOK /\ ProgressOK /\ StatesOK /\ MessagesOK /\ RecoveredIsOwn

-----------------------------------------------------------------------------
(* README, "Program will wait for all nodes at the beginning": whichever   *)
(* processes die, once no more of them do all nodes run, if the network     *)
(* loses nothing.                                                           *)
EverybodyRunsIfHeard == [](losses = 0) => <>[](\A n \in Nodes : pc[n] = "running")

(* Comment of sessionmanager.cpp:199, "if it resends initial or ready, then *)
(* we would resend ready anyway in this loop": a node that still connects   *)
(* when all others run is answered at last.                                 *)
Late(n) ==
  pc[n] = "connecting" /\ \A k \in Nodes \ {n} : pc[k] = "running"

LateNodeIsAnswered == \A n \in Nodes : Late(n) ~> ~Late(n)
=============================================================================
