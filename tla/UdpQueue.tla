------------------------------ MODULE UdpQueue ------------------------------
(***************************************************************************)
(* The way of a command or a state change from a thread of one node to a   *)
(* thread of another (elevator/udpqueue.h): the sending node's queue, its  *)
(* QueueSender's thread, a UDP broadcast, the receiving node's             *)
(* QueueReceiver's thread, and that node's queue, which its own threads    *)
(* fill too.  The receiving queue is this module's ConcurrentQueue, the    *)
(* sending one its instance Out.                                           *)
(*                                                                         *)
(* The network may lose a datagram, deliver it twice or behind a later     *)
(* one, and datagrams of other programs may come to the port; each is a    *)
(* mishap, and MaxMishaps of these four kinds happen, each once.           *)
(***************************************************************************)
EXTENDS ConcurrentQueue, SequencesExt

CONSTANTS
  MaxSent,     \* bound: messages from the other node
  MaxOwn,      \* bound: messages of the receiving node's own threads
  MaxMishaps,  \* bound: kinds of things that go wrong with datagrams
  Foreign      \* a datagram that is not a message of this type

ASSUME BoundsAssumption == MaxSent \in Nat /\ MaxOwn \in Nat /\ MaxMishaps \in Nat

VARIABLES
  outQueue, outPc, outGot,  \* the sending node's queue, and what its sender holds
  socket,   \* datagrams between sendto and recvfrom
  hand,     \* what the receiver's loop has received and not yet looked at
  sent, own,  \* messages made by the other node and by this one
  mishaps     \* what has gone wrong

sending == <<outQueue, outPc, outGot>>
receiving == vars
counters == <<sent, own, mishaps>>
linkVars == <<vars, sending, socket, hand, counters>>

(* A message is one of the other node or of the receiving one, and the     *)
(* receiver's predicate accepts it or not: a command is for this elevator  *)
(* or for another, a state change is of another elevator or an echo.       *)
Message(by, n, accepted) == [by |-> by, n |-> n, accepted |-> accepted]
Own == [by : {"own"}, n : 1..MaxOwn, accepted : {TRUE}]
Messages == [by : {"peer"}, n : 1..MaxSent, accepted : BOOLEAN] \cup Own

ASSUME MessagesAssumption == Data = Messages /\ Foreign \notin Data \cup {Nothing}

Sender == "sender"
Out == INSTANCE ConcurrentQueue WITH
  queue <- outQueue, pc <- outPc, got <- outGot,
  Consumers <- {Sender}, Op <- [c \in {Sender} |-> "dequeue"]

LinkInit ==
  /\ Init
  /\ Out!Init
  /\ socket = <<>>
  /\ hand = Nothing
  /\ sent = 0 /\ own = 0 /\ mishaps = {}

-----------------------------------------------------------------------------
(* The sending node *)

Send(accepted) ==
  /\ sent < MaxSent
  /\ sent' = sent + 1
  /\ Out!Enqueue(Message("peer", sent', accepted))
  /\ UNCHANGED <<receiving, socket, hand, own, mishaps>>

(* dequeue, which may have to wait. *)
SenderDequeues ==
  /\ Out!Call(Sender) \/ Out!Resume(Sender)
  /\ UNCHANGED <<receiving, socket, hand, counters>>

SenderStirs ==
  /\ Out!Stir(Sender)
  /\ UNCHANGED <<receiving, socket, hand, counters>>

SendInFront ==
  /\ Out!Done(Sender)
  /\ socket' = <<outGot[Sender]>> \o socket
  /\ UNCHANGED <<receiving, hand, counters>>

(* sendPacket; whether it succeeds is not looked at. *)
SendPacket ==
  /\ Out!Done(Sender)
  /\ socket' = Append(socket, outGot[Sender])
  /\ UNCHANGED <<receiving, hand, counters>>

-----------------------------------------------------------------------------
(* The network *)

Kinds == {"loss", "repeat", "overtake", "stray"}

Mishap(kind) ==
  /\ kind \notin mishaps /\ Cardinality(mishaps) < MaxMishaps
  /\ mishaps' = mishaps \cup {kind}
  /\ UNCHANGED <<receiving, sending, hand, sent, own>>

Lose ==
  /\ Mishap("loss")
  /\ \E i \in DOMAIN socket : socket' = RemoveAt(socket, i)

Repeat ==
  /\ Mishap("repeat")
  /\ \E i \in DOMAIN socket : socket' = InsertAt(socket, i, socket[i])

Overtake ==
  /\ Mishap("overtake")
  /\ \E i \in DOMAIN socket \ {1} :
       socket' = [socket EXCEPT ![i - 1] = socket[i], ![i] = socket[i - 1]]

Stray == Mishap("stray") /\ socket' = Append(socket, Foreign)

-----------------------------------------------------------------------------
(* The receiving node *)

Receive ==
  /\ hand = Nothing /\ socket # <<>>
  /\ hand' = Head(socket)
  /\ socket' = Tail(socket)
  /\ UNCHANGED <<receiving, sending, counters>>

PassOn ==
  /\ hand \in Messages /\ hand.accepted
  /\ Enqueue(hand)
  /\ hand' = Nothing
  /\ UNCHANGED <<sending, socket, counters>>

(* The node's own broadcasts come back to it and go here: what they carry   *)
(* names this elevator.  The test for local feedback compares addresses     *)
(* with 0.0.0.0, to which main.cpp binds the sockets, and holds for no      *)
(* datagram that was received.                                              *)
Reject ==
  /\ hand \in Messages /\ ~hand.accepted
  /\ hand' = Nothing
  /\ UNCHANGED <<receiving, sending, socket, counters>>

RestartSocket ==
  /\ hand = Foreign
  /\ hand' = Nothing /\ socket' = <<>>
  /\ UNCHANGED <<receiving, sending, counters>>

RestartNot ==
  /\ hand = Foreign
  /\ UNCHANGED linkVars

(* fromPacket returns nothing, the assertion throws, and the wrapper of the *)
(* thread calls the loop again: it begins with the next datagram.           *)
Restart ==
  /\ hand = Foreign
  /\ hand' = Nothing
  /\ UNCHANGED <<receiving, sending, socket, counters>>

Put ==
  /\ own < MaxOwn
  /\ own' = own + 1
  /\ Enqueue(Message("own", own', TRUE))
  /\ UNCHANGED <<sending, socket, hand, sent, mishaps>>

ReaderDequeues(c) ==
  /\ Call(c) \/ Resume(c)
  /\ UNCHANGED <<sending, socket, hand, counters>>

ReaderStirs(c) ==
  /\ Stir(c)
  /\ UNCHANGED <<sending, socket, hand, counters>>

ReaderIsDone(c) ==
  /\ Done(c)
  /\ UNCHANGED <<sending, socket, hand, counters>>

Transport == SenderDequeues \/ SendPacket \/ Receive \/ PassOn \/ Reject \/ Restart

LinkNext ==
  \/ \E a \in BOOLEAN : Send(a)
  \/ SenderStirs
  \/ Lose \/ Repeat \/ Overtake \/ Stray
  \/ Transport
  \/ Put
  \/ \E c \in Consumers : ReaderDequeues(c) \/ ReaderStirs(c) \/ ReaderIsDone(c)

LinkSpec == LinkInit /\ [][LinkNext]_linkVars

(* The threads of both nodes run.  Nobody has to send, and nothing is      *)
(* assumed of spurious wakings, of the clock, or of mishaps.                *)
LinkFairSpec ==
  /\ LinkSpec
  /\ WF_linkVars(SenderDequeues) /\ WF_linkVars(SendPacket)
  /\ WF_linkVars(Receive) /\ WF_linkVars(PassOn \/ Reject \/ Restart)
  /\ \A c \in Consumers :
       WF_linkVars(ReaderDequeues(c)) /\ WF_linkVars(ReaderIsDone(c))

-----------------------------------------------------------------------------
(* Properties *)

LinkTypeOK ==
  /\ TypeOK /\ Out!TypeOK
  /\ socket \in Seq(Messages \cup {Foreign})
  /\ hand \in Messages \cup {Foreign, Nothing}
  /\ sent \in 0..MaxSent /\ own \in 0..MaxOwn
  /\ mishaps \subseteq Kinds /\ Cardinality(mishaps) <= MaxMishaps

(* What is on its way to the receiving node's queue, first to arrive first. *)
InHand(x) == IF x = Nothing THEN <<>> ELSE <<x>>
Unsent == InHand(outGot[Sender]) \o outQueue
Way == InHand(hand) \o socket \o Unsent

(* Two queues, two threads, a restarted loop and the filter of the receiver *)
(* amount to one unreliable channel: what is lost, repeated or reordered is *)
(* so by the network, never by the program.                                 *)
Channel == INSTANCE Link WITH
  way <- Way, inbox <- queue, Welcome <- {m \in Messages : m.accepted}
ImplementsLink == Channel!Spec

IsPeers(x) == x \in Messages /\ x.by = "peer"

Ordered(s) ==
  \A i, j \in DOMAIN s :
    i < j /\ IsPeers(s[i]) /\ IsPeers(s[j]) => s[i].n < s[j].n

(* The messages of a node are in the order in which its threads made them,  *)
(* all the way, whatever is lost, and whatever the receiving node's threads *)
(* put between them: only the network can change their order.               *)
InOrder == mishaps \cap {"repeat", "overtake"} = {} => Ordered(queue \o Way)

(* A message that the network does not lose is read: no thread sleeps on    *)
(* its queue, and a foreign datagram does not end the receiver.             *)
ArrivesUnlessLost ==
  \A n \in 1..MaxSent :
    LET m == Message("peer", n, TRUE)
    IN  m \in ToSet(outQueue) ~>
          (\E c \in Consumers : got[c] = m) \/ "loss" \in mishaps
=============================================================================
