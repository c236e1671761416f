------------------------ MODULE SessionManagerProofs ------------------------
(***************************************************************************)
(* The nodes agree on their numbers, nobody passes the barrier before all  *)
(* are ready and nobody recovers the state of another elevator, for any    *)
(* number of nodes, crashes and losses.                                    *)
(***************************************************************************)
EXTENDS SessionManager, FiniteSetTheorems, SequenceTheorems, TLAPS

(* The set of the nodes before one of them is smaller than that of all.    *)
LEMMA PlaceInIds ==
  ASSUME NEW n \in Nodes
  PROVE  Place(n, Nodes) \in Ids
<1> DEFINE Below == {m \in Nodes : m < n}
<1>1. Below \subseteq Nodes /\ n \in Nodes \ Below
  BY NodesAssumption
<1>2. IsFiniteSet(Below) /\ Cardinality(Below) <= Count /\ Below # Nodes
  BY <1>1, FS_Subset, NodesAssumption DEF Count
<1>3. Cardinality(Below) \in Nat /\ Count \in Nat
  BY <1>2, FS_CardinalityType, NodesAssumption DEF Count
<1>4. Count # Cardinality(Below)
  BY <1>1, <1>2, FS_Subset, NodesAssumption DEF Count
<1> QED BY <1>2, <1>3, <1>4 DEF Place, Ids

(* Two nodes have different places: the later one counts the earlier.      *)
LEMMA PlacesGrow ==
  ASSUME NEW n \in Nodes, NEW k \in Nodes, n < k
  PROVE  Place(n, Nodes) < Place(k, Nodes)
<1> DEFINE BelowN == {m \in Nodes : m < n}
           BelowK == {m \in Nodes : m < k}
<1>1. BelowN \in SUBSET BelowK /\ n \in BelowK \ BelowN
  <2>1. n \in Nat /\ k \in Nat /\ \A m \in Nodes : m \in Nat
    BY NodesAssumption
  <2>2. ASSUME NEW m \in Nodes, m < n PROVE m < k
    BY <2>1, <2>2
  <2>3. ~(n < n)
    BY <2>1
  <2> QED BY <2>2, <2>3
<1>2. IsFiniteSet(BelowK)
  BY FS_Subset, NodesAssumption
<1>3. IsFiniteSet(BelowN) /\ Cardinality(BelowN) <= Cardinality(BelowK)
      /\ Cardinality(BelowN) # Cardinality(BelowK)
  BY <1>1, <1>2, FS_Subset
<1>4. Cardinality(BelowN) \in Nat /\ Cardinality(BelowK) \in Nat
  BY <1>2, <1>3, FS_CardinalityType
<1> QED BY <1>3, <1>4 DEF Place

LEMMA PlacesDiffer ==
  ASSUME NEW n \in Nodes, NEW k \in Nodes, Place(n, Nodes) = Place(k, Nodes)
  PROVE  n = k
<1>1. n \in Nat /\ k \in Nat
  BY NodesAssumption
<1>2. Place(n, Nodes) \in Int /\ Place(k, Nodes) \in Int
  BY PlaceInIds DEF Ids
<1>3. ~(n < k) /\ ~(k < n)
  BY <1>2, PlacesGrow
<1> QED BY <1>1, <1>3

(* A set of nodes is complete if it is as large as the set of all.         *)
LEMMA CompleteIfCounted ==
  ASSUME NEW P \in SUBSET Nodes, Cardinality(P) = Count
  PROVE  P = Nodes
BY FS_Subset, NodesAssumption DEF Count

-----------------------------------------------------------------------------
(* Queues *)

LEMMA SeqOfMore ==
  ASSUME NEW S, NEW T, S \subseteq T, NEW s \in Seq(S)
  PROVE  s \in Seq(T)
OBVIOUS

(* What is sound on its way stays so when more nodes are ready or have      *)
(* reported a state, as no node ever stops to have been.                    *)
LEMMA SoundStaysSound ==
  ASSUME TypeOK, ready \subseteq ready', ready' \subseteq Nodes, reported \subseteq reported',
         NEW n \in Nodes
  PROVE  Sound(n) \subseteq Sound(n)'
BY DEF Sound, TypeOK, Message

(* A message that reaches a node leaves its queue sound, whether it is       *)
(* appended or not.                                                         *)
LEMMA QueuedIsSound ==
  ASSUME NEW S, NEW k, NEW queue \in Seq(S), NEW m \in S
  PROVE  Queued(k, queue, m) \in Seq(S)
BY AppendProperties DEF Queued

-----------------------------------------------------------------------------
(* Each step keeps the invariant.                                           *)

LEMMA InitInvariant == Init => IInv
<1> SUFFICES ASSUME Init PROVE IInv
  OBVIOUS
<1> USE DEF Init
<1>1. TypeOK
  BY BoundsAssumption DEF TypeOK
<1>2. ProgressOK /\ StatesOK /\ RecoveredIsOwn
  BY DEF ProgressOK, StatesOK, RecoveredIsOwn
<1>3. MessagesOK
  BY DEF MessagesOK
<1> QED BY <1>1, <1>2, <1>3 DEF IInv

(* A step that changes no message and forgets nobody who was ready or       *)
(* reported leaves all messages sound.                                      *)
LEMMA MessagesKept ==
  ASSUME IInv, TypeOK', inbox' = inbox, ready \subseteq ready', reported \subseteq reported'
  PROVE  MessagesOK'
<1>1. ASSUME NEW n \in Nodes PROVE inbox[n] \in Seq(Sound(n)')
  <2>1. inbox[n] \in Seq(Sound(n))
    BY DEF IInv, MessagesOK
  <2>2. Sound(n) \subseteq Sound(n)'
    BY SoundStaysSound DEF IInv, TypeOK
  <2> QED BY <2>1, <2>2, SeqOfMore
<1> QED BY <1>1 DEF MessagesOK

LEMMA StartStep ==
  ASSUME IInv, NEW n \in Nodes, Start(n)
  PROVE  IInv'
<1> USE DEF Start, history, limits
<1>1. TypeOK'
  BY DEF IInv, TypeOK
<1>2. ProgressOK' /\ StatesOK' /\ RecoveredIsOwn'
  BY DEF IInv, TypeOK, ProgressOK, StatesOK, RecoveredIsOwn
<1> QED BY <1>1, <1>2, MessagesKept DEF IInv

(* A node that dies forgets everything, and what is recorded of the past    *)
(* stays.                                                                   *)
LEMMA DieStep ==
  ASSUME IInv, NEW n \in Nodes, Die(n)
  PROVE  IInv'
<1> USE DEF Die, history
<1>1. TypeOK'
  BY BoundsAssumption DEF IInv, TypeOK
<1>2. ProgressOK' /\ StatesOK' /\ RecoveredIsOwn'
  BY DEF IInv, TypeOK, ProgressOK, StatesOK, RecoveredIsOwn
<1>3. ASSUME NEW k \in Nodes PROVE inbox'[k] \in Seq(Sound(k)')
  <2>1. Sound(k)' = Sound(k)
    BY DEF Sound
  <2>2. CASE k = n
    BY <2>2 DEF IInv, TypeOK
  <2>3. CASE k # n
    BY <2>1, <2>3 DEF IInv, TypeOK, MessagesOK
  <2> QED BY <2>2, <2>3
<1> QED BY <1>1, <1>2, <1>3 DEF IInv, MessagesOK

LEMMA SenderTestStep ==
  ASSUME IInv, NEW n \in Nodes, SenderTest(n)
  PROVE  IInv'
<1> USE DEF SenderTest, history, limits
<1>1. TypeOK'
  BY DEF IInv, TypeOK
<1>2. ProgressOK' /\ StatesOK' /\ RecoveredIsOwn'
  BY DEF IInv, ProgressOK, StatesOK, RecoveredIsOwn
<1> QED BY <1>1, <1>2, MessagesKept DEF IInv

LEMMA ConnectedStep ==
  ASSUME IInv, NEW n \in Nodes, Connected(n)
  PROVE  IInv'
<1> USE DEF Connected, history, limits
<1>1. peers[n] = Nodes
  BY DEF IInv, ProgressOK
<1>2. Place(n, Nodes) \in Ids
  BY PlaceInIds
<1>3. TypeOK'
  BY <1>1, <1>2 DEF IInv, TypeOK
<1>4. ProgressOK' /\ StatesOK' /\ RecoveredIsOwn'
  BY <1>1 DEF IInv, TypeOK, ProgressOK, StatesOK, RecoveredIsOwn
<1> QED BY <1>3, <1>4, MessagesKept DEF IInv

(* The id of a node that runs is its place, so what it reports is its own.  *)
LEMMA ReportStep ==
  ASSUME IInv, NEW n \in Nodes, NEW heard \in SUBSET Nodes, Report(n, heard)
  PROVE  IInv'
<1> USE DEF Report, limits
<1>1. id[n] = Place(n, Nodes) /\ Place(n, Nodes) \in Ids
  BY PlaceInIds DEF IInv, ProgressOK
<1>2. TypeOK'
  BY <1>1 DEF IInv, TypeOK
<1>3. StatesOK'
  <2> SUFFICES ASSUME NEW k \in Nodes, NEW i \in states'[k]
               PROVE  \E j \in reported' : i = Place(j, Nodes)
    BY DEF StatesOK
  <2>1. i \in states[k] \/ i = id[n]
    BY DEF IInv, TypeOK
  <2>2. CASE i \in states[k]
    BY <2>2 DEF IInv, StatesOK
  <2>3. CASE i = id[n]
    BY <1>1, <2>3
  <2> QED BY <2>1, <2>2, <2>3
<1>4. ProgressOK' /\ RecoveredIsOwn'
  BY DEF IInv, ProgressOK, RecoveredIsOwn
<1> QED BY <1>2, <1>3, <1>4, MessagesKept DEF IInv

(* A broadcast of a message that is sound at every node.                    *)
LEMMA BroadcastStep ==
  ASSUME IInv, NEW m \in Message, Broadcast(m), TypeOK', ready \subseteq ready',
         reported' = reported, \A k \in Nodes : m \in Sound(k)'
  PROVE  MessagesOK'
<1>1. ASSUME NEW k \in Nodes PROVE inbox'[k] \in Seq(Sound(k)')
  <2>1. inbox[k] \in Seq(Sound(k))
    BY DEF IInv, MessagesOK
  <2>2. Sound(k) \subseteq Sound(k)'
    BY SoundStaysSound DEF IInv, TypeOK
  <2>3. inbox[k] \in Seq(Sound(k)')
    BY <2>1, <2>2, SeqOfMore
  <2>4. Queued(k, inbox[k], m) \in Seq(Sound(k)')
    BY <2>3, QueuedIsSound
  <2> QED BY <2>4 DEF Broadcast
<1> QED BY <1>1 DEF MessagesOK

LEMMA BroadcastType ==
  ASSUME TypeOK, NEW m \in Message, Broadcast(m)
  PROVE  inbox' \in [Nodes -> Seq(Message)]
<1>1. ASSUME NEW k \in Nodes PROVE Queued(k, inbox[k], m) \in Seq(Message)
  BY QueuedIsSound DEF TypeOK
<1> QED BY <1>1 DEF Broadcast

(* A node that sends Ready is ready from then on.                           *)
LEMMA SenderSendStep ==
  ASSUME IInv, NEW n \in Nodes, SenderSend(n)
  PROVE  IInv'
<1> USE DEF SenderSend, limits
<1>1. CASE SendInitial(n)
  <2>1. Initial(n) \in Message /\ Broadcast(Initial(n)) /\ ready' = ready
    BY <1>1 DEF SendInitial, Message, Initial
  <2>2. TypeOK'
    BY <2>1, BroadcastType DEF IInv, TypeOK
  <2>3. \A k \in Nodes : Initial(n) \in Sound(k)'
    BY <2>1 DEF Sound, Initial
  <2>4. MessagesOK'
    BY <2>1, <2>2, <2>3, BroadcastStep
  <2>5. ProgressOK' /\ StatesOK' /\ RecoveredIsOwn'
    BY <2>1 DEF IInv, ProgressOK, StatesOK, RecoveredIsOwn
  <2> QED BY <2>2, <2>4, <2>5 DEF IInv
<1>2. CASE SendReady(n)
  <2>1. Ready(n) \in Message /\ Broadcast(Ready(n)) /\ ready' = ready \cup {n}
    BY <1>2 DEF SendReady, Message, Ready
  <2>2. TypeOK'
    BY <2>1, BroadcastType DEF IInv, TypeOK
  <2>3. \A k \in Nodes : Ready(n) \in Sound(k)'
    BY <2>1 DEF Sound, Ready
  <2>4. MessagesOK'
    BY <2>1, <2>2, <2>3, BroadcastStep
  <2>5. ProgressOK' /\ StatesOK' /\ RecoveredIsOwn'
    BY <2>1 DEF IInv, TypeOK, ProgressOK, StatesOK, RecoveredIsOwn
  <2> QED BY <2>2, <2>4, <2>5 DEF IInv
<1>3. CASE SendEmpty(n)
  <2>1. TypeOK'
    BY <1>3 DEF SendEmpty, IInv, TypeOK
  <2>2. ProgressOK' /\ StatesOK' /\ RecoveredIsOwn'
    BY <1>3 DEF SendEmpty, IInv, ProgressOK, StatesOK, RecoveredIsOwn
  <2> QED BY <1>3, <2>1, <2>2, MessagesKept DEF SendEmpty, IInv
<1> QED BY <1>1, <1>2, <1>3

(* What a node takes from its socket is sound, and the rest stays.          *)
LEMMA TakenIsSound ==
  ASSUME IInv, NEW n \in Nodes, inbox[n] # <<>>
  PROVE  /\ Head(inbox[n]) \in Sound(n)
         /\ Tail(inbox[n]) \in Seq(Sound(n))
BY HeadTailProperties DEF IInv, MessagesOK

LEMMA SoundIsMessage ==
  ASSUME NEW n \in Nodes
  PROVE  Sound(n) \subseteq Message
BY DEF Sound

LEMMA LoseStep ==
  ASSUME IInv, NEW n \in Nodes, Lose(n)
  PROVE  IInv'
<1> USE DEF Lose, session, history
<1>1. Tail(inbox[n]) \in Seq(Sound(n)) /\ Tail(inbox[n]) \in Seq(Message)
  BY TakenIsSound, SoundIsMessage, SeqOfMore
<1>2. TypeOK'
  BY <1>1, BoundsAssumption DEF IInv, TypeOK
<1>3. MessagesOK'
  <2>1. \A k \in Nodes : Sound(k)' = Sound(k)
    BY DEF Sound
  <2> QED BY <1>1, <2>1 DEF IInv, TypeOK, MessagesOK
<1>4. ProgressOK' /\ StatesOK' /\ RecoveredIsOwn'
  BY DEF IInv, ProgressOK, StatesOK, RecoveredIsOwn
<1> QED BY <1>2, <1>3, <1>4 DEF IInv

(* The listener believes what is sound: the barrier grows by a node that is *)
(* ready or becomes complete, and only a complete set ends it.              *)
LEMMA ListenStep ==
  ASSUME IInv, NEW n \in Nodes, Listen(n)
  PROVE  IInv'
<1> DEFINE m == Head(inbox[n])
<1> USE DEF Listen, history, limits
<1>1. m \in Sound(n) /\ m \in Message
      /\ Tail(inbox[n]) \in Seq(Sound(n)) /\ Tail(inbox[n]) \in Seq(Message)
  BY TakenIsSound, SoundIsMessage, SeqOfMore
<1> HIDE DEF m
<1>2. /\ peers' = [peers EXCEPT ![n] = PeersAfter(n, m)]
      /\ barrier' = [barrier EXCEPT ![n] = BarrierAfter(n, m)]
  BY DEF m
<1>3. /\ phase' = [phase EXCEPT ![n] = PhaseAfter(n, m)]
      /\ inbox' = [inbox EXCEPT ![n] = Tail(@)]
  BY DEF m
<1>4. UNCHANGED <<pc, sender, id, ready, reported, crashes, losses>> /\ pc[n] = "connecting"
  OBVIOUS
<1>5. Recover(n, m)
  BY DEF m
<1>6. PeersAfter(n, m) \in SUBSET Nodes
  BY <1>1 DEF PeersAfter, IInv, TypeOK, Message
<1>7. BarrierAfter(n, m) \in SUBSET Nodes
      /\ BarrierAfter(n, m) \subseteq PeersAfter(n, m) \cap ready
  <2>1. barrier[n] \subseteq peers[n] \cap ready /\ peers[n] \subseteq Nodes /\ ready \subseteq Nodes
    BY DEF IInv, TypeOK, ProgressOK
  <2>2. CASE m.type = "Initial"
    BY <1>1, <2>1, <2>2 DEF BarrierAfter, PeersAfter
  <2>3. CASE m.type = "Ready"
    BY <1>1, <2>1, <2>3 DEF BarrierAfter, PeersAfter, Sound
  <2>4. CASE m.type \in {"RecoveryPeers", "RecoveryState"}
    BY <1>1, <2>4 DEF BarrierAfter, PeersAfter, Sound
  <2> QED BY <1>1, <2>2, <2>3, <2>4 DEF Message
<1>8. PhaseAfter(n, m) \in 0 .. 2 /\ phase[n] < 2
  BY DEF PhaseAfter, IInv, TypeOK
<1> HIDE DEF Listen
<1>9. PhaseAfter(n, m) = 2 => PeersAfter(n, m) = Nodes /\ ready = Nodes
  <2>1. CASE Cardinality(BarrierAfter(n, m)) = Count
    <3>1. BarrierAfter(n, m) = Nodes
      BY <1>7, <2>1, CompleteIfCounted
    <3> QED BY <1>6, <1>7, <3>1 DEF IInv, TypeOK
  <2>2. CASE m.type \in {"RecoveryPeers", "RecoveryState"}
    BY <1>1, <2>2 DEF PeersAfter, Sound
  <2>3. CASE Cardinality(BarrierAfter(n, m)) # Count
             /\ m.type \notin {"RecoveryPeers", "RecoveryState"}
    BY <1>8, <2>3 DEF PhaseAfter
  <2> QED BY <2>1, <2>2, <2>3
<1>10. m.type = "RecoveryState" =>
        m.state \in Ids /\ m.state = Place(n, Nodes) /\ n \in reported
  BY <1>1, PlaceInIds DEF Sound
<1>11. TypeOK'
  <2>1. /\ peers' \in [Nodes -> SUBSET Nodes] /\ barrier' \in [Nodes -> SUBSET Nodes]
        /\ phase' \in [Nodes -> 0 .. 2] /\ inbox' \in [Nodes -> Seq(Message)]
    BY <1>1, <1>2, <1>3, <1>6, <1>7, <1>8 DEF IInv, TypeOK
  <2>2. states' \in [Nodes -> SUBSET Ids] /\ recovered' \in [Nodes -> SUBSET Ids]
    <3>1. states \in [Nodes -> SUBSET Ids] /\ recovered \in [Nodes -> SUBSET Ids]
      BY DEF IInv, TypeOK
    <3>2. CASE states' = states /\ recovered' = recovered
      BY <3>1, <3>2
    <3>3. CASE /\ m.type = "RecoveryState"
               /\ states' = [states EXCEPT ![n] = @ \cup {m.state}]
               /\ recovered' = [recovered EXCEPT ![n] = {m.state}]
      <4>1. m.state \in Ids
        BY <1>10, <3>3
      <4>2. states[n] \cup {m.state} \in SUBSET Ids /\ {m.state} \in SUBSET Ids
        BY <3>1, <4>1
      <4> QED BY <3>1, <3>3, <4>2
    <3> QED BY <1>5, <3>2, <3>3 DEF Recover
  <2> QED BY <1>4, <2>1, <2>2 DEF IInv, TypeOK
<1>12. ProgressOK'
  <2> SUFFICES ASSUME NEW k \in Nodes
               PROVE  /\ barrier'[k] \subseteq peers'[k] \cap ready
                      /\ phase'[k] = 2 => peers'[k] = Nodes /\ ready = Nodes
                      /\ pc[k] = "running" => phase'[k] = 2 /\ id[k] = Place(k, Nodes)
    BY <1>4 DEF ProgressOK
  <2>1. CASE k = n
    BY <1>2, <1>3, <1>4, <1>7, <1>9, <2>1 DEF IInv, TypeOK, ProgressOK
  <2>2. CASE k # n
    BY <1>2, <1>3, <2>2 DEF IInv, TypeOK, ProgressOK
  <2> QED BY <2>1, <2>2
<1>13. StatesOK' /\ RecoveredIsOwn'
  <2>1. CASE states' = states /\ recovered' = recovered
    BY <1>4, <2>1 DEF IInv, StatesOK, RecoveredIsOwn
  <2>2. CASE /\ m.type = "RecoveryState"
             /\ states' = [states EXCEPT ![n] = @ \cup {m.state}]
             /\ recovered' = [recovered EXCEPT ![n] = {m.state}]
    <3>1. StatesOK'
      BY <1>4, <1>10, <2>2 DEF IInv, TypeOK, StatesOK
    <3>2. RecoveredIsOwn'
      BY <1>4, <1>10, <2>2 DEF IInv, TypeOK, RecoveredIsOwn
    <3> QED BY <3>1, <3>2
  <2> QED BY <1>5, <2>1, <2>2 DEF Recover
<1>14. MessagesOK'
  <2>1. \A k \in Nodes : Sound(k)' = Sound(k)
    BY <1>4 DEF Sound
  <2> QED BY <1>1, <1>2, <1>3, <2>1 DEF IInv, TypeOK, MessagesOK
<1> QED BY <1>11, <1>12, <1>13, <1>14 DEF IInv

(* A running node knows all peers, so it answers with the complete set and  *)
(* with the state of nobody but the one who asked.                          *)
LEMMA ServeStep ==
  ASSUME IInv, NEW n \in Nodes, Serve(n)
  PROVE  IInv'
<1> DEFINE m == Head(inbox[n])
           rest == [inbox EXCEPT ![n] = Tail(@)]
           answer == Answer(n, Place(m.from, peers[n]))
<1> USE DEF Serve, session, history, limits
<1>1. m \in Sound(n) /\ m \in Message
      /\ Tail(inbox[n]) \in Seq(Sound(n)) /\ Tail(inbox[n]) \in Seq(Message)
  BY TakenIsSound, SoundIsMessage, SeqOfMore
<1>2. \A k \in Nodes : Sound(k)' = Sound(k)
  BY DEF Sound
<1>3. rest \in [Nodes -> Seq(Message)] /\ \A k \in Nodes : rest[k] \in Seq(Sound(k))
  BY <1>1 DEF IInv, TypeOK, MessagesOK
<1>4. peers[n] = Nodes /\ ready = Nodes
  BY DEF IInv, ProgressOK
<1>5. ASSUME m.from \in Nodes PROVE answer \in Sound(m.from)
  <2>1. CASE Place(m.from, peers[n]) \in states[n]
    <3>1. PICK k \in reported : Place(m.from, Nodes) = Place(k, Nodes)
      BY <1>4, <2>1 DEF IInv, StatesOK
    <3>2. m.from \in reported
      BY <1>5, <3>1, PlacesDiffer DEF IInv, TypeOK
    <3>3. Place(m.from, Nodes) \in Ids
      BY <1>5, PlaceInIds
    <3> HIDE DEF m
    <3> QED BY <1>4, <2>1, <3>2, <3>3 DEF Answer, RecoveryState, Sound, Message
  <2>2. CASE Place(m.from, peers[n]) \notin states[n]
    <3> HIDE DEF m
    <3> QED BY <1>4, <2>2 DEF Answer, RecoveryPeers, Sound, Message
  <2> QED BY <2>1, <2>2
<1>6. CASE inbox' = rest
  <2>1. TypeOK' /\ MessagesOK'
    BY <1>2, <1>3, <1>6 DEF IInv, TypeOK, MessagesOK
  <2>2. ProgressOK' /\ StatesOK' /\ RecoveredIsOwn'
    BY DEF IInv, ProgressOK, StatesOK, RecoveredIsOwn
  <2> QED BY <2>1, <2>2 DEF IInv
<1>7. CASE /\ m.from \in peers[n]
           /\ inbox' = [rest EXCEPT ![m.from] = Queued(m.from, @, answer)]
  <2>1. m.from \in Nodes
    BY <1>4, <1>7
  <2>2. Queued(m.from, rest[m.from], answer) \in Seq(Sound(m.from))
    BY <1>3, <1>5, <2>1, QueuedIsSound
  <2>3. Queued(m.from, rest[m.from], answer) \in Seq(Message)
    BY <2>1, <2>2, SoundIsMessage, SeqOfMore
  <2> HIDE DEF m, rest, answer
  <2>4. TypeOK' /\ MessagesOK'
    BY <1>2, <1>3, <1>7, <2>1, <2>2, <2>3 DEF IInv, TypeOK, MessagesOK
  <2>5. ProgressOK' /\ StatesOK' /\ RecoveredIsOwn'
    BY DEF IInv, ProgressOK, StatesOK, RecoveredIsOwn
  <2> QED BY <2>4, <2>5 DEF IInv
<1> QED BY <1>6, <1>7

-----------------------------------------------------------------------------
LEMMA StepInvariant == IInv /\ [Next]_vars => IInv'
<1> SUFFICES ASSUME IInv, [Next]_vars PROVE IInv'
  OBVIOUS
<1>1. CASE UNCHANGED vars
  <2> USE <1>1 DEF vars, session, history, limits
  <2>1. TypeOK'
    BY DEF IInv, TypeOK
  <2>2. ProgressOK' /\ StatesOK' /\ RecoveredIsOwn'
    BY DEF IInv, ProgressOK, StatesOK, RecoveredIsOwn
  <2> QED BY <2>1, <2>2, MessagesKept DEF IInv
<1>2. CASE Next
  <2>1. PICK n \in Nodes :
          \/ Start(n) \/ Crash(n) \/ Sender(n) \/ SenderFails(n)
          \/ Take(n) \/ Lose(n) \/ Connected(n)
          \/ \E heard \in SUBSET Nodes : Report(n, heard)
    BY <1>2 DEF Next
  <2>2. CASE Start(n)
    BY <2>2, StartStep
  <2>3. CASE Crash(n) \/ SenderFails(n)
    BY <2>3, DieStep DEF Crash, SenderFails
  <2>4. CASE Sender(n)
    BY <2>4, SenderTestStep, SenderSendStep DEF Sender
  <2>5. CASE Take(n)
    BY <2>5, ListenStep, ServeStep DEF Take
  <2>6. CASE Lose(n)
    BY <2>6, LoseStep
  <2>7. CASE Connected(n)
    BY <2>7, ConnectedStep
  <2>8. CASE \E heard \in SUBSET Nodes : Report(n, heard)
    BY <2>8, ReportStep
  <2> QED BY <2>1, <2>2, <2>3, <2>4, <2>5, <2>6, <2>7, <2>8
<1> QED BY <1>1, <1>2

(* IInv is an invariant: what the three theorems below have in common.      *)
LEMMA Invariance == Spec => []IInv
BY InitInvariant, StepInvariant, PTL DEF Spec

(* Type correctness.                                                        *)
THEOREM TypeSafety == Spec => []TypeOK
<1>1. IInv => TypeOK
  BY DEF IInv
<1> QED BY <1>1, Invariance, PTL

(* connect gives each node the number its address has among all addresses.  *)
THEOREM NumbersSafety == Spec => []SameNumbers
<1>1. IInv => SameNumbers
  BY DEF IInv, ProgressOK, SameNumbers, Place
<1> QED BY <1>1, Invariance, PTL

(* _initListener leaves the barrier only when all nodes have sent Ready.    *)
THEOREM BarrierSafety == Spec => []BarrierHolds
<1>1. IInv => BarrierHolds
  BY DEF IInv, ProgressOK, BarrierHolds
<1> QED BY <1>1, Invariance, PTL

(* _loop sends a restarted node the state of its own elevator.              *)
THEOREM RecoverySafety == Spec => []RecoveredIsOwn
<1>1. IInv => RecoveredIsOwn
  BY DEF IInv
<1> QED BY <1>1, Invariance, PTL
=============================================================================
