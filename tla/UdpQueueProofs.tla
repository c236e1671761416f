--------------------------- MODULE UdpQueueProofs ---------------------------
(***************************************************************************)
(* Proofs about the queue between threads, for every number of consumers,  *)
(* whichever of its operations they call, and about the way from a thread  *)
(* of one node to a thread of another that two of them are the ends of,    *)
(* for any number of messages and mishaps.                                 *)
(***************************************************************************)
EXTENDS UdpQueue, SequenceTheorems, FiniteSetTheorems, TLAPS

-----------------------------------------------------------------------------
(* The sets of sleeping and of waking consumers, as one of them moves.      *)

LEMMA AwakeFinite == IsFiniteSet(Awake) /\ Cardinality(Awake) \in Nat
<1>1. Awake \subseteq Consumers /\ IsFiniteSet(Consumers)
  BY ConsumersAssumption DEF Awake
<1> QED BY <1>1, FS_Subset, FS_CardinalityType

LEMMA GoesOut ==
  ASSUME TypeOK, NEW c \in Consumers, Goto(c, "out")
  PROVE  Awake' = Awake \ {c} /\ Asleep' = Asleep \ {c}
BY DEF TypeOK, Goto, Awake, Asleep, States

LEMMA WakesUp ==
  ASSUME TypeOK, NEW c \in Asleep, NEW s \in {"woken", "timedOut"}, Goto(c, s)
  PROVE  Awake' = Awake \cup {c} /\ c \notin Awake /\ Asleep' = Asleep \ {c}
<1>1. pc' = [pc EXCEPT ![c] = s] /\ c \in Consumers /\ pc[c] = "asleep"
      /\ pc \in [Consumers -> States]
  BY DEF TypeOK, Goto, Asleep
<1> QED BY <1>1 DEF Awake, Asleep, States

LEMMA OneMoreAwake ==
  ASSUME TypeOK, NEW c \in Asleep, NEW s \in {"woken", "timedOut"}, Goto(c, s)
  PROVE  Cardinality(Awake') = Cardinality(Awake) + 1
BY WakesUp, AwakeFinite, FS_AddElement

LEMMA OneLessAwake ==
  ASSUME TypeOK, NEW c \in Consumers, Goto(c, "out")
  PROVE  IF c \in Awake THEN Cardinality(Awake') = Cardinality(Awake) - 1
                        ELSE Cardinality(Awake') = Cardinality(Awake)
<1>1. CASE c \in Awake
  BY <1>1, GoesOut, AwakeFinite, FS_RemoveElement
<1>2. CASE c \notin Awake
  BY <1>2, GoesOut
<1> QED BY <1>1, <1>2

-----------------------------------------------------------------------------
(* Type correctness *)

LEMMA TypeInit == Init => TypeOK
BY DEF Init, TypeOK, States

LEMMA GotoType ==
  ASSUME TypeOK, NEW c \in Consumers, NEW s \in States, Goto(c, s)
  PROVE  pc' \in [Consumers -> States]
BY DEF TypeOK, Goto

LEMMA TakeType ==
  ASSUME TypeOK, NEW c \in Consumers, Take(c)
  PROVE  TypeOK'
<1>1. pc' \in [Consumers -> States]
  BY GotoType DEF Take, States
<1>2. queue \in Seq(Data) /\ queue # <<>> /\ queue' = Tail(queue)
      /\ got' = [got EXCEPT ![c] = Head(queue)] /\ got \in [Consumers -> Data \cup {Nothing}]
  BY DEF Take, TypeOK
<1>3. Head(queue) \in Data /\ queue' \in Seq(Data)
  BY <1>2
<1> QED BY <1>1, <1>2, <1>3 DEF TypeOK

LEMMA ReturnNothingType ==
  ASSUME TypeOK, NEW c \in Consumers, ReturnNothing(c)
  PROVE  TypeOK'
BY GotoType DEF ReturnNothing, TypeOK, States

LEMMA WaitType ==
  ASSUME TypeOK, NEW c \in Consumers, Wait(c)
  PROVE  TypeOK'
BY GotoType DEF Wait, TypeOK, States

LEMMA EnqueueType ==
  ASSUME TypeOK, NEW x \in Data, Enqueue(x)
  PROVE  TypeOK'
<1>1. pc' \in [Consumers -> States]
  <2>1. CASE UNCHANGED pc
    BY <2>1 DEF TypeOK
  <2>2. CASE \E c \in Asleep : Goto(c, "woken")
    BY <2>2, GotoType DEF Asleep, States
  <2> QED BY <2>1, <2>2 DEF Enqueue, NotifyOne
<1> QED BY <1>1 DEF Enqueue, TypeOK

LEMMA StirType ==
  ASSUME TypeOK, NEW c \in Consumers, Stir(c)
  PROVE  TypeOK'
BY GotoType DEF Stir, TypeOK, States

LEMMA DoneType ==
  ASSUME TypeOK, NEW c \in Consumers, Done(c)
  PROVE  TypeOK'
BY DEF Done, TypeOK

LEMMA TypeStep == TypeOK /\ [Next]_vars => TypeOK'
<1> SUFFICES ASSUME TypeOK, [Next]_vars PROVE TypeOK'
  OBVIOUS
<1>1. ASSUME NEW x \in Data, Enqueue(x) PROVE TypeOK'
  BY <1>1, EnqueueType
<1>2. ASSUME NEW c \in Consumers, Call(c) PROVE TypeOK'
  BY <1>2, TakeType, ReturnNothingType, WaitType DEF Call
<1>3. ASSUME NEW c \in Consumers, Resume(c) PROVE TypeOK'
  BY <1>3, TakeType, ReturnNothingType, WaitType DEF Resume
<1>4. ASSUME NEW c \in Consumers, Stir(c) PROVE TypeOK'
  BY <1>4, StirType
<1>5. ASSUME NEW c \in Consumers, Done(c) PROVE TypeOK'
  BY <1>5, DoneType
<1>6. CASE UNCHANGED vars
  BY <1>6 DEF vars, TypeOK
<1> QED BY <1>1, <1>2, <1>3, <1>4, <1>5, <1>6 DEF Next

(* The queue holds data, and each consumer is somewhere in its operation.   *)
THEOREM TypeCorrect == Spec => []TypeOK
BY TypeInit, TypeStep, PTL DEF Spec

-----------------------------------------------------------------------------
(* No consumer oversleeps *)

LEMMA AwakeInit == Init => NobodyOversleeps
BY DEF Init, NobodyOversleeps, Asleep

LEMMA AwakeStep == TypeOK /\ NobodyOversleeps /\ [Next]_vars => NobodyOversleeps'
<1> SUFFICES ASSUME TypeOK, NobodyOversleeps, [Next]_vars PROVE NobodyOversleeps'
  OBVIOUS
<1>0. Len(queue) \in Nat /\ Cardinality(Awake) \in Nat /\ Cardinality(Awake') \in Nat
  <2>1. TypeOK'
    BY TypeStep
  <2>2. Awake' \subseteq Consumers
    BY DEF Awake
  <2> QED BY <2>2, ConsumersAssumption, FS_Subset, FS_CardinalityType, AwakeFinite DEF TypeOK
<1>1. ASSUME NEW x \in Data, Enqueue(x) PROVE NobodyOversleeps'
  <2>1. Len(queue') = Len(queue) + 1
    BY <1>1 DEF Enqueue, TypeOK
  <2>2. CASE Asleep = {} /\ UNCHANGED pc
    BY <2>2 DEF NobodyOversleeps, Asleep
  <2>3. ASSUME NEW c \in Asleep, Goto(c, "woken") PROVE NobodyOversleeps'
    <3>1. Cardinality(Awake') = Cardinality(Awake) + 1
      BY <2>3, OneMoreAwake
    <3> QED BY <1>0, <2>1, <2>3, <3>1 DEF NobodyOversleeps
  <2> QED BY <1>1, <2>2, <2>3 DEF Enqueue, NotifyOne
<1>2. ASSUME NEW c \in Consumers, Take(c), pc[c] # "asleep" PROVE NobodyOversleeps'
  <2>1. Goto(c, "out") /\ Len(queue') = Len(queue) - 1
    BY <1>2 DEF Take, TypeOK
  <2>2. Asleep' = Asleep
    BY <1>2, <2>1, GoesOut DEF Asleep
  <2> QED BY <1>0, <2>1, <2>2, OneLessAwake DEF NobodyOversleeps
<1>3. ASSUME queue = <<>>, UNCHANGED queue PROVE NobodyOversleeps'
  BY <1>0, <1>3 DEF NobodyOversleeps
<1>4. ASSUME NEW c \in Consumers, Call(c) PROVE NobodyOversleeps'
  BY <1>2, <1>3, <1>4 DEF Call, ReturnNothing, Wait
<1>5. ASSUME NEW c \in Consumers, Resume(c) PROVE NobodyOversleeps'
  BY <1>2, <1>3, <1>5 DEF Resume, ReturnNothing, Wait, Awake
<1>6. ASSUME NEW c \in Consumers, Stir(c) PROVE NobodyOversleeps'
  <2>1. c \in Asleep /\ UNCHANGED queue /\ \E s \in {"woken", "timedOut"} : Goto(c, s)
    BY <1>6 DEF Stir
  <2>2. Cardinality(Awake') = Cardinality(Awake) + 1
    BY <2>1, OneMoreAwake
  <2> QED BY <1>0, <2>1, <2>2 DEF NobodyOversleeps
<1>7. CASE UNCHANGED <<queue, pc>>
  BY <1>7 DEF NobodyOversleeps, Asleep, Awake
<1> QED BY <1>1, <1>4, <1>5, <1>6, <1>7 DEF Next, Done, vars

(* notify_one is enough: whoever sleeps on a queue that is not empty may go *)
(* on, for as many consumers as there are data are on their way.            *)
THEOREM NobodyEverOversleeps == Spec => []NobodyOversleeps
<1>1. Init => TypeOK /\ NobodyOversleeps
  BY TypeInit, AwakeInit
<1>2. TypeOK /\ NobodyOversleeps /\ [Next]_vars => TypeOK' /\ NobodyOversleeps'
  BY TypeStep, AwakeStep
<1> QED BY <1>1, <1>2, PTL DEF Spec

-----------------------------------------------------------------------------
(* Refinement *)

LEMMA WorksInit == Init => WorksOutside
BY DEF Init, WorksOutside

LEMMA WorksStep == TypeOK /\ WorksOutside /\ [Next]_vars => WorksOutside'
<1> SUFFICES ASSUME TypeOK, WorksOutside, [Next]_vars PROVE WorksOutside'
  OBVIOUS
<1> USE DEF TypeOK, WorksOutside, Goto
<1>1. ASSUME NEW x \in Data, Enqueue(x) PROVE WorksOutside'
  BY <1>1 DEF Enqueue, NotifyOne, Asleep
<1>2. ASSUME NEW c \in Consumers, Take(c) PROVE WorksOutside'
  BY <1>2 DEF Take
<1>3. ASSUME NEW c \in Consumers, ReturnNothing(c) PROVE WorksOutside'
  BY <1>3 DEF ReturnNothing
<1>4. ASSUME NEW c \in Consumers, Wait(c), got[c] = Nothing PROVE WorksOutside'
  BY <1>4 DEF Wait
<1>5. ASSUME NEW c \in Consumers, Call(c) PROVE WorksOutside'
  BY <1>2, <1>3, <1>4, <1>5 DEF Call
<1>6. ASSUME NEW c \in Consumers, Resume(c) PROVE WorksOutside'
  BY <1>2, <1>3, <1>4, <1>6 DEF Resume
<1>7. ASSUME NEW c \in Consumers, Stir(c) PROVE WorksOutside'
  BY <1>7 DEF Stir, Asleep
<1>8. ASSUME NEW c \in Consumers, Done(c) PROVE WorksOutside'
  BY <1>8 DEF Done
<1>9. CASE UNCHANGED vars
  BY <1>9 DEF vars
<1> QED BY <1>1, <1>5, <1>6, <1>7, <1>8, <1>9 DEF Next

(* Whoever is in an operation, asleep or on its way to the mutex, has       *)
(* finished with what it took before.                                       *)
THEOREM ConsumersWorkOutside == Spec => []WorksOutside
<1>1. Init => TypeOK /\ WorksOutside
  BY TypeInit, WorksInit
<1>2. TypeOK /\ WorksOutside /\ [Next]_vars => TypeOK' /\ WorksOutside'
  BY TypeStep, WorksStep
<1> QED BY <1>1, <1>2, PTL DEF Spec

LEMMA FifoStep == WorksOutside /\ [Next]_vars => [Abstract!Next]_(Abstract!vars)
<1> SUFFICES ASSUME WorksOutside, [Next]_vars
             PROVE  Abstract!Next \/ UNCHANGED Abstract!vars
  OBVIOUS
<1> USE DEF Abstract!Next, Abstract!vars
<1>1. ASSUME NEW x \in Data, Enqueue(x) PROVE Abstract!Put(x)
  BY <1>1 DEF Enqueue, Abstract!Put
<1>2. ASSUME NEW c \in Consumers, Take(c), got[c] = Nothing PROVE Abstract!Take(c)
  BY <1>2 DEF Take, Abstract!Take
<1>3. ASSUME NEW c \in Consumers, Call(c) PROVE Abstract!Take(c) \/ UNCHANGED Abstract!vars
  BY <1>2, <1>3 DEF Call, ReturnNothing, Wait
<1>4. ASSUME NEW c \in Consumers, Resume(c) PROVE Abstract!Take(c) \/ UNCHANGED Abstract!vars
  BY <1>2, <1>4 DEF Resume, ReturnNothing, Wait, WorksOutside, Awake
<1>5. ASSUME NEW c \in Consumers, Stir(c) PROVE UNCHANGED Abstract!vars
  BY <1>5 DEF Stir
<1>6. ASSUME NEW c \in Consumers, Done(c) PROVE Abstract!Finish(c)
  BY <1>6 DEF Done, Abstract!Finish
<1>7. CASE UNCHANGED vars
  BY <1>7 DEF vars
<1> QED BY <1>1, <1>3, <1>4, <1>5, <1>6, <1>7 DEF Next

(* The queue with its mutex and its condition variable implements a FIFO.   *)
THEOREM Refinement == Spec => ImplementsFifo
<1>1. Init => Abstract!Init
  BY DEF Init, Abstract!Init
<1> QED BY <1>1, FifoStep, ConsumersWorkOutside, PTL DEF Spec, ImplementsFifo, Abstract!Spec

-----------------------------------------------------------------------------
(* Sequences in which something is taken out, put in or exchanged           *)

(* What the elements of a sequence are, told by lengths and indices alone.  *)
IsJoined(w, s, a, t, b, u, c) ==
  \A j \in 1 .. a + b + c :
    w[j] = IF j <= a THEN s[j] ELSE IF j <= a + b THEN t[j - a] ELSE u[j - a - b]
IsWithout(r, s, n, i) ==
  \A j \in 1 .. n - 1 : r[j] = IF j < i THEN s[j] ELSE s[j + 1]
IsWith(r, s, n, i, x) ==
  \A j \in 1 .. n + 1 : r[j] = IF j < i THEN s[j] ELSE IF j = i THEN x ELSE s[j - 1]
IsExchange(r, s, n, i) ==
  \A j \in 1 .. n : r[j] = IF j = i THEN s[i + 1] ELSE IF j = i + 1 THEN s[i] ELSE s[j]

LEMMA Joined ==
  ASSUME NEW S, NEW s \in Seq(S), NEW t \in Seq(S), NEW u \in Seq(S)
  PROVE  /\ s \o t \o u \in Seq(S)
         /\ Len(s \o t \o u) = Len(s) + Len(t) + Len(u)
         /\ IsJoined(s \o t \o u, s, Len(s), t, Len(t), u, Len(u))
<1>1. s \o t \in Seq(S) /\ Len(s \o t) = Len(s) + Len(t)
      /\ Len(s) \in Nat /\ Len(t) \in Nat /\ Len(u) \in Nat
      /\ \A i \in 1 .. Len(s) + Len(t) :
           (s \o t)[i] = IF i <= Len(s) THEN s[i] ELSE t[i - Len(s)]
  BY ConcatProperties, LenProperties
<1>2. (s \o t) \o u \in Seq(S) /\ Len((s \o t) \o u) = Len(s) + Len(t) + Len(u)
      /\ \A i \in 1 .. Len(s) + Len(t) + Len(u) :
           ((s \o t) \o u)[i] = IF i <= Len(s) + Len(t) THEN (s \o t)[i]
                                ELSE u[i - (Len(s) + Len(t))]
  BY <1>1, ConcatProperties
<1> QED BY <1>1, <1>2 DEF IsJoined

LEMMA TakenOut ==
  ASSUME NEW S, NEW s \in Seq(S), NEW i \in 1 .. Len(s)
  PROVE  /\ RemoveAt(s, i) \in Seq(S)
         /\ Len(RemoveAt(s, i)) = Len(s) - 1
         /\ IsWithout(RemoveAt(s, i), s, Len(s), i)
<1> DEFINE a == SubSeq(s, 1, i - 1)
           b == SubSeq(s, i + 1, Len(s))
<1>1. Len(s) \in Nat /\ \A j \in 1 .. Len(s) : s[j] \in S
  BY LenProperties, ElementOfSeq
<1>2. a \in Seq(S) /\ Len(a) = i - 1 /\ \A j \in 1 .. i - 1 : a[j] = s[j]
  BY <1>1, SubSeqProperties
<1>3. b \in Seq(S) /\ Len(b) = Len(s) - i /\ \A j \in 1 .. Len(s) - i : b[j] = s[i + j]
  BY <1>1, SubSeqProperties
<1>4. RemoveAt(s, i) = a \o b
  BY DEF RemoveAt
<1> HIDE DEF a, b
<1>5. a \o b \in Seq(S) /\ Len(a \o b) = Len(a) + Len(b)
      /\ \A j \in 1 .. Len(a) + Len(b) :
           (a \o b)[j] = IF j <= Len(a) THEN a[j] ELSE b[j - Len(a)]
  BY <1>2, <1>3, ConcatProperties
<1> QED BY <1>1, <1>2, <1>3, <1>4, <1>5 DEF IsWithout

LEMMA PutIn ==
  ASSUME NEW S, NEW s \in Seq(S), NEW i \in 1 .. Len(s) + 1, NEW x \in S
  PROVE  /\ InsertAt(s, i, x) \in Seq(S)
         /\ Len(InsertAt(s, i, x)) = Len(s) + 1
         /\ IsWith(InsertAt(s, i, x), s, Len(s), i, x)
<1> DEFINE a == SubSeq(s, 1, i - 1)
           b == SubSeq(s, i, Len(s))
           m == <<x>>
<1>1. Len(s) \in Nat /\ \A j \in 1 .. Len(s) : s[j] \in S
  BY LenProperties, ElementOfSeq
<1>2. a \in Seq(S) /\ Len(a) = i - 1 /\ \A j \in 1 .. i - 1 : a[j] = s[j]
  BY <1>1, SubSeqProperties
<1>3. b \in Seq(S) /\ Len(b) = Len(s) - i + 1 /\ \A j \in 1 .. Len(s) - i + 1 : b[j] = s[i + j - 1]
  BY <1>1, SubSeqProperties
<1>4. m \in Seq(S) /\ Len(m) = 1 /\ m[1] = x
  OBVIOUS
<1>5. InsertAt(s, i, x) = a \o m \o b
  BY DEF InsertAt
<1> HIDE DEF a, b, m
<1>6. a \in Seq(S) /\ m \in Seq(S) /\ b \in Seq(S)
  BY <1>2, <1>3, <1>4
<1>7. a \o m \o b \in Seq(S) /\ Len(a \o m \o b) = Len(a) + Len(m) + Len(b)
      /\ IsJoined(a \o m \o b, a, Len(a), m, Len(m), b, Len(b))
  BY <1>6, Joined
<1>8. Len(a \o m \o b) = Len(s) + 1
  BY <1>1, <1>2, <1>3, <1>4, <1>7
<1>9. IsWith(a \o m \o b, s, Len(s), i, x)
  BY <1>1, <1>2, <1>3, <1>4, <1>7 DEF IsJoined, IsWith
<1> QED BY <1>5, <1>7, <1>8, <1>9

LEMMA TakenOutOfAt ==
  ASSUME NEW a \in Nat, NEW b \in Nat, NEW c \in Nat, NEW i \in 1 .. b,
         NEW s, NEW t, NEW u, NEW r, NEW w, NEW v, NEW z,
         IsJoined(w, s, a, t, b, u, c), IsWithout(r, t, b, i),
         IsJoined(v, s, a, r, b - 1, u, c), IsWithout(z, w, a + b + c, a + i)
  PROVE  \A j \in 1 .. a + b + c - 1 : v[j] = z[j]
BY DEF IsJoined, IsWithout

LEMMA TakenOutOfMiddle ==
  ASSUME NEW S, NEW s \in Seq(S), NEW t \in Seq(S), NEW u \in Seq(S),
         NEW i \in 1 .. Len(t)
  PROVE  /\ Len(s) + i \in 1 .. Len(s \o t \o u)
         /\ s \o RemoveAt(t, i) \o u = RemoveAt(s \o t \o u, Len(s) + i)
<1> DEFINE w == s \o t \o u
           r == RemoveAt(t, i)
           v == s \o r \o u
           z == RemoveAt(w, Len(s) + i)
<1>1. Len(s) \in Nat /\ Len(t) \in Nat /\ Len(u) \in Nat
  BY LenProperties
<1>2. w \in Seq(S) /\ Len(w) = Len(s) + Len(t) + Len(u)
      /\ IsJoined(w, s, Len(s), t, Len(t), u, Len(u))
  BY Joined
<1>3. r \in Seq(S) /\ Len(r) = Len(t) - 1 /\ IsWithout(r, t, Len(t), i)
  BY TakenOut
<1> HIDE DEF r
<1>4. v \in Seq(S) /\ Len(v) = Len(s) + Len(r) + Len(u)
      /\ IsJoined(v, s, Len(s), r, Len(r), u, Len(u))
  <2>1. r \in Seq(S)
    BY <1>3
  <2> QED BY <2>1, Joined
<1>5. Len(s) + i \in 1 .. Len(w)
  BY <1>1, <1>2
<1> HIDE DEF w, v
<1>6. z \in Seq(S) /\ Len(z) = Len(w) - 1 /\ IsWithout(z, w, Len(w), Len(s) + i)
  BY <1>2, <1>5, TakenOut
<1> HIDE DEF z
<1>7. \A j \in 1 .. Len(s) + Len(t) + Len(u) - 1 : v[j] = z[j]
  <2>1. IsJoined(v, s, Len(s), r, Len(t) - 1, u, Len(u))
    BY <1>3, <1>4, Zenon
  <2>2. IsWithout(z, w, Len(s) + Len(t) + Len(u), Len(s) + i)
    BY <1>2, <1>6, Zenon
  <2>3. IsJoined(w, s, Len(s), t, Len(t), u, Len(u)) /\ IsWithout(r, t, Len(t), i)
    BY <1>2, <1>3, Zenon
  <2> QED BY <1>1, <2>1, <2>2, <2>3, TakenOutOfAt
<1>8. Len(v) = Len(s) + Len(t) + Len(u) - 1 /\ Len(z) = Len(v)
  BY <1>1, <1>2, <1>3, <1>4, <1>6
<1>9. v = z
  BY <1>4, <1>6, <1>7, <1>8, SeqEqual, Zenon
<1> QED BY <1>5, <1>9 DEF r, v, w, z

LEMMA PutIntoAt ==
  ASSUME NEW a \in Nat, NEW b \in Nat, NEW c \in Nat, NEW i \in 1 .. b + 1,
         NEW x, NEW s, NEW t, NEW u, NEW r, NEW w, NEW v, NEW z,
         IsJoined(w, s, a, t, b, u, c), IsWith(r, t, b, i, x),
         IsJoined(v, s, a, r, b + 1, u, c), IsWith(z, w, a + b + c, a + i, x)
  PROVE  \A j \in 1 .. a + b + c + 1 : v[j] = z[j]
BY DEF IsJoined, IsWith

(* Where something may be put in. *)
Gaps(s) == 1 .. Len(s) + 1

LEMMA PutIntoMiddle ==
  ASSUME NEW S, NEW s \in Seq(S), NEW t \in Seq(S), NEW u \in Seq(S),
         NEW i \in Gaps(t), NEW x \in S
  PROVE  /\ Len(s) + i \in Gaps(s \o t \o u)
         /\ s \o InsertAt(t, i, x) \o u = InsertAt(s \o t \o u, Len(s) + i, x)
<1> USE DEF Gaps
<1> DEFINE w == s \o t \o u
           r == InsertAt(t, i, x)
           v == s \o r \o u
           z == InsertAt(w, Len(s) + i, x)
<1>1. Len(s) \in Nat /\ Len(t) \in Nat /\ Len(u) \in Nat
  BY LenProperties
<1>2. w \in Seq(S) /\ Len(w) = Len(s) + Len(t) + Len(u)
      /\ IsJoined(w, s, Len(s), t, Len(t), u, Len(u))
  BY Joined
<1>3. r \in Seq(S) /\ Len(r) = Len(t) + 1 /\ IsWith(r, t, Len(t), i, x)
  BY PutIn
<1> HIDE DEF r
<1>4. v \in Seq(S) /\ Len(v) = Len(s) + Len(r) + Len(u)
      /\ IsJoined(v, s, Len(s), r, Len(r), u, Len(u))
  <2>1. r \in Seq(S)
    BY <1>3
  <2> QED BY <2>1, Joined
<1>5. Len(s) + i \in 1 .. Len(w) + 1
  BY <1>1, <1>2
<1> HIDE DEF w, v
<1>6. z \in Seq(S) /\ Len(z) = Len(w) + 1 /\ IsWith(z, w, Len(w), Len(s) + i, x)
  BY <1>2, <1>5, PutIn
<1> HIDE DEF z
<1>7. \A j \in 1 .. Len(s) + Len(t) + Len(u) + 1 : v[j] = z[j]
  <2>1. IsJoined(v, s, Len(s), r, Len(t) + 1, u, Len(u))
    BY <1>3, <1>4, Zenon
  <2>2. IsWith(z, w, Len(s) + Len(t) + Len(u), Len(s) + i, x)
    BY <1>2, <1>6, Zenon
  <2>3. IsJoined(w, s, Len(s), t, Len(t), u, Len(u)) /\ IsWith(r, t, Len(t), i, x)
    BY <1>2, <1>3, Zenon
  <2> QED BY <1>1, <2>1, <2>2, <2>3, PutIntoAt
<1>8. Len(v) = Len(s) + Len(t) + Len(u) + 1 /\ Len(z) = Len(v)
  BY <1>1, <1>2, <1>3, <1>4, <1>6
<1>9. v = z
  BY <1>4, <1>6, <1>7, <1>8, SeqEqual, Zenon
<1> QED BY <1>5, <1>9 DEF r, v, w, z

(* Two neighbours change places. *)
Pairs(s) == 1 .. Len(s) - 1
Exchanged(s, i) == [s EXCEPT ![i] = s[i + 1], ![i + 1] = s[i]]

LEMMA Neighbours ==
  ASSUME NEW S, NEW s \in Seq(S), NEW i \in 1 .. Len(s) - 1
  PROVE  /\ Exchanged(s, i) \in Seq(S)
         /\ Len(Exchanged(s, i)) = Len(s)
         /\ IsExchange(Exchanged(s, i), s, Len(s), i)
<1> DEFINE a == [s EXCEPT ![i] = s[i + 1]]
<1>1. Len(s) \in Nat /\ i \in 1 .. Len(s) /\ i + 1 \in 1 .. Len(s)
  BY LenProperties
<1>2. s[i] \in S /\ s[i + 1] \in S
  BY <1>1, ElementOfSeq
<1>3. a \in Seq(S) /\ Len(a) = Len(s)
      /\ \A j \in 1 .. Len(s) : a[j] = IF j = i THEN s[i + 1] ELSE s[j]
  BY <1>1, <1>2, ExceptSeq
<1>4. Exchanged(s, i) = [a EXCEPT ![i + 1] = s[i]]
  BY DEF Exchanged
<1> HIDE DEF a
<1>5. [a EXCEPT ![i + 1] = s[i]] \in Seq(S) /\ Len([a EXCEPT ![i + 1] = s[i]]) = Len(a)
      /\ \A j \in 1 .. Len(a) : [a EXCEPT ![i + 1] = s[i]][j] = IF j = i + 1 THEN s[i] ELSE a[j]
  BY <1>1, <1>2, <1>3, ExceptSeq
<1> QED BY <1>1, <1>3, <1>4, <1>5 DEF IsExchange

LEMMA ExchangedInAt ==
  ASSUME NEW a \in Nat, NEW b \in Nat, NEW c \in Nat, NEW i \in 1 .. b - 1,
         NEW s, NEW t, NEW u, NEW r, NEW w, NEW v, NEW z,
         IsJoined(w, s, a, t, b, u, c), IsExchange(r, t, b, i),
         IsJoined(v, s, a, r, b, u, c), IsExchange(z, w, a + b + c, a + i)
  PROVE  \A j \in 1 .. a + b + c : v[j] = z[j]
BY DEF IsJoined, IsExchange

LEMMA ExchangedInMiddle ==
  ASSUME NEW S, NEW s \in Seq(S), NEW t \in Seq(S), NEW u \in Seq(S),
         NEW i \in Pairs(t)
  PROVE  /\ Len(s) + i \in Pairs(s \o t \o u)
         /\ s \o Exchanged(t, i) \o u = Exchanged(s \o t \o u, Len(s) + i)
<1> USE DEF Pairs
<1> DEFINE w == s \o t \o u
           r == Exchanged(t, i)
           v == s \o r \o u
           z == Exchanged(w, Len(s) + i)
<1>1. Len(s) \in Nat /\ Len(t) \in Nat /\ Len(u) \in Nat
  BY LenProperties
<1>2. w \in Seq(S) /\ Len(w) = Len(s) + Len(t) + Len(u)
      /\ IsJoined(w, s, Len(s), t, Len(t), u, Len(u))
  BY Joined
<1>3. r \in Seq(S) /\ Len(r) = Len(t) /\ IsExchange(r, t, Len(t), i)
  BY Neighbours
<1> HIDE DEF r
<1>4. v \in Seq(S) /\ Len(v) = Len(s) + Len(r) + Len(u)
      /\ IsJoined(v, s, Len(s), r, Len(r), u, Len(u))
  <2>1. r \in Seq(S)
    BY <1>3
  <2> QED BY <2>1, Joined
<1>5. Len(s) + i \in 1 .. Len(w) - 1
  BY <1>1, <1>2
<1> HIDE DEF w, v
<1>6. z \in Seq(S) /\ Len(z) = Len(w) /\ IsExchange(z, w, Len(w), Len(s) + i)
  BY <1>2, <1>5, Neighbours
<1> HIDE DEF z
<1>7. \A j \in 1 .. Len(s) + Len(t) + Len(u) : v[j] = z[j]
  <2>1. IsJoined(v, s, Len(s), r, Len(t), u, Len(u))
    BY <1>3, <1>4, Zenon
  <2>2. IsExchange(z, w, Len(s) + Len(t) + Len(u), Len(s) + i)
    BY <1>2, <1>6, Zenon
  <2>3. IsJoined(w, s, Len(s), t, Len(t), u, Len(u)) /\ IsExchange(r, t, Len(t), i)
    BY <1>2, <1>3, Zenon
  <2> QED BY <1>1, <2>1, <2>2, <2>3, ExchangedInAt
<1>8. Len(v) = Len(s) + Len(t) + Len(u) /\ Len(z) = Len(v)
  BY <1>1, <1>2, <1>3, <1>4, <1>6
<1>9. v = z
  BY <1>4, <1>6, <1>7, <1>8, SeqEqual, Zenon
<1> QED BY <1>5, <1>9 DEF r, v, w, z

(* One element in front, at the end, or from one part to the other.         *)
LEMMA InFront ==
  ASSUME NEW S, NEW x \in S, NEW s \in Seq(S)
  PROVE  /\ <<x>> \o s \in Seq(S) /\ <<x>> \o s # <<>>
         /\ Head(<<x>> \o s) = x /\ Tail(<<x>> \o s) = s
<1>1. <<x>> \in Seq(S) /\ Len(<<x>>) = 1 /\ <<x>>[1] = x /\ Len(s) \in Nat
  OBVIOUS
<1> DEFINE w == <<x>> \o s
<1>2. w \in Seq(S) /\ Len(w) = 1 + Len(s)
      /\ \A j \in 1 .. 1 + Len(s) : w[j] = IF j <= 1 THEN <<x>>[j] ELSE s[j - 1]
  BY <1>1, ConcatProperties
<1> HIDE DEF w
<1>3. w # <<>> /\ Head(w) = x
  BY <1>1, <1>2
<1>4. Tail(w) \in Seq(S) /\ Len(Tail(w)) = Len(s)
      /\ \A j \in 1 .. Len(Tail(w)) : Tail(w)[j] = w[j + 1]
  BY <1>1, <1>2, <1>3, HeadTailProperties
<1>5. Tail(w) = s
  BY <1>1, <1>2, <1>4, SeqEqual
<1> QED BY <1>2, <1>3, <1>5 DEF w

LEMMA FirstOne ==
  ASSUME NEW S, NEW s \in Seq(S), s # <<>>
  PROVE  /\ Head(s) \in S /\ Tail(s) \in Seq(S)
         /\ s = <<Head(s)>> \o Tail(s)
         /\ 1 \in 1 .. Len(s) /\ Tail(s) = RemoveAt(s, 1)
<1>1. Head(s) \in S /\ Tail(s) \in Seq(S) /\ Len(Tail(s)) = Len(s) - 1
      /\ Len(s) \in Nat \ {0} /\ \A i \in 1 .. Len(Tail(s)) : Tail(s)[i] = s[i + 1]
  BY HeadTailProperties, EmptySeq
<1>2. Head(s) = s[1] /\ 1 \in 1 .. Len(s)
  BY <1>1
<1>3. RemoveAt(s, 1) \in Seq(S) /\ Len(RemoveAt(s, 1)) = Len(s) - 1
      /\ IsWithout(RemoveAt(s, 1), s, Len(s), 1)
  BY <1>2, TakenOut
<1>4. Tail(s) = RemoveAt(s, 1)
  BY <1>1, <1>3, SeqEqual DEF IsWithout
<1> DEFINE w == <<Head(s)>> \o Tail(s)
<1>5. <<Head(s)>> \in Seq(S) /\ Len(<<Head(s)>>) = 1 /\ <<Head(s)>>[1] = s[1]
  BY <1>1, <1>2
<1>6. w \in Seq(S) /\ Len(w) = 1 + (Len(s) - 1)
      /\ \A j \in 1 .. 1 + (Len(s) - 1) : w[j] = IF j <= 1 THEN s[1] ELSE Tail(s)[j - 1]
  BY <1>1, <1>5, ConcatProperties
<1> HIDE DEF w
<1>7. s = w
  BY <1>1, <1>6, SeqEqual
<1> QED BY <1>1, <1>2, <1>4, <1>7 DEF w

LEMMA PassedOn ==
  ASSUME NEW S, NEW x \in S, NEW s \in Seq(S), NEW t \in Seq(S)
  PROVE  Append(s, x) \o t = s \o (<<x>> \o t)
<1>1. <<x>> \in Seq(S) /\ Append(s, x) = s \o <<x>>
  BY AppendIsConcat
<1> QED BY <1>1, ConcatAssociative

LEMMA AtTheEnd ==
  ASSUME NEW S, NEW x \in S, NEW s \in Seq(S), NEW t \in Seq(S)
  PROVE  s \o Append(t, x) = Append(s \o t, x)
<1>1. <<x>> \in Seq(S) /\ Append(t, x) = t \o <<x>> /\ s \o t \in Seq(S)
  BY AppendIsConcat, ConcatProperties
<1>2. Append(s \o t, x) = (s \o t) \o <<x>>
  BY <1>1, AppendIsConcat
<1> QED BY <1>1, <1>2, ConcatAssociative

-----------------------------------------------------------------------------
(* The sending node's queue, whose one consumer is the sender's thread      *)

OutOK == Out!TypeOK /\ Out!WorksOutside

LEMMA OutInit == Out!Init => OutOK
BY DEF Out!Init, OutOK, Out!TypeOK, Out!WorksOutside, Out!States

LEMMA OutGoto ==
  ASSUME OutOK, NEW s \in Out!States, Out!Goto(Sender, s)
  PROVE  outPc' \in [{Sender} -> Out!States] /\ outPc'[Sender] = s
BY DEF OutOK, Out!TypeOK, Out!Goto

LEMMA OutEnqueue ==
  ASSUME OutOK, NEW x \in Data, Out!Enqueue(x)
  PROVE  /\ OutOK'
         /\ outQueue' = Append(outQueue, x) /\ outGot' = outGot
<1>1. outQueue' = Append(outQueue, x) /\ outGot' = outGot
  BY DEF Out!Enqueue
<1>2. outQueue' \in Seq(Data)
  BY <1>1 DEF OutOK, Out!TypeOK
<1>3. outPc' \in [{Sender} -> Out!States] /\ (outPc[Sender] = "out" => outPc'[Sender] = "out")
  <2>1. CASE UNCHANGED outPc
    BY <2>1 DEF OutOK, Out!TypeOK
  <2>2. ASSUME NEW c \in Out!Asleep, Out!Goto(c, "woken")
        PROVE  outPc' \in [{Sender} -> Out!States] /\ outPc[Sender] # "out"
    <3>1. c = Sender /\ outPc[Sender] = "asleep"
      BY DEF Out!Asleep
    <3> QED BY <2>2, <3>1, OutGoto DEF Out!States
  <2> QED BY <2>1, <2>2 DEF Out!Enqueue, Out!NotifyOne
<1> QED BY <1>1, <1>2, <1>3 DEF OutOK, Out!TypeOK, Out!WorksOutside

LEMMA OutTake ==
  ASSUME OutOK, Out!Take(Sender)
  PROVE  /\ OutOK'
         /\ outQueue # <<>> /\ Head(outQueue) \in Data
         /\ outQueue' = Tail(outQueue) /\ outGot'[Sender] = Head(outQueue)
<1>1. outQueue # <<>> /\ outQueue' = Tail(outQueue)
      /\ outGot' = [outGot EXCEPT ![Sender] = Head(outQueue)]
      /\ outPc' \in [{Sender} -> Out!States] /\ outPc'[Sender] = "out"
  BY OutGoto DEF Out!Take, Out!States
<1>2. outQueue \in Seq(Data) /\ outGot \in [{Sender} -> Data \cup {Nothing}]
  BY DEF OutOK, Out!TypeOK
<1>3. Head(outQueue) \in Data /\ Tail(outQueue) \in Seq(Data)
  BY <1>1, <1>2
<1> QED BY <1>1, <1>2, <1>3 DEF OutOK, Out!TypeOK, Out!WorksOutside

(* dequeue: the sender has taken a message, or all it did was to wait.      *)
LEMMA OutDequeues ==
  ASSUME OutOK, Out!Call(Sender) \/ Out!Resume(Sender)
  PROVE  /\ OutOK'
         /\ outGot[Sender] = Nothing
         /\ \/ Out!Take(Sender)
            \/ UNCHANGED <<outQueue, outGot>>
<1>1. outGot[Sender] = Nothing
  BY DEF Out!Call, Out!Resume, Out!Awake, Out!ReturnNothing, OutOK, Out!WorksOutside
<1>2. CASE Out!Take(Sender)
  BY <1>1, <1>2, OutTake
<1>3. CASE Out!Wait(Sender)
  BY <1>1, <1>3, OutGoto DEF Out!Wait, Out!States, OutOK, Out!TypeOK, Out!WorksOutside
<1>4. CASE Out!ReturnNothing(Sender)
  BY <1>1, <1>4, OutGoto DEF Out!ReturnNothing, Out!States, OutOK, Out!TypeOK, Out!WorksOutside
<1>5. Out!Take(Sender) \/ Out!Wait(Sender) \/ Out!ReturnNothing(Sender)
  BY DEF Out!Call, Out!Resume
<1>6. Out!Wait(Sender) \/ Out!ReturnNothing(Sender) => UNCHANGED <<outQueue, outGot>>
  BY DEF Out!Wait, Out!ReturnNothing
<1> QED BY <1>1, <1>2, <1>3, <1>4, <1>5, <1>6

LEMMA OutStirs ==
  ASSUME OutOK, Out!Stir(Sender)
  PROVE  OutOK' /\ UNCHANGED <<outQueue, outGot>>
<1>1. UNCHANGED <<outQueue, outGot>> /\ outPc[Sender] = "asleep"
  BY DEF Out!Stir, Out!Asleep
<1>2. outGot[Sender] = Nothing
  BY <1>1 DEF OutOK, Out!WorksOutside
<1>3. outPc' \in [{Sender} -> Out!States]
  BY OutGoto DEF Out!Stir, Out!States
<1> QED BY <1>1, <1>2, <1>3 DEF OutOK, Out!TypeOK, Out!WorksOutside

LEMMA OutDone ==
  ASSUME OutOK, Out!Done(Sender)
  PROVE  /\ OutOK'
         /\ outGot[Sender] \in Data
         /\ outQueue' = outQueue /\ outGot'[Sender] = Nothing
<1>1. outGot[Sender] # Nothing /\ outQueue' = outQueue /\ outPc' = outPc
      /\ outGot' = [outGot EXCEPT ![Sender] = Nothing]
  BY DEF Out!Done
<1>2. outGot \in [{Sender} -> Data \cup {Nothing}]
  BY DEF OutOK, Out!TypeOK
<1> QED BY <1>1, <1>2 DEF OutOK, Out!TypeOK, Out!WorksOutside

-----------------------------------------------------------------------------
(* The way from thread to thread: types                                     *)

Datagrams == Messages \cup {Foreign}

LInv == LinkTypeOK /\ Out!WorksOutside

LEMMA DistinctThings ==
  /\ Data = Messages /\ Nothing \notin Messages
  /\ Foreign \notin Messages /\ Foreign # Nothing
BY DataAssumption, MessagesAssumption

LEMMA LinkTypes ==
  ASSUME LInv
  PROVE  /\ TypeOK /\ OutOK
         /\ queue \in Seq(Datagrams) /\ outQueue \in Seq(Datagrams)
         /\ socket \in Seq(Datagrams)
         /\ outGot[Sender] \in Datagrams \cup {Nothing}
         /\ hand \in Datagrams \cup {Nothing}
<1>1. TypeOK /\ OutOK
  BY DEF LInv, LinkTypeOK, OutOK
<1>2. queue \in Seq(Messages) /\ outQueue \in Seq(Messages)
      /\ outGot \in [{Sender} -> Messages \cup {Nothing}]
  BY <1>1, DistinctThings DEF OutOK, TypeOK, Out!TypeOK
<1>3. Messages \subseteq Datagrams
  BY DEF Datagrams
<1>4. queue \in Seq(Datagrams) /\ outQueue \in Seq(Datagrams)
  BY <1>2, <1>3, SeqMonotonic
<1>5. socket \in Seq(Datagrams) /\ hand \in Datagrams \cup {Nothing}
  BY DEF LInv, LinkTypeOK, Datagrams
<1>6. outGot[Sender] \in Datagrams \cup {Nothing}
  BY <1>2, <1>3
<1> QED BY <1>1, <1>4, <1>5, <1>6

LEMMA MessageTypes ==
  /\ \A n \in 1 .. MaxSent, a \in BOOLEAN : Message("peer", n, a) \in Messages
  /\ \A n \in 1 .. MaxOwn : Message("own", n, TRUE) \in Own
  /\ Own \subseteq Messages
BY DEF Message, Messages, Own

LEMMA MishapType ==
  ASSUME LinkTypeOK, NEW kind \in Kinds, Mishap(kind)
  PROVE  /\ mishaps' \subseteq Kinds /\ Cardinality(mishaps') <= MaxMishaps
         /\ UNCHANGED <<receiving, sending, hand, sent, own>>
<1>1. mishaps \subseteq Kinds /\ IsFiniteSet(Kinds)
  <2>1. IsFiniteSet({"loss"}) /\ IsFiniteSet({"repeat"}) /\ IsFiniteSet({"overtake"})
        /\ IsFiniteSet({"stray"})
    BY FS_Singleton
  <2>2. Kinds = {"loss"} \cup {"repeat"} \cup {"overtake"} \cup {"stray"}
    BY DEF Kinds
  <2> QED BY <2>1, <2>2, FS_Union DEF LinkTypeOK
<1>2. IsFiniteSet(mishaps) /\ Cardinality(mishaps) \in Nat
  BY <1>1, FS_Subset, FS_CardinalityType
<1>3. kind \notin mishaps /\ Cardinality(mishaps) < MaxMishaps
      /\ mishaps' = mishaps \cup {kind}
  BY DEF Mishap
<1>4. Cardinality(mishaps') = Cardinality(mishaps) + 1
  BY <1>2, <1>3, FS_AddElement
<1> QED BY <1>1, <1>2, <1>3, <1>4, BoundsAssumption DEF Mishap

(* A step of the way is one of the receiving node's queue, or none of it.   *)
LEMMA ReceivingStep == LInv /\ [LinkNext]_linkVars => [Next]_vars
<1> SUFFICES ASSUME LInv, [LinkNext]_linkVars PROVE [Next]_vars
  OBVIOUS
<1>1. ASSUME NEW kind, Mishap(kind) PROVE UNCHANGED vars
  BY <1>1 DEF Mishap, receiving
<1>2. ASSUME NEW c \in Consumers, ReaderDequeues(c) \/ ReaderStirs(c) \/ ReaderIsDone(c)
      PROVE  Next
  BY <1>2 DEF ReaderDequeues, ReaderStirs, ReaderIsDone, Next
<1>3. CASE PassOn
  BY <1>3, DistinctThings DEF PassOn, Next
<1>4. CASE Put
  <2>1. own' \in 1 .. MaxOwn /\ Enqueue(Message("own", own', TRUE))
    <3>1. own \in 0 .. MaxOwn
      BY DEF LInv, LinkTypeOK
    <3>2. own < MaxOwn /\ own' = own + 1 /\ Enqueue(Message("own", own', TRUE))
      BY <1>4 DEF Put
    <3>3. own' \in 1 .. MaxOwn
      BY <3>1, <3>2, BoundsAssumption
    <3> QED BY <3>2, <3>3
  <2>2. Message("own", own', TRUE) \in Data
    BY <2>1, MessageTypes, DistinctThings
  <2> QED BY <2>1, <2>2 DEF Next
<1>5. CASE \E a \in BOOLEAN : Send(a)
  BY <1>5 DEF Send, receiving
<1>6. CASE SenderDequeues \/ SenderStirs \/ SendPacket
  BY <1>6 DEF SenderDequeues, SenderStirs, SendPacket, receiving
<1>7. CASE Receive \/ Reject \/ Restart
  BY <1>7 DEF Receive, Reject, Restart, receiving
<1>8. CASE Lose \/ Repeat \/ Overtake \/ Stray
  BY <1>1, <1>8 DEF Lose, Repeat, Overtake, Stray
<1>9. CASE UNCHANGED linkVars
  BY <1>9 DEF linkVars
<1> QED BY <1>2, <1>3, <1>4, <1>5, <1>6, <1>7, <1>8, <1>9 DEF LinkNext, Transport

(* Nor does it do to the sending one's what that is not made for.           *)
LEMMA SendingStep == LInv /\ [LinkNext]_linkVars => [Out!Next]_(Out!vars)
<1> SUFFICES ASSUME LInv, [LinkNext]_linkVars, ~UNCHANGED sending PROVE Out!Next
  BY DEF sending, Out!vars
<1>1. ASSUME NEW a \in BOOLEAN, Send(a) PROVE Out!Next
  <2>1. sent \in 0 .. MaxSent
    BY DEF LInv, LinkTypeOK
  <2>2. sent < MaxSent /\ sent' = sent + 1 /\ Out!Enqueue(Message("peer", sent', a))
    BY <1>1 DEF Send
  <2>3. sent' \in 1 .. MaxSent
    BY <2>1, <2>2, BoundsAssumption
  <2>4. Message("peer", sent', a) \in Data
    BY <2>3, MessageTypes, DistinctThings
  <2> QED BY <2>2, <2>4 DEF Out!Next
<1>2. CASE SenderDequeues \/ SenderStirs \/ SendPacket
  BY <1>2 DEF SenderDequeues, SenderStirs, SendPacket, Out!Next
<1>3. ~(Lose \/ Repeat \/ Overtake \/ Stray)
  BY DEF Lose, Repeat, Overtake, Stray, Mishap
<1>4. ~(Receive \/ PassOn \/ Reject \/ Restart \/ Put)
  BY DEF Receive, PassOn, Reject, Restart, Put
<1>5. ~\E c \in Consumers : ReaderDequeues(c) \/ ReaderStirs(c) \/ ReaderIsDone(c)
  BY DEF ReaderDequeues, ReaderStirs, ReaderIsDone
<1>6. ~UNCHANGED linkVars
  BY DEF linkVars
<1> QED BY <1>1, <1>2, <1>3, <1>4, <1>5, <1>6 DEF LinkNext, Transport

LEMMA LinkInitInvariant == LinkInit => LInv
<1> SUFFICES ASSUME LinkInit PROVE LInv
  OBVIOUS
<1>1. TypeOK
  BY TypeInit DEF LinkInit
<1>2. Out!TypeOK /\ Out!WorksOutside
  BY OutInit DEF LinkInit, OutOK
<1>3. Cardinality({}) = 0
  BY FS_EmptySet
<1> QED BY <1>1, <1>2, <1>3, BoundsAssumption DEF LinkInit, LInv, LinkTypeOK

LEMMA LinkInvariantStep == LInv /\ [LinkNext]_linkVars => LInv'
<1> SUFFICES ASSUME LInv, [LinkNext]_linkVars PROVE LInv'
  OBVIOUS
<1>0. TypeOK' /\ OutOK
  BY ReceivingStep, TypeStep, LinkTypes
<1>t. /\ socket \in Seq(Datagrams) /\ hand \in Datagrams \cup {Nothing}
      /\ sent \in 0 .. MaxSent /\ own \in 0 .. MaxOwn
      /\ mishaps \subseteq Kinds /\ Cardinality(mishaps) <= MaxMishaps
  BY DEF LInv, LinkTypeOK, Datagrams
<1>q. ASSUME OutOK', socket' \in Seq(Datagrams), hand' \in Datagrams \cup {Nothing},
             sent' \in 0 .. MaxSent, own' \in 0 .. MaxOwn,
             mishaps' \subseteq Kinds, Cardinality(mishaps') <= MaxMishaps
      PROVE  LInv'
  BY <1>0, <1>q DEF LInv, LinkTypeOK, Datagrams, OutOK
<1>u. ASSUME UNCHANGED sending PROVE OutOK'
  BY <1>0, <1>u DEF sending, OutOK, Out!TypeOK, Out!WorksOutside
<1>1. ASSUME NEW a \in BOOLEAN, Send(a) PROVE LInv'
  <2>1. sent' \in 1 .. MaxSent /\ Out!Enqueue(Message("peer", sent', a))
        /\ UNCHANGED <<socket, hand, own, mishaps>>
    <3>1. sent < MaxSent /\ sent' = sent + 1 /\ Out!Enqueue(Message("peer", sent', a))
          /\ UNCHANGED <<socket, hand, own, mishaps>>
      BY <1>1 DEF Send
    <3>2. sent' \in 1 .. MaxSent
      BY <3>1, <1>t, BoundsAssumption
    <3> QED BY <3>1, <3>2
  <2>2. Message("peer", sent', a) \in Data
    BY <2>1, MessageTypes, DistinctThings
  <2> QED BY <1>0, <1>t, <1>q, <2>1, <2>2, OutEnqueue
<1>2. CASE SenderDequeues
  BY <1>0, <1>2, <1>t, <1>q, OutDequeues DEF SenderDequeues, counters
<1>3. CASE SenderStirs
  BY <1>0, <1>3, <1>t, <1>q, OutStirs DEF SenderStirs, counters
<1>4. CASE SendPacket
  <2>1. OutOK' /\ outGot[Sender] \in Datagrams
    BY <1>0, <1>4, OutDone, DistinctThings DEF SendPacket, Datagrams
  <2>2. socket' \in Seq(Datagrams)
    BY <1>4, <1>t, <2>1 DEF SendPacket
  <2> QED BY <1>4, <1>t, <1>q, <2>1, <2>2 DEF SendPacket, counters
<1>5. ASSUME NEW kind \in Kinds, Mishap(kind), socket' \in Seq(Datagrams) PROVE LInv'
  <2>1. /\ mishaps' \subseteq Kinds /\ Cardinality(mishaps') <= MaxMishaps
        /\ UNCHANGED <<sending, hand, sent, own>>
    BY <1>5, MishapType DEF LInv
  <2> QED BY <1>5, <1>t, <1>q, <1>u, <2>1
<1>6. CASE Lose
  <2>1. PICK i \in DOMAIN socket : socket' = RemoveAt(socket, i)
    BY <1>6 DEF Lose
  <2>2. socket' \in Seq(Datagrams)
    BY <1>t, <2>1, TakenOut
  <2> QED BY <1>5, <1>6, <2>2 DEF Lose, Kinds
<1>7. CASE Repeat
  <2>1. PICK i \in DOMAIN socket : socket' = InsertAt(socket, i, socket[i])
    BY <1>7 DEF Repeat
  <2>2. i \in 1 .. Len(socket) + 1 /\ socket[i] \in Datagrams
    BY <1>t, <2>1
  <2>3. socket' \in Seq(Datagrams)
    BY <1>t, <2>1, <2>2, PutIn
  <2> QED BY <1>5, <1>7, <2>3 DEF Repeat, Kinds
<1>8. CASE Overtake
  <2>1. PICK i \in DOMAIN socket \ {1} :
          socket' = [socket EXCEPT ![i - 1] = socket[i], ![i] = socket[i - 1]]
    BY <1>8 DEF Overtake
  <2>2. i - 1 \in 1 .. Len(socket) - 1 /\ (i - 1) + 1 = i
    BY <1>t, <2>1
  <2>3. socket' = Exchanged(socket, i - 1)
    BY <2>1, <2>2 DEF Exchanged
  <2>4. socket' \in Seq(Datagrams)
    BY <1>t, <2>2, <2>3, Neighbours
  <2> QED BY <1>5, <1>8, <2>4 DEF Overtake, Kinds
<1>9. CASE Stray
  <2>1. socket' \in Seq(Datagrams)
    BY <1>9, <1>t DEF Stray, Datagrams
  <2> QED BY <1>5, <1>9, <2>1 DEF Stray, Kinds
<1>10. CASE Receive
  <2>1. hand' \in Datagrams /\ socket' \in Seq(Datagrams)
    BY <1>10, <1>t DEF Receive
  <2> QED BY <1>10, <1>t, <1>q, <1>u, <2>1 DEF Receive, counters
<1>11. CASE PassOn \/ Reject \/ Restart
  BY <1>11, <1>t, <1>q, <1>u DEF PassOn, Reject, Restart, counters
<1>12. CASE Put
  <2>1. own' \in 0 .. MaxOwn
    <3>1. own < MaxOwn /\ own' = own + 1
      BY <1>12 DEF Put
    <3> QED BY <3>1, <1>t, BoundsAssumption
  <2> QED BY <1>12, <1>t, <1>q, <1>u, <2>1 DEF Put
<1>13. ASSUME NEW c \in Consumers, ReaderDequeues(c) \/ ReaderStirs(c) \/ ReaderIsDone(c)
       PROVE  LInv'
  BY <1>13, <1>t, <1>q, <1>u DEF ReaderDequeues, ReaderStirs, ReaderIsDone, counters
<1>14. CASE UNCHANGED linkVars
  BY <1>14, <1>t, <1>q, <1>u DEF linkVars, counters
<1> QED BY <1>1, <1>2, <1>3, <1>4, <1>6, <1>7, <1>8, <1>9, <1>10, <1>11, <1>12, <1>13, <1>14
        DEF LinkNext, Transport

(* Whatever the network does, the queues hold messages, and the receiver's  *)
(* loop has a datagram in hand or none.                                     *)
THEOREM LinkTypeCorrect == LinkSpec => []LinkTypeOK
<1>1. LInv => LinkTypeOK
  BY DEF LInv
<1> QED BY <1>1, LinkInitInvariant, LinkInvariantStep, PTL DEF LinkSpec

(* Both ends of the way are queues as ConcurrentQueue has them, so that what*)
(* holds of one holds there: nobody oversleeps, first in is first out.      *)
THEOREM EndsAreQueues == LinkSpec => Spec /\ Out!Spec
<1>1. LinkInit => Init /\ Out!Init
  BY DEF LinkInit
<1> QED BY <1>1, ReceivingStep, SendingStep, LinkInitInvariant, LinkInvariantStep, PTL
        DEF LinkSpec, Spec, Out!Spec

(* On the way between two nodes too, whoever reads the queue at its end     *)
(* does not oversleep and reads in the order of arrival.                    *)
THEOREM ReadersOfTheWay == LinkSpec => []NobodyOversleeps /\ ImplementsFifo
BY EndsAreQueues, NobodyEverOversleeps, Refinement, PTL

-----------------------------------------------------------------------------
(* What the steps do to what is on the way                                  *)

LEMMA HandTypes ==
  ASSUME NEW S, NEW x \in S \cup {Nothing}, Nothing \notin S
  PROVE  /\ InHand(x) \in Seq(S)
         /\ x \in S => InHand(x) = <<x>>
         /\ x = Nothing => InHand(x) = <<>>
BY DEF InHand

LEMMA WayTypes ==
  ASSUME LInv
  PROVE  /\ InHand(hand) \in Seq(Datagrams) /\ socket \in Seq(Datagrams)
         /\ Unsent \in Seq(Datagrams) /\ Way \in Seq(Datagrams)
         /\ queue \in Seq(Datagrams) /\ Nothing \notin Datagrams
<1>1. Nothing \notin Datagrams
  BY DistinctThings DEF Datagrams
<1>2. InHand(hand) \in Seq(Datagrams) /\ InHand(outGot[Sender]) \in Seq(Datagrams)
      /\ socket \in Seq(Datagrams) /\ outQueue \in Seq(Datagrams) /\ queue \in Seq(Datagrams)
  BY <1>1, LinkTypes, HandTypes
<1>3. Unsent \in Seq(Datagrams)
  BY <1>2, ConcatProperties DEF Unsent
<1> QED BY <1>1, <1>2, <1>3, Joined DEF Way

LEMMA SendEffect ==
  ASSUME LInv, NEW a \in BOOLEAN, Send(a)
  PROVE  /\ sent' = sent + 1 /\ Message("peer", sent', a) \in Messages \ Own
         /\ Way' = Append(Way, Message("peer", sent', a))
         /\ UNCHANGED <<queue, mishaps>>
<1> DEFINE m == Message("peer", sent', a)
<1>1. sent < MaxSent /\ sent' = sent + 1 /\ Out!Enqueue(m)
      /\ UNCHANGED <<receiving, socket, hand, own, mishaps>>
  BY DEF Send
<1>2. sent' \in 1 .. MaxSent
  <2>1. sent \in 0 .. MaxSent
    BY DEF LInv, LinkTypeOK
  <2> QED BY <1>1, <2>1, BoundsAssumption
<1>3. m \in Messages /\ m \notin Own /\ m \in Datagrams
  BY <1>2, MessageTypes DEF Message, Own, Datagrams
<1> HIDE DEF m
<1>4. outQueue' = Append(outQueue, m) /\ outGot' = outGot
  BY <1>1, <1>3, LinkTypes, OutEnqueue, DistinctThings
<1>5. Unsent' = Append(Unsent, m)
  <2>1. InHand(outGot[Sender]) \in Seq(Datagrams) /\ outQueue \in Seq(Datagrams)
    BY LinkTypes, WayTypes, HandTypes
  <2>2. Unsent' = InHand(outGot[Sender]) \o Append(outQueue, m)
    BY <1>4 DEF Unsent, InHand
  <2> QED BY <1>3, <2>1, <2>2, AtTheEnd DEF Unsent
<1>6. Way' = Append(Way, m)
  <2>1. Way' = InHand(hand) \o socket \o Append(Unsent, m)
    BY <1>1, <1>5 DEF Way, InHand
  <2>2. InHand(hand) \o socket \in Seq(Datagrams)
    BY WayTypes, ConcatProperties
  <2> QED BY <1>3, <2>1, <2>2, WayTypes, AtTheEnd DEF Way
<1> QED BY <1>1, <1>3, <1>6 DEF m, receiving, vars

(* What goes from one part of the way to the next stays in its place.       *)
LEMMA DequeueEffect ==
  ASSUME LInv, SenderDequeues \/ SenderStirs
  PROVE  UNCHANGED <<Way, queue, sent, mishaps>>
<1>1. UNCHANGED <<receiving, socket, hand, counters>>
  BY DEF SenderDequeues, SenderStirs
<1>2. Unsent' = Unsent
  <2>1. CASE UNCHANGED <<outQueue, outGot>>
    BY <2>1 DEF Unsent, InHand
  <2>2. CASE Out!Take(Sender) /\ outGot[Sender] = Nothing
    <3>1. outQueue # <<>> /\ Head(outQueue) \in Datagrams
          /\ outQueue' = Tail(outQueue) /\ outGot'[Sender] = Head(outQueue)
      BY <2>2, LinkTypes, OutTake, DistinctThings DEF Datagrams
    <3>2. Unsent' = <<Head(outQueue)>> \o Tail(outQueue)
      BY <3>1, WayTypes DEF Unsent, InHand
    <3>3. Unsent = <<>> \o outQueue
      BY <2>2 DEF Unsent, InHand
    <3> QED BY <3>1, <3>2, <3>3, LinkTypes, FirstOne, ConcatEmptySeq
  <2> QED BY <2>1, <2>2, LinkTypes, OutDequeues, OutStirs DEF SenderDequeues, SenderStirs
<1> QED BY <1>1, <1>2 DEF Way, InHand, receiving, vars, counters

LEMMA SendPacketEffect ==
  ASSUME LInv, SendPacket
  PROVE  UNCHANGED <<Way, queue, sent, mishaps>>
<1> DEFINE m == outGot[Sender]
<1>1. m \in Datagrams /\ outQueue' = outQueue /\ outGot'[Sender] = Nothing
  BY LinkTypes, OutDone, DistinctThings DEF SendPacket, Datagrams
<1>2. socket' = Append(socket, m) /\ UNCHANGED <<receiving, hand, counters>>
  BY DEF SendPacket
<1>3. Unsent = <<m>> \o outQueue
  BY <1>1, WayTypes DEF Unsent, InHand
<1> HIDE DEF m
<1>4. Unsent' = outQueue
  <2>1. Unsent' = <<>> \o outQueue
    BY <1>1 DEF Unsent, InHand
  <2> QED BY <2>1, LinkTypes, ConcatEmptySeq
<1> DEFINE h == InHand(hand)
<1>5. h \in Seq(Datagrams) /\ socket \in Seq(Datagrams) /\ outQueue \in Seq(Datagrams)
      /\ <<m>> \o outQueue \in Seq(Datagrams)
  BY <1>1, <1>3, WayTypes, LinkTypes
<1>6. Way' = h \o Append(socket, m) \o outQueue /\ Way = h \o socket \o (<<m>> \o outQueue)
  BY <1>2, <1>3, <1>4 DEF Way, InHand
<1> HIDE DEF h
<1>7. h \o Append(socket, m) = Append(h \o socket, m) /\ h \o socket \in Seq(Datagrams)
  BY <1>1, <1>5, AtTheEnd, ConcatProperties
<1>8. Append(h \o socket, m) \o outQueue = (h \o socket) \o (<<m>> \o outQueue)
  <2> DEFINE g == h \o socket
  <2>1. g \in Seq(Datagrams)
    BY <1>7
  <2> HIDE DEF g
  <2>2. Append(g, m) \o outQueue = g \o (<<m>> \o outQueue)
    BY <1>1, <1>5, <2>1, PassedOn
  <2> QED BY <2>2 DEF g
<1> QED BY <1>2, <1>6, <1>7, <1>8 DEF receiving, vars, counters

LEMMA ReceiveEffect ==
  ASSUME LInv, Receive
  PROVE  UNCHANGED <<Way, queue, sent, mishaps>>
<1>1. hand = Nothing /\ socket # <<>> /\ hand' = Head(socket) /\ socket' = Tail(socket)
      /\ UNCHANGED <<receiving, sending, counters>>
  BY DEF Receive
<1>2. socket \in Seq(Datagrams) /\ Head(socket) \in Datagrams
      /\ socket = <<Head(socket)>> \o Tail(socket)
  BY <1>1, WayTypes, FirstOne
<1>3. InHand(hand) = <<>> /\ InHand(hand)' = <<Head(socket)>> /\ Unsent' = Unsent
  BY <1>1, <1>2, WayTypes DEF InHand, Unsent, sending
<1>4. Way' = <<Head(socket)>> \o Tail(socket) \o Unsent /\ Way = <<>> \o socket \o Unsent
  BY <1>1, <1>3 DEF Way
<1> QED BY <1>1, <1>2, <1>4, ConcatEmptySeq DEF receiving, vars, counters

(* The network takes out, repeats, exchanges and adds.                      *)
LEMMA MishapEffect ==
  ASSUME NEW kind, Mishap(kind)
  PROVE  /\ kind \in mishaps'
         /\ Way' = InHand(hand) \o socket' \o Unsent
         /\ UNCHANGED <<queue, sent>> /\ mishaps \subseteq mishaps'
BY DEF Mishap, receiving, vars, sending, Way, Unsent, InHand

(* The socket is the middle of the way.                                     *)
LEMMA OnTheWay ==
  ASSUME LInv
  PROVE  /\ \A i \in 1 .. Len(socket) :
              /\ Len(InHand(hand)) + i \in 1 .. Len(Way)
              /\ InHand(hand) \o RemoveAt(socket, i) \o Unsent
                   = RemoveAt(Way, Len(InHand(hand)) + i)
         /\ \A i \in Gaps(socket), x \in Datagrams :
              /\ Len(InHand(hand)) + i \in Gaps(Way)
              /\ InHand(hand) \o InsertAt(socket, i, x) \o Unsent
                   = InsertAt(Way, Len(InHand(hand)) + i, x)
         /\ \A i \in Pairs(socket) :
              /\ Len(InHand(hand)) + i \in Pairs(Way)
              /\ InHand(hand) \o Exchanged(socket, i) \o Unsent
                   = Exchanged(Way, Len(InHand(hand)) + i)
<1> DEFINE h == InHand(hand)
<1>1. h \in Seq(Datagrams) /\ socket \in Seq(Datagrams) /\ Unsent \in Seq(Datagrams)
  BY WayTypes
<1>2. Way = h \o socket \o Unsent
  BY DEF Way
<1> HIDE DEF h
<1>3. ASSUME NEW i \in 1 .. Len(socket)
      PROVE  /\ Len(h) + i \in 1 .. Len(h \o socket \o Unsent)
             /\ h \o RemoveAt(socket, i) \o Unsent = RemoveAt(h \o socket \o Unsent, Len(h) + i)
  BY <1>1, TakenOutOfMiddle
<1>4. ASSUME NEW i \in Gaps(socket), NEW x \in Datagrams
      PROVE  /\ Len(h) + i \in Gaps(h \o socket \o Unsent)
             /\ h \o InsertAt(socket, i, x) \o Unsent = InsertAt(h \o socket \o Unsent, Len(h) + i, x)
  BY <1>1, PutIntoMiddle
<1>5. ASSUME NEW i \in Pairs(socket)
      PROVE  /\ Len(h) + i \in Pairs(h \o socket \o Unsent)
             /\ h \o Exchanged(socket, i) \o Unsent = Exchanged(h \o socket \o Unsent, Len(h) + i)
  BY <1>1, ExchangedInMiddle
<1> QED BY <1>2, <1>3, <1>4, <1>5, Zenon DEF h

LEMMA LoseEffect ==
  ASSUME LInv, Lose
  PROVE  /\ UNCHANGED <<queue, sent>> /\ mishaps \subseteq mishaps'
         /\ \E i \in DOMAIN Way : Way' = RemoveAt(Way, i)
<1>1. PICK i \in DOMAIN socket : socket' = RemoveAt(socket, i)
  BY DEF Lose
<1>2. i \in 1 .. Len(socket)
  BY <1>1, WayTypes
<1>3. Way' = InHand(hand) \o RemoveAt(socket, i) \o Unsent
      /\ UNCHANGED <<queue, sent>> /\ mishaps \subseteq mishaps'
  BY <1>1, MishapEffect DEF Lose
<1>4. /\ Len(InHand(hand)) + i \in 1 .. Len(Way)
      /\ Way' = RemoveAt(Way, Len(InHand(hand)) + i)
  BY <1>2, <1>3, OnTheWay
<1> QED BY <1>3, <1>4, WayTypes

LEMMA RepeatEffect ==
  ASSUME LInv, Repeat
  PROVE  /\ UNCHANGED <<queue, sent>> /\ "repeat" \in mishaps'
         /\ \E i \in DOMAIN Way : Way' = InsertAt(Way, i, Way[i])
<1>1. PICK i \in DOMAIN socket : socket' = InsertAt(socket, i, socket[i])
  BY DEF Repeat
<1>2. i \in 1 .. Len(socket) /\ socket[i] \in Datagrams /\ Len(socket) \in Nat
  BY <1>1, WayTypes
<1>3. Way' = InHand(hand) \o InsertAt(socket, i, socket[i]) \o Unsent
      /\ UNCHANGED <<queue, sent>> /\ "repeat" \in mishaps'
  BY <1>1, MishapEffect DEF Repeat
<1>4. i \in 1 .. Len(socket) + 1
  BY <1>2
<1>5. Way' = InsertAt(Way, Len(InHand(hand)) + i, socket[i])
  BY <1>2, <1>3, <1>4, OnTheWay DEF Gaps
<1>6. Len(InHand(hand)) + i \in DOMAIN Way /\ Way[Len(InHand(hand)) + i] = socket[i]
  <2>1. /\ Len(InHand(hand)) \in Nat /\ Len(Unsent) \in Nat
        /\ Len(Way) = Len(InHand(hand)) + Len(socket) + Len(Unsent)
        /\ IsJoined(Way, InHand(hand), Len(InHand(hand)), socket, Len(socket), Unsent, Len(Unsent))
    BY WayTypes, LenProperties, Joined DEF Way
  <2> QED BY <1>2, <2>1, WayTypes DEF IsJoined
<1> QED BY <1>3, <1>5, <1>6

LEMMA OvertakeEffect ==
  ASSUME LInv, Overtake
  PROVE  /\ UNCHANGED <<queue, sent>> /\ "overtake" \in mishaps'
         /\ \E i \in DOMAIN Way : i + 1 \in DOMAIN Way /\ Way' = Exchanged(Way, i)
<1>1. PICK i \in DOMAIN socket \ {1} :
        socket' = [socket EXCEPT ![i - 1] = socket[i], ![i] = socket[i - 1]]
  BY DEF Overtake
<1>2. i - 1 \in 1 .. Len(socket) - 1 /\ (i - 1) + 1 = i
  BY <1>1, WayTypes
<1>3. socket' = Exchanged(socket, i - 1)
  BY <1>1, <1>2 DEF Exchanged
<1>4. Way' = InHand(hand) \o Exchanged(socket, i - 1) \o Unsent
      /\ UNCHANGED <<queue, sent>> /\ "overtake" \in mishaps'
  BY <1>3, MishapEffect DEF Overtake
<1> DEFINE k == Len(InHand(hand)) + (i - 1)
<1>5. k \in 1 .. Len(Way) - 1 /\ Way' = Exchanged(Way, k)
  BY <1>2, <1>4, OnTheWay DEF Pairs
<1> HIDE DEF k
<1>6. k \in DOMAIN Way /\ k + 1 \in DOMAIN Way
  BY <1>5, WayTypes
<1> QED BY <1>4, <1>5, <1>6

LEMMA StrayEffect ==
  ASSUME LInv, Stray
  PROVE  /\ UNCHANGED <<queue, sent>> /\ mishaps \subseteq mishaps'
         /\ \E i \in 1 .. Len(Way) + 1 : Way' = InsertAt(Way, i, Foreign)
<1> DEFINE n == Len(socket) + 1
<1>1. Foreign \in Datagrams /\ n \in 1 .. Len(socket) + 1
  BY WayTypes DEF Datagrams
<1>2. Append(socket, Foreign) = InsertAt(socket, n, Foreign)
  <2>1. Append(socket, Foreign) \in Seq(Datagrams) /\ Len(Append(socket, Foreign)) = Len(socket) + 1
        /\ \A i \in 1 .. Len(socket) : Append(socket, Foreign)[i] = socket[i]
        /\ Append(socket, Foreign)[Len(socket) + 1] = Foreign
    BY <1>1, WayTypes, AppendProperties
  <2>2. InsertAt(socket, n, Foreign) \in Seq(Datagrams)
        /\ Len(InsertAt(socket, n, Foreign)) = Len(socket) + 1
        /\ IsWith(InsertAt(socket, n, Foreign), socket, Len(socket), n, Foreign)
    BY <1>1, WayTypes, PutIn
  <2>3. \A i \in 1 .. Len(socket) + 1 :
          InsertAt(socket, n, Foreign)[i] = IF i = n THEN Foreign ELSE socket[i]
    BY <2>2, WayTypes DEF IsWith
  <2>4. \A i \in 1 .. Len(socket) + 1 :
          Append(socket, Foreign)[i] = InsertAt(socket, n, Foreign)[i]
    BY <2>1, <2>3, WayTypes
  <2> QED BY <2>1, <2>2, <2>4, SeqEqual
<1>3. Way' = InHand(hand) \o InsertAt(socket, n, Foreign) \o Unsent
      /\ UNCHANGED <<queue, sent>> /\ mishaps \subseteq mishaps'
  BY <1>2, MishapEffect DEF Stray
<1> HIDE DEF n
<1>4. /\ Len(InHand(hand)) + n \in 1 .. Len(Way) + 1
      /\ Way' = InsertAt(Way, Len(InHand(hand)) + n, Foreign)
  BY <1>1, <1>3, OnTheWay DEF Gaps
<1> QED BY <1>3, <1>4

(* The receiver's loop deals with what it has in hand.                      *)
Welcome == {m \in Messages : m.accepted}

LEMMA ArriveEffect ==
  ASSUME LInv, PassOn \/ Reject \/ Restart
  PROVE  /\ Way # <<>> /\ Head(Way) = hand /\ Way' = Tail(Way)
         /\ UNCHANGED <<sent, mishaps>>
         /\ queue' = IF hand \in Welcome THEN Append(queue, hand) ELSE queue
<1>1. hand \in Datagrams /\ hand' = Nothing /\ UNCHANGED <<sending, socket, sent, mishaps>>
  BY DEF PassOn, Reject, Restart, Datagrams, counters
<1>2. queue' = IF hand \in Welcome THEN Append(queue, hand) ELSE queue
  BY DistinctThings DEF PassOn, Reject, Restart, Welcome, Enqueue, receiving, vars
<1> DEFINE rest == socket \o Unsent
<1>3. rest \in Seq(Datagrams)
  BY WayTypes, ConcatProperties
<1>4. Way = <<hand>> \o rest /\ Way' = <<>> \o rest
  <2>1. InHand(hand) = <<hand>> /\ InHand(hand)' = <<>> /\ Unsent' = Unsent
    BY <1>1, WayTypes DEF InHand, Unsent, sending
  <2>2. Way = <<hand>> \o socket \o Unsent /\ Way' = <<>> \o socket \o Unsent
    BY <1>1, <2>1 DEF Way
  <2>3. <<hand>> \in Seq(Datagrams) /\ <<>> \in Seq(Datagrams)
    BY <1>1
  <2> QED BY <2>2, <2>3, WayTypes, ConcatAssociative
<1> HIDE DEF rest
<1>5. <<>> \o rest = rest
  BY <1>3, ConcatEmptySeq
<1> QED BY <1>1, <1>2, <1>3, <1>4, <1>5, InFront

LEMMA PutEffect ==
  ASSUME LInv, Put
  PROVE  /\ UNCHANGED <<Way, sent, mishaps>>
         /\ \E m \in Own : queue' = Append(queue, m)
<1>1. own' \in 1 .. MaxOwn
  <2>1. own \in 0 .. MaxOwn
    BY DEF LInv, LinkTypeOK
  <2>2. own < MaxOwn /\ own' = own + 1
    BY DEF Put
  <2> QED BY <2>1, <2>2, BoundsAssumption
<1>2. Message("own", own', TRUE) \in Own
  BY <1>1, MessageTypes
<1> QED BY <1>2 DEF Put, Enqueue, Way, Unsent, InHand, sending

LEMMA ReadEffect ==
  ASSUME NEW c \in Consumers, ReaderDequeues(c) \/ ReaderStirs(c) \/ ReaderIsDone(c)
  PROVE  /\ UNCHANGED <<Way, sent, mishaps>>
         /\ \/ queue # <<>> /\ queue' = Tail(queue)
            \/ UNCHANGED queue
<1>1. UNCHANGED <<Way, sent, mishaps>>
  BY DEF ReaderDequeues, ReaderStirs, ReaderIsDone, Way, Unsent, InHand, sending, counters
<1> QED BY <1>1 DEF ReaderDequeues, ReaderStirs, ReaderIsDone, Call, Resume, Take, Wait,
                    ReturnNothing, Stir, Done

-----------------------------------------------------------------------------
(* Refinement *)

LEMMA ChannelStep == LInv /\ [LinkNext]_linkVars => [Channel!Next]_(Channel!vars)
<1> SUFFICES ASSUME LInv, [LinkNext]_linkVars
             PROVE  Channel!Next \/ UNCHANGED <<Way, queue>>
  BY DEF Channel!vars
<1> USE DEF Channel!Next
<1>1. ASSUME NEW a \in BOOLEAN, Send(a) PROVE Channel!Next
  BY <1>1, SendEffect, DistinctThings DEF Channel!Send
<1>2. CASE SenderDequeues \/ SenderStirs \/ SendPacket \/ Receive
  BY <1>2, DequeueEffect, SendPacketEffect, ReceiveEffect
<1>3. CASE Lose
  <2>1. PICK i \in DOMAIN Way : Way' = RemoveAt(Way, i) /\ UNCHANGED queue
    BY <1>3, LoseEffect
  <2>2. Channel!Lose(i)
    BY <2>1, Zenon DEF Channel!Lose, Channel!RemoveAt, RemoveAt
  <2> QED BY <2>2, Zenon
<1>4. CASE Repeat
  <2>1. PICK i \in DOMAIN Way : Way' = InsertAt(Way, i, Way[i]) /\ UNCHANGED queue
    BY <1>4, RepeatEffect
  <2>2. Channel!Repeat(i)
    BY <2>1, Zenon DEF Channel!Repeat, Channel!InsertAt, InsertAt
  <2> QED BY <2>2, Zenon
<1>5. CASE Overtake
  <2>1. PICK i \in DOMAIN Way :
          i + 1 \in DOMAIN Way /\ Way' = Exchanged(Way, i) /\ UNCHANGED queue
    BY <1>5, OvertakeEffect
  <2>2. Channel!Overtake(i)
    BY <2>1, Zenon DEF Channel!Overtake, Exchanged
  <2> QED BY <2>2, Zenon
<1>6. CASE Stray
  <2>1. PICK i \in 1 .. Len(Way) + 1 : Way' = InsertAt(Way, i, Foreign) /\ UNCHANGED queue
    BY <1>6, StrayEffect
  <2>2. Channel!Stray(i)
    BY <2>1, Zenon DEF Channel!Stray, Channel!InsertAt, InsertAt
  <2> QED BY <2>2, Zenon
<1>7. CASE PassOn \/ Reject \/ Restart
  <2>1. Channel!Arrive
    BY <1>7, ArriveEffect DEF Channel!Arrive, Welcome
  <2> QED BY <2>1, Zenon
<1>8. CASE Put
  BY <1>8, PutEffect DEF Channel!Put
<1>9. ASSUME NEW c \in Consumers, ReaderDequeues(c) \/ ReaderStirs(c) \/ ReaderIsDone(c)
      PROVE  Channel!Next \/ UNCHANGED <<Way, queue>>
  BY <1>9, ReadEffect DEF Channel!Read
<1>10. CASE UNCHANGED linkVars
  BY <1>10 DEF linkVars, vars, sending, Way, Unsent, InHand
<1> QED BY <1>1, <1>2, <1>3, <1>4, <1>5, <1>6, <1>7, <1>8, <1>9, <1>10 DEF LinkNext, Transport

(* The two queues, the two threads between them, the filter and the loop    *)
(* that is called again are one unreliable channel.                         *)
THEOREM OneChannel == LinkSpec => ImplementsLink
<1>1. LinkInit => Channel!Init
  <2>1. LinkInit => hand = Nothing /\ socket = <<>> /\ outGot[Sender] = Nothing
                    /\ outQueue = <<>> /\ queue = <<>>
    BY DEF LinkInit, Init, Out!Init
  <2>2. <<>> \o <<>> = <<>>
    BY ConcatEmptySeq, EmptySeq
  <2> QED BY <2>1, <2>2 DEF Channel!Init, Way, Unsent, InHand
<1> QED BY <1>1, ChannelStep, LinkInitInvariant, LinkInvariantStep, PTL
        DEF LinkSpec, ImplementsLink, Channel!Spec

-----------------------------------------------------------------------------
(* Order                                                                    *)

(* The messages of the other node are in order, none newer than the last.   *)
OrderedUpTo(s, n) ==
  /\ Ordered(s)
  /\ \A i \in DOMAIN s : IsPeers(s[i]) => s[i].n <= n

(* The inductive form of InOrder. *)
OrderInv == mishaps \cap {"repeat", "overtake"} = {} => OrderedUpTo(queue \o Way, sent)

LEMMA PeersNumber == \A x : IsPeers(x) => x.n \in Nat
<1> SUFFICES ASSUME NEW x, x \in Messages PROVE x.n \in Nat
  BY DEF IsPeers
<1>1. x.n \in 1 .. MaxSent \/ x.n \in 1 .. MaxOwn
  BY DEF Messages, Own
<1> QED BY <1>1, BoundsAssumption

LEMMA OrderedWithout ==
  ASSUME NEW S, NEW s \in Seq(S), NEW i \in 1 .. Len(s), NEW n, OrderedUpTo(s, n)
  PROVE  OrderedUpTo(RemoveAt(s, i), n)
<1> DEFINE r == RemoveAt(s, i)
<1>1. r \in Seq(S) /\ Len(r) = Len(s) - 1 /\ IsWithout(r, s, Len(s), i) /\ Len(s) \in Nat
  BY TakenOut, LenProperties
<1> HIDE DEF r
<1> DEFINE was(j) == IF j < i THEN j ELSE j + 1
<1>2. ASSUME NEW j \in DOMAIN r
      PROVE  j \in Int /\ was(j) \in DOMAIN s /\ r[j] = s[was(j)]
  BY <1>1 DEF IsWithout
<1>3. ASSUME NEW j \in DOMAIN r, IsPeers(r[j]) PROVE r[j].n <= n
  BY <1>2, <1>3 DEF OrderedUpTo
<1>4. ASSUME NEW j \in DOMAIN r, NEW k \in DOMAIN r, j < k, IsPeers(r[j]), IsPeers(r[k])
      PROVE  r[j].n < r[k].n
  <2>1. was(j) < was(k)
    BY <1>2, <1>4
  <2> HIDE DEF was
  <2> QED BY <1>2, <1>4, <2>1 DEF OrderedUpTo, Ordered
<1> QED BY <1>3, <1>4 DEF OrderedUpTo, Ordered, r

LEMMA OrderedWith ==
  ASSUME NEW S, NEW s \in Seq(S), NEW i \in Gaps(s), NEW x \in S, ~IsPeers(x), NEW n,
         OrderedUpTo(s, n)
  PROVE  OrderedUpTo(InsertAt(s, i, x), n)
<1> DEFINE r == InsertAt(s, i, x)
<1>1. i \in 1 .. Len(s) + 1 /\ Len(s) \in Nat
  BY LenProperties DEF Gaps
<1>2. r \in Seq(S) /\ Len(r) = Len(s) + 1 /\ IsWith(r, s, Len(s), i, x)
  BY <1>1, PutIn
<1> HIDE DEF r
<1> DEFINE was(j) == IF j < i THEN j ELSE j - 1
<1>3. ASSUME NEW j \in DOMAIN r, IsPeers(r[j])
      PROVE  j \in Int /\ j # i /\ was(j) \in DOMAIN s /\ r[j] = s[was(j)]
  <2>1. j \in 1 .. Len(s) + 1
    BY <1>2
  <2>2. j # i
    BY <1>1, <1>2, <1>3, <2>1 DEF IsWith
  <2> QED BY <1>1, <1>2, <2>1, <2>2 DEF IsWith
<1>4. ASSUME NEW j \in DOMAIN r, IsPeers(r[j]) PROVE r[j].n <= n
  BY <1>3, <1>4 DEF OrderedUpTo
<1>5. ASSUME NEW j \in DOMAIN r, NEW k \in DOMAIN r, j < k, IsPeers(r[j]), IsPeers(r[k])
      PROVE  r[j].n < r[k].n
  <2>1. was(j) < was(k)
    BY <1>1, <1>3, <1>5
  <2>2. was(j) \in DOMAIN s /\ r[j] = s[was(j)] /\ was(k) \in DOMAIN s /\ r[k] = s[was(k)]
    BY <1>3, <1>5
  <2> HIDE DEF was
  <2> QED BY <1>5, <2>1, <2>2 DEF OrderedUpTo, Ordered
<1> QED BY <1>4, <1>5 DEF OrderedUpTo, Ordered, r

LEMMA OrderedAppended ==
  ASSUME NEW S, NEW s \in Seq(S), NEW x \in S, NEW n \in Nat, IsPeers(x), x.n = n + 1,
         OrderedUpTo(s, n)
  PROVE  OrderedUpTo(Append(s, x), n + 1)
<1> DEFINE r == Append(s, x)
<1>1. r \in Seq(S) /\ Len(r) = Len(s) + 1 /\ Len(s) \in Nat /\ r[Len(s) + 1] = x
      /\ \A j \in 1 .. Len(s) : r[j] = s[j]
  BY AppendProperties, LenProperties
<1> HIDE DEF r
<1>2. ASSUME NEW j \in DOMAIN r, IsPeers(r[j])
      PROVE  \/ j = Len(s) + 1 /\ r[j].n = n + 1
             \/ j \in DOMAIN s /\ r[j] = s[j] /\ r[j].n <= n
  <2>1. j \in 1 .. Len(s) + 1
    BY <1>1
  <2>2. CASE j = Len(s) + 1
    BY <1>1, <2>2
  <2>3. CASE j \in 1 .. Len(s)
    BY <1>1, <1>2, <2>3 DEF OrderedUpTo
  <2> QED BY <1>1, <2>1, <2>2, <2>3
<1>3. ASSUME NEW j \in DOMAIN r, IsPeers(r[j]) PROVE r[j].n <= n + 1
  BY <1>2, <1>3, PeersNumber
<1>4. ASSUME NEW j \in DOMAIN r, NEW k \in DOMAIN r, j < k, IsPeers(r[j]), IsPeers(r[k])
      PROVE  r[j].n < r[k].n
  <2>1. j \in 1 .. Len(s) + 1 /\ k \in 1 .. Len(s) + 1
    BY <1>1
  <2>2. j # Len(s) + 1 /\ j \in DOMAIN s /\ r[j] = s[j] /\ r[j].n <= n /\ r[j].n \in Nat
    BY <1>1, <1>2, <1>4, <2>1, PeersNumber
  <2>3. CASE k = Len(s) + 1
    BY <1>1, <2>2, <2>3
  <2>4. CASE k # Len(s) + 1
    <3>1. k \in DOMAIN s /\ r[k] = s[k]
      BY <1>2, <1>4, <2>4
    <3> QED BY <1>4, <2>2, <3>1 DEF OrderedUpTo, Ordered
  <2> QED BY <2>3, <2>4
<1> QED BY <1>3, <1>4 DEF OrderedUpTo, Ordered, r

(* All of them, read and unread, are one sequence.                          *)
LEMMA AllTypes == LInv => queue \o Way \in Seq(Datagrams)
BY WayTypes, ConcatProperties

LEMMA OrderAfterLoss ==
  ASSUME LInv, NEW n, OrderedUpTo(queue \o Way, n), NEW i \in DOMAIN Way
  PROVE  OrderedUpTo(queue \o RemoveAt(Way, i), n)
<1> DEFINE nil == <<>>
<1>1. queue \in Seq(Datagrams) /\ Way \in Seq(Datagrams) /\ nil \in Seq(Datagrams)
      /\ i \in 1 .. Len(Way) /\ RemoveAt(Way, i) \in Seq(Datagrams)
      /\ queue \o Way \in Seq(Datagrams) /\ queue \o RemoveAt(Way, i) \in Seq(Datagrams)
  BY WayTypes, TakenOut, ConcatProperties
<1>2. queue \o RemoveAt(Way, i) \o nil = queue \o RemoveAt(Way, i)
      /\ queue \o Way \o nil = queue \o Way
  BY <1>1, ConcatEmptySeq
<1> HIDE DEF nil
<1>3. Len(queue) + i \in 1 .. Len(queue \o Way \o nil)
      /\ queue \o RemoveAt(Way, i) \o nil = RemoveAt(queue \o Way \o nil, Len(queue) + i)
  <2>1. queue \in Seq(Datagrams) /\ Way \in Seq(Datagrams) /\ nil \in Seq(Datagrams)
        /\ i \in 1 .. Len(Way)
    BY <1>1
  <2> QED BY ONLY <2>1, TakenOutOfMiddle
<1> QED BY <1>1, <1>2, <1>3, OrderedWithout

LEMMA OrderAfterRead ==
  ASSUME LInv, NEW n, OrderedUpTo(queue \o Way, n), queue # <<>>
  PROVE  OrderedUpTo(Tail(queue) \o Way, n)
<1>1. queue = <<Head(queue)>> \o Tail(queue) /\ Head(queue) \in Datagrams
      /\ Tail(queue) \in Seq(Datagrams) /\ Way \in Seq(Datagrams)
  BY WayTypes, FirstOne
<1> DEFINE rest == Tail(queue) \o Way
<1>2. rest \in Seq(Datagrams)
  BY <1>1, ConcatProperties
<1>3. queue \o Way = <<Head(queue)>> \o rest
  <2>1. <<Head(queue)>> \in Seq(Datagrams)
    BY <1>1
  <2>2. (<<Head(queue)>> \o Tail(queue)) \o Way = <<Head(queue)>> \o (Tail(queue) \o Way)
    BY <1>1, <2>1, ConcatAssociative
  <2> QED BY <1>1, <2>2
<1> HIDE DEF rest
<1>4. queue \o Way \in Seq(Datagrams) /\ queue \o Way # <<>> /\ Tail(queue \o Way) = rest
  BY <1>1, <1>2, <1>3, InFront
<1>5. rest = RemoveAt(queue \o Way, 1) /\ 1 \in 1 .. Len(queue \o Way)
  BY <1>4, FirstOne
<1>6. OrderedUpTo(RemoveAt(queue \o Way, 1), n)
  BY <1>4, <1>5, OrderedWithout
<1> QED BY <1>5, <1>6 DEF rest

LEMMA OrderAfterStray ==
  ASSUME LInv, NEW n, OrderedUpTo(queue \o Way, n), NEW i \in Gaps(Way)
  PROVE  OrderedUpTo(queue \o InsertAt(Way, i, Foreign), n)
<1> DEFINE nil == <<>>
<1>1. queue \in Seq(Datagrams) /\ Way \in Seq(Datagrams) /\ nil \in Seq(Datagrams)
      /\ queue \o Way \in Seq(Datagrams) /\ Foreign \in Datagrams /\ ~IsPeers(Foreign)
  BY WayTypes, AllTypes, DistinctThings DEF Datagrams, IsPeers
<1>2. InsertAt(Way, i, Foreign) \in Seq(Datagrams)
  BY <1>1, PutIn DEF Gaps
<1>3. queue \o InsertAt(Way, i, Foreign) \in Seq(Datagrams)
  BY <1>1, <1>2, ConcatProperties
<1>4. queue \o Way \o nil = queue \o Way
      /\ queue \o InsertAt(Way, i, Foreign) \o nil = queue \o InsertAt(Way, i, Foreign)
  BY <1>1, <1>3, ConcatEmptySeq
<1> HIDE DEF nil
<1>5. Len(queue) + i \in Gaps(queue \o Way \o nil)
      /\ queue \o InsertAt(Way, i, Foreign) \o nil
           = InsertAt(queue \o Way \o nil, Len(queue) + i, Foreign)
  <2>1. queue \in Seq(Datagrams) /\ Way \in Seq(Datagrams) /\ nil \in Seq(Datagrams)
        /\ Foreign \in Datagrams
    BY <1>1
  <2> QED BY <2>1, PutIntoMiddle
<1> QED BY <1>1, <1>4, <1>5, OrderedWith

LEMMA OrderAfterPut ==
  ASSUME LInv, NEW n, OrderedUpTo(queue \o Way, n), NEW m \in Own
  PROVE  OrderedUpTo(Append(queue, m) \o Way, n)
<1> DEFINE nil == <<>>
<1>1. queue \in Seq(Datagrams) /\ Way \in Seq(Datagrams) /\ nil \in Seq(Datagrams)
      /\ Len(nil) = 0 /\ queue \o nil = queue /\ queue \o Way \in Seq(Datagrams)
  BY WayTypes, AllTypes, EmptySeq, ConcatEmptySeq
<1>2. m \in Datagrams /\ ~IsPeers(m)
  <2>1. m.by = "own"
    BY DEF Own
  <2> QED BY <2>1, MessageTypes DEF Datagrams, IsPeers
<1> HIDE DEF nil
<1>3. 1 \in 1 .. Len(nil) + 1 /\ 1 \in Gaps(nil)
  BY <1>1 DEF Gaps
<1>4. InsertAt(nil, 1, m) = <<m>>
  <2>1. InsertAt(nil, 1, m) \in Seq(Datagrams) /\ Len(InsertAt(nil, 1, m)) = Len(nil) + 1
        /\ IsWith(InsertAt(nil, 1, m), nil, Len(nil), 1, m)
    <3>1. nil \in Seq(Datagrams) /\ m \in Datagrams
      BY <1>1, <1>2
    <3>2. \A k \in 1 .. Len(nil) + 1 :
            /\ InsertAt(nil, k, m) \in Seq(Datagrams)
            /\ Len(InsertAt(nil, k, m)) = Len(nil) + 1
            /\ IsWith(InsertAt(nil, k, m), nil, Len(nil), k, m)
      BY <3>1, PutIn
    <3> QED BY <1>3, <3>2
  <2>2. InsertAt(nil, 1, m)[1] = m /\ Len(InsertAt(nil, 1, m)) = 1
    BY <1>1, <1>3, <2>1 DEF IsWith
  <2>3. <<m>> \in Seq(Datagrams) /\ Len(<<m>>) = 1 /\ <<m>>[1] = m
    BY <1>2
  <2> QED BY <2>1, <2>2, <2>3, SeqEqual
<1>5. Len(queue) + 1 \in Gaps(queue \o nil \o Way)
      /\ queue \o InsertAt(nil, 1, m) \o Way = InsertAt(queue \o nil \o Way, Len(queue) + 1, m)
  <2>1. \A k \in Gaps(nil) :
          /\ Len(queue) + k \in Gaps(queue \o nil \o Way)
          /\ queue \o InsertAt(nil, k, m) \o Way = InsertAt(queue \o nil \o Way, Len(queue) + k, m)
    <3>1. queue \in Seq(Datagrams) /\ nil \in Seq(Datagrams) /\ Way \in Seq(Datagrams)
          /\ m \in Datagrams
      BY <1>1, <1>2
    <3> QED BY <3>1, PutIntoMiddle
  <2> QED BY <1>3, <2>1
<1>6. Append(queue, m) = queue \o <<m>>
  BY <1>1, <1>2, AppendIsConcat
<1>7. Len(queue) + 1 \in Gaps(queue \o Way)
      /\ Append(queue, m) \o Way = InsertAt(queue \o Way, Len(queue) + 1, m)
  BY <1>1, <1>4, <1>5, <1>6
<1> QED BY <1>1, <1>2, <1>7, OrderedWith

LEMMA OrderInit == LinkInit => OrderInv
<1> SUFFICES ASSUME LinkInit PROVE OrderInv
  OBVIOUS
<1>1. queue = <<>> /\ Way = <<>>
  <2>1. hand = Nothing /\ socket = <<>> /\ outGot[Sender] = Nothing
        /\ outQueue = <<>> /\ queue = <<>>
    BY DEF LinkInit, Init, Out!Init
  <2>2. <<>> \o <<>> = <<>>
    BY ConcatEmptySeq, EmptySeq
  <2> QED BY <2>1, <2>2 DEF Way, Unsent, InHand
<1>2. queue \o Way = <<>>
  BY <1>1, ConcatEmptySeq, EmptySeq
<1>3. DOMAIN <<>> = {}
  OBVIOUS
<1> QED BY <1>2, <1>3 DEF OrderInv, OrderedUpTo, Ordered

LEMMA OrderStep == LInv /\ OrderInv /\ [LinkNext]_linkVars => OrderInv'
<1> SUFFICES ASSUME LInv, OrderInv, [LinkNext]_linkVars,
                    mishaps' \cap {"repeat", "overtake"} = {}
             PROVE  OrderedUpTo(queue' \o Way', sent')
  BY DEF OrderInv, OrderedUpTo, Ordered, IsPeers
<1>0. ASSUME mishaps \subseteq mishaps' PROVE OrderedUpTo(queue \o Way, sent)
  BY <1>0 DEF OrderInv
<1>1. ASSUME NEW a \in BOOLEAN, Send(a) PROVE OrderedUpTo(queue' \o Way', sent')
  <2> DEFINE m == Message("peer", sent', a)
  <2>1. sent' = sent + 1 /\ m \in Messages /\ Way' = Append(Way, m) /\ UNCHANGED <<queue, mishaps>>
    BY <1>1, SendEffect
  <2>2. IsPeers(m) /\ m.n = sent + 1 /\ m \in Datagrams
    BY <2>1 DEF IsPeers, Message, Datagrams
  <2> HIDE DEF m
  <2>3. queue' \o Way' = Append(queue \o Way, m)
    BY <2>1, <2>2, WayTypes, AtTheEnd
  <2>4. sent \in Nat
    BY BoundsAssumption DEF LInv, LinkTypeOK
  <2>5. OrderedUpTo(queue \o Way, sent)
    BY <1>0, <2>1
  <2> QED BY <2>1, <2>2, <2>3, <2>4, <2>5, AllTypes, OrderedAppended
<1>2. CASE SenderDequeues \/ SenderStirs \/ SendPacket \/ Receive
  BY <1>0, <1>2, DequeueEffect, SendPacketEffect, ReceiveEffect
<1>3. CASE Lose
  BY <1>0, <1>3, LoseEffect, OrderAfterLoss
<1>4. CASE Repeat \/ Overtake
  BY <1>4, RepeatEffect, OvertakeEffect
<1>5. CASE Stray
  BY <1>0, <1>5, StrayEffect, OrderAfterStray DEF Gaps
<1>6. CASE PassOn \/ Reject \/ Restart
  <2>1. /\ Way # <<>> /\ Head(Way) = hand /\ Way' = Tail(Way)
        /\ UNCHANGED <<sent, mishaps>>
        /\ queue' = IF hand \in Welcome THEN Append(queue, hand) ELSE queue
    BY <1>6, ArriveEffect
  <2>2. hand \in Datagrams /\ Tail(Way) \in Seq(Datagrams) /\ Way = <<hand>> \o Tail(Way)
        /\ 1 \in 1 .. Len(Way) /\ Tail(Way) = RemoveAt(Way, 1)
    BY <2>1, WayTypes, FirstOne
  <2>3. OrderedUpTo(queue \o Way, sent)
    BY <1>0, <2>1
  <2>4. CASE hand \in Welcome
    <3> DEFINE t == Tail(Way)
    <3>1. queue \in Seq(Datagrams) /\ hand \in Datagrams /\ t \in Seq(Datagrams)
      BY <2>2, WayTypes
    <3> HIDE DEF t
    <3>2. Append(queue, hand) \o t = queue \o (<<hand>> \o t)
      BY ONLY <3>1, PassedOn
    <3> QED BY <2>1, <2>2, <2>3, <2>4, <3>2 DEF t
  <2>5. CASE hand \notin Welcome
    <3>1. 1 \in DOMAIN Way
      BY <2>2, WayTypes
    <3>2. OrderedUpTo(queue \o RemoveAt(Way, 1), sent)
      BY <2>3, <3>1, OrderAfterLoss
    <3> QED BY <2>1, <2>2, <2>5, <3>2
  <2> QED BY <2>4, <2>5
<1>7. CASE Put
  BY <1>0, <1>7, PutEffect, OrderAfterPut
<1>8. ASSUME NEW c \in Consumers, ReaderDequeues(c) \/ ReaderStirs(c) \/ ReaderIsDone(c)
      PROVE  OrderedUpTo(queue' \o Way', sent')
  BY <1>0, <1>8, ReadEffect, OrderAfterRead
<1>9. CASE UNCHANGED linkVars
  <2>1. UNCHANGED <<queue, Way, sent, mishaps>>
    BY <1>9 DEF linkVars, vars, sending, counters, Way, Unsent, InHand
  <2> QED BY <1>0, <2>1
<1> QED BY <1>1, <1>2, <1>3, <1>4, <1>5, <1>6, <1>7, <1>8, <1>9 DEF LinkNext, Transport

(* Only the network changes the order of a node's messages: through two     *)
(* queues, two threads and a loop that starts again they keep the one in    *)
(* which they were made.                                                    *)
THEOREM OrderKept == LinkSpec => []InOrder
<1>1. OrderInv => InOrder
  BY DEF OrderInv, InOrder, OrderedUpTo
<1> QED BY <1>1, LinkInitInvariant, LinkInvariantStep, OrderInit, OrderStep, PTL DEF LinkSpec

=============================================================================
