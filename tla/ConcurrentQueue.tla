-------------------------- MODULE ConcurrentQueue --------------------------
(***************************************************************************)
(* The queue between two threads of a node (elevator/concurrentqueue.h): a *)
(* deque, a mutex and a condition variable.                                *)
(*                                                                         *)
(* A section under the mutex is a step; waiting releases it.  A consumer   *)
(* that waits is woken by enqueue's notify_one, for no reason at all, or,  *)
(* in timeoutDequeue, by the clock; it then needs the mutex again and      *)
(* looks at the queue again, which another consumer may have emptied.      *)
(***************************************************************************)
EXTENDS Naturals, Sequences, FiniteSets

CONSTANTS
  Data, Consumers,
  Op,      \* what each consumer calls: "dequeue", "timeoutDequeue", "tryDequeue"
  Nothing  \* Maybe's Nothing, and that a consumer works on nothing

ASSUME DataAssumption == Nothing \notin Data

ASSUME ConsumersAssumption ==
  /\ IsFiniteSet(Consumers)
  /\ Op \in [Consumers -> {"dequeue", "timeoutDequeue", "tryDequeue"}]

VARIABLES
  queue,
  pc,   \* "out" of the queue's operations, "asleep", "woken", "timedOut"
  got   \* what the consumer took out and works on

vars == <<queue, pc, got>>

States == {"out", "asleep", "woken", "timedOut"}

Asleep == {c \in Consumers : pc[c] = "asleep"}
Awake  == {c \in Consumers : pc[c] \in {"woken", "timedOut"}}

Init ==
  /\ queue = <<>>
  /\ pc = [c \in Consumers |-> "out"]
  /\ got = [c \in Consumers |-> Nothing]

Goto(c, s) == pc' = [pc EXCEPT ![c] = s]

-----------------------------------------------------------------------------
NotifyIfFirst ==
  \/ (Asleep = {} \/ queue # <<>>) /\ UNCHANGED pc
  \/ queue = <<>> /\ \E c \in Asleep : Goto(c, "woken")

(* notify_one: any of those who wait. *)
NotifyOne ==
  \/ Asleep = {} /\ UNCHANGED pc
  \/ \E c \in Asleep : Goto(c, "woken")

EnqueueInFront(x) ==
  /\ queue' = <<x>> \o queue
  /\ NotifyOne
  /\ UNCHANGED got

Enqueue(x) ==
  /\ queue' = Append(queue, x)
  /\ NotifyOne
  /\ UNCHANGED got

(* front and pop_front, under the lock. *)
Take(c) ==
  /\ queue # <<>>
  /\ got' = [got EXCEPT ![c] = Head(queue)]
  /\ queue' = Tail(queue)
  /\ Goto(c, "out")

ReturnNothing(c) ==
  /\ queue = <<>>
  /\ Goto(c, "out")
  /\ UNCHANGED <<queue, got>>

Wait(c) ==
  /\ queue = <<>>
  /\ Goto(c, "asleep")
  /\ UNCHANGED <<queue, got>>

Call(c) ==
  /\ pc[c] = "out" /\ got[c] = Nothing
  /\ \/ Take(c)
     \/ Op[c] = "tryDequeue" /\ ReturnNothing(c)
     \/ Op[c] # "tryDequeue" /\ Wait(c)

(* The waiter has the mutex again: wait's loop tests the predicate, and     *)
(* wait_for's once more after its time is over.                             *)
Resume(c) ==
  \/ c \in Awake /\ Take(c)
  \/ pc[c] = "woken" /\ Wait(c)
  \/ pc[c] = "timedOut" /\ ReturnNothing(c)

Stir(c) ==
  /\ c \in Asleep
  /\ Goto(c, "woken") \/ (Op[c] = "timeoutDequeue" /\ Goto(c, "timedOut"))
  /\ UNCHANGED <<queue, got>>

(* The caller is through with what it got and comes round its loop. *)
Done(c) ==
  /\ got[c] # Nothing
  /\ got' = [got EXCEPT ![c] = Nothing]
  /\ UNCHANGED <<queue, pc>>

Next ==
  \/ \E x \in Data : Enqueue(x)
  \/ \E c \in Consumers : Call(c) \/ Resume(c) \/ Stir(c) \/ Done(c)

Spec == Init /\ [][Next]_vars

-----------------------------------------------------------------------------
(* Properties *)

TypeOK ==
  /\ queue \in Seq(Data)
  /\ pc \in [Consumers -> States]
  /\ got \in [Consumers -> Data \cup {Nothing}]

(* No consumer sleeps on data that nobody else is about to take: for each   *)
(* datum there is one on its way to the mutex.  notify_one wakes one, and a *)
(* datum may be taken by a consumer that came later.                        *)
NobodyOversleeps == Asleep # {} => Len(queue) <= Cardinality(Awake)

(* Only a consumer that is not in an operation works on something. *)
WorksOutside == \A c \in Consumers : got[c] # Nothing => pc[c] = "out"

(* However waiting, waking and timing out interleave, the queue is a FIFO.  *)
Abstract == INSTANCE Fifo
ImplementsFifo == Abstract!Spec
=============================================================================
