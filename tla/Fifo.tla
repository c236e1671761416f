-------------------------------- MODULE Fifo --------------------------------
(***************************************************************************)
(* What the threads of a node may rely on when they share a queue: data    *)
(* come out in the order in which they were put in, each to one consumer.  *)
(***************************************************************************)
EXTENDS Sequences

CONSTANTS Data, Consumers, Nothing

VARIABLES
  queue,  \* data put in and not taken out
  got     \* what each consumer has taken out and works on

vars == <<queue, got>>

Init == queue = <<>> /\ got = [c \in Consumers |-> Nothing]

Put(x) == queue' = Append(queue, x) /\ UNCHANGED got

Take(c) ==
  /\ queue # <<>> /\ got[c] = Nothing
  /\ got' = [got EXCEPT ![c] = Head(queue)]
  /\ queue' = Tail(queue)

Finish(c) == got' = [got EXCEPT ![c] = Nothing] /\ UNCHANGED queue

Next == \/ \E x \in Data : Put(x)
        \/ \E c \in Consumers : Take(c) \/ Finish(c)

Spec == Init /\ [][Next]_vars
=============================================================================
