-------------------------------- MODULE Link --------------------------------
(***************************************************************************)
(* What a node may expect of the way from another node's queue to its own: *)
(* an unreliable channel that ends in an inbox, which takes in only what   *)
(* is welcome and into which the node also puts messages of its own.       *)
(***************************************************************************)
EXTENDS Sequences, SequencesExt

CONSTANTS
  Data, Own,  \* all messages, and those of the node itself
  Welcome,    \* what the inbox takes in of those that come to it
  Foreign     \* what others may put into the channel

VARIABLES
  way,   \* what was sent and has not come to the inbox
  inbox  \* messages delivered and not read

vars == <<way, inbox>>

Init == way = <<>> /\ inbox = <<>>

Send(m) == way' = Append(way, m) /\ UNCHANGED inbox

Lose(i) == way' = RemoveAt(way, i) /\ UNCHANGED inbox

Repeat(i) == way' = InsertAt(way, i, way[i]) /\ UNCHANGED inbox

Overtake(i) ==
  /\ i + 1 \in DOMAIN way
  /\ way' = [way EXCEPT ![i] = way[i + 1], ![i + 1] = way[i]]
  /\ UNCHANGED inbox

Stray(i) == way' = InsertAt(way, i, Foreign) /\ UNCHANGED inbox

(* The first one comes to the inbox, and is in it or is no more. *)
Arrive ==
  /\ way # <<>>
  /\ way' = Tail(way)
  /\ inbox' = IF Head(way) \in Welcome THEN Append(inbox, Head(way)) ELSE inbox

Put(m) == inbox' = Append(inbox, m) /\ UNCHANGED way

Read == inbox # <<>> /\ inbox' = Tail(inbox) /\ UNCHANGED way

Next ==
  \/ \E m \in Data \ Own : Send(m)
  \/ \E m \in Own : Put(m)
  \/ \E i \in DOMAIN way : Lose(i) \/ Repeat(i) \/ Overtake(i)
  \/ \E i \in 1 .. Len(way) + 1 : Stray(i)
  \/ Arrive
  \/ Read

Spec == Init /\ [][Next]_vars
=============================================================================
