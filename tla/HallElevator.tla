---------------------------- MODULE HallElevator ----------------------------
(***************************************************************************)
(* What an elevator promises to those who give it hall calls, which is all *)
(* that module Dispatch knows of it: it reports every call that it takes   *)
(* on and every one that it drops, unless its process dies, and its lamps  *)
(* change as its calls do, at a command, or when it leaves a floor.        *)
(***************************************************************************)
CONSTANTS
  Calls,     \* hall buttons
  Landings,  \* the sets of those of one floor
  Recovered  \* calls a new process may start with, as sets

VARIABLES
  orders,   \* the calls it is going to serve
  lamps,    \* the lit lamps of its hall buttons
  reports,  \* what it has just reported
  up        \* its process is alive

vars == <<orders, lamps, reports, up>>

Init == orders = {} /\ lamps = {} /\ reports = {} /\ up = TRUE

Press(c) ==
  /\ c \notin lamps
  /\ lamps' = lamps \cup {c}
  /\ reports' = {<<"pressed", c>>}
  /\ UNCHANGED orders

Accept(c) ==
  /\ orders' = orders \cup {c}
  /\ lamps' = lamps \cup {c}
  /\ reports' = {<<"going", c>>}

Light(c) ==
  /\ lamps' \in {lamps \cup {c}, lamps \ {c}}
  /\ reports' = {}
  /\ UNCHANGED orders

Serve(cs) ==
  /\ orders' = orders \ cs
  /\ lamps' = lamps \ cs
  /\ reports' = {"served"} \X cs

Rest == reports' = {} /\ UNCHANGED <<orders, lamps>>

(* An obstruction turns all lamps off. *)
Shutdown == lamps' = {} /\ reports' = {} /\ UNCHANGED orders

(* Its control loop starts over, and sets the lamps by its calls. *)
Reset == lamps' = orders /\ reports' = {} /\ UNCHANGED orders

Die == up /\ up' = FALSE /\ UNCHANGED <<orders, lamps, reports>>

Restart ==
  /\ ~up /\ up' = TRUE
  /\ orders' \in Recovered
  /\ lamps' = orders'
  /\ reports' = {}

Work ==
  \/ \E c \in Calls : Press(c) \/ Accept(c) \/ Light(c) \/ (c \in orders /\ Serve({c}))
  \/ \E l \in Landings : Serve(l)
  \/ Rest \/ Shutdown \/ Reset

Next == (up /\ Work /\ UNCHANGED up) \/ Die \/ Restart

Spec == Init /\ [][Next]_vars
=============================================================================
