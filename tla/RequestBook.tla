---------------------------- MODULE RequestBook ----------------------------
(***************************************************************************)
(* What the schedulers count on of a node's request queue: a book of the   *)
(* calls that somebody has still to report, and one entry at a time that   *)
(* was taken out of it to be sent again.  Nothing leaves the book but by a *)
(* report of the elevator that was sent, or to be sent again.              *)
(*                                                                         *)
(* When an entry is taken is not said here: deadlines are the queue's own  *)
(* affair.  An entry has an identity, as calls may be entered twice.       *)
(***************************************************************************)
CONSTANTS
  Ids, Calls, Elevators,
  Drops  \* TRUE: acknowledged entries may be lost

VARIABLES
  book,  \* the entries
  hand   \* the one that was taken out

vars == <<book, hand>>

Entry ==
  [id : Ids, call : Calls, elev : Elevators, type : {"NotAcknowledged", "NotDone"}]

NewEntry(i, c, e) == [id |-> i, call |-> c, elev |-> e, type |-> "NotAcknowledged"]

Init == book = {} /\ hand = {}

Add(c, e) ==
  /\ \E i \in Ids :
       /\ \A r \in book \cup hand : r.id # i
       /\ book' = book \cup {NewEntry(i, c, e)}
  /\ UNCHANGED hand

(* Elevator e goes to call c, and has been there.  What is in hand does not *)
(* hear of it.                                                              *)
Waits(c, e, type) == {r \in book : r.call = c /\ r.elev = e /\ r.type = type}

Going(c, e) ==
  /\ book' = (book \ Waits(c, e, "NotAcknowledged"))
               \cup {[r EXCEPT !.type = "NotDone"] : r \in Waits(c, e, "NotAcknowledged")}
  /\ UNCHANGED hand

Served(c, e) ==
  /\ book' = book \ Waits(c, e, "NotDone")
  /\ UNCHANGED hand

Take(r) ==
  /\ hand = {}
  /\ hand' = {r}
  /\ book' = book \ {r}

(* Whomever it is sent to has to acknowledge it anew. *)
PutBack(r, e) ==
  /\ book' = book \cup {NewEntry(r.id, r.call, e)}
  /\ hand' = {}

Drop(r) ==
  /\ Drops /\ r.type = "NotDone"
  /\ book' = book \ {r}
  /\ UNCHANGED hand

Next ==
  \/ \E c \in Calls, e \in Elevators : Add(c, e) \/ Going(c, e) \/ Served(c, e)
  \/ \E r \in book : Take(r) \/ Drop(r)
  \/ \E r \in hand, e \in Elevators : PutBack(r, e)

Spec == Init /\ [][Next]_vars
=============================================================================
