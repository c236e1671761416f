--------------------------- MODULE MCRequestQueue ---------------------------
(* Instances of RequestQueue for TLC: two elevators, one hall call, and    *)
(* intervals in the order poll < add < serve, as in the program (20 ms,    *)
(* 100 ms, 30 s).                                                          *)
EXTENDS RequestQueue, TLC

CONSTANTS e1, e2, c1

MCElevators == {e1, e2}
OneElevator == {e1}
MCCalls     == {c1}

(* Elevators are only compared for equality.  Used for safety only. *)
Symmetry == Permutations(MCElevators)
=============================================================================
