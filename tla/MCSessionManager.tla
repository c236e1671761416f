-------------------------- MODULE MCSessionManager --------------------------
(* Instances of SessionManager for TLC: addresses are numbers that are not *)
(* the places they have in order.                                          *)
EXTENDS SessionManager

TwoNodes   == {3, 5}
ThreeNodes == {3, 5, 8}
=============================================================================
