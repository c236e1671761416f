----------------------------- MODULE MCDispatch -----------------------------
(* Instances of Dispatch for TLC. *)
EXTENDS Dispatch

CONSTANTS n1, n2, c1

TwoNodes == {n1, n2}
OneCall  == {c1}

(* The floor of the call has no other one. *)
OneLanding == {<<c1>>}
=============================================================================
