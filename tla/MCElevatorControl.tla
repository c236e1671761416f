-------------------------- MODULE MCElevatorControl --------------------------
(* Instances of ElevatorControl for TLC: three floors, so that there is a  *)
(* middle floor, which end floors treat differently.                       *)
EXTENDS ElevatorFloors

OneCall     == {<<"down", 2>>}
MiddleCalls == {<<"up", 2>>, <<"down", 2>>}

Fresh == [lastFloor |-> MinFloor, orders |-> {}]

(* What the others may have heard last of a process that died: nothing yet, *)
(* or a state that is by now wrong about its floor and its orders.          *)
Stale == {Fresh,
          [lastFloor |-> MaxFloor, orders |-> {}],
          [lastFloor |-> 2, orders |-> {<<"in", 1>>, <<"down", 2>>}]}
=============================================================================
