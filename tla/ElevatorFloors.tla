--------------------------- MODULE ElevatorFloors ---------------------------
(***************************************************************************)
(* The sets of floors of the control loop, as the words that it has them   *)
(* in: its inside orders and the inside buttons of a poll are FloorSets.   *)
(***************************************************************************)
EXTENDS ElevatorControl, FloorSet

(* A building of at most as many floors as a word has bits (floorset.h).    *)
ASSUME FloorsFit == MaxFloor - MinFloor < Width

Bounds == [minFloor |-> MinFloor, maxFloor |-> MaxFloor]

(* Those sets that the loop asks and compares, its inside orders and the    *)
(* inside buttons of a poll, answer as words as the sets that               *)
(* ElevatorControl has for them, also where the building is as high as the  *)
(* word is wide and its top floor is the top bit.                           *)
FloorSetsAreSets ==
  LET inside == InsideFloors(orders)
  IN  /\ Represented(inside, Bounds)
      /\ RepresentedTogether(inside, InsideFloors(inNow), Bounds)
=============================================================================
