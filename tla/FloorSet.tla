------------------------------ MODULE FloorSet ------------------------------
(***************************************************************************)
(* The set of floors as bits of an unsigned word (elevator/floorset.h).    *)
(* The other modules take it for a set; here are the word's operations and *)
(* what they have to amount to.  A word is the set of its bits that are    *)
(* one; d is the BasicDriverInfo.                                          *)
(***************************************************************************)
EXTENDS Integers

CONSTANT Width  \* bits of the word: 64

ASSUME WidthAssumption == Width \in Nat \ {0}

Bits == 0 .. Width - 1
Zero == {}
One  == {0}

(* & and | are the intersection and the union.  A shift drops what goes     *)
(* beyond the last bit; a decrement turns the bits from the lowest one that *)
(* is one, and all of them where none is.                                   *)
Complement(w)   == Bits \ w
ExclusiveOr(v, w) == (v \ w) \cup (w \ v)
ShiftLeft(w, k) == {i \in Bits : i - k \in w}
Decrement(w)    == {i \in Bits : i \in w <=> \E j \in w : j < i}

Bit(floor, d) == ShiftLeft(One, floor - d.minFloor)

get(w, floor, d) == w \cap Bit(floor, d) # Zero

set(w, value, floor, d) ==
  IF value THEN w \cup Bit(floor, d) ELSE w \cap Complement(Bit(floor, d))

anyHigherOrHere(w, floor, d) == w \cap Complement(Decrement(Bit(floor, d))) # Zero

anyHigher(w, floor, d) ==
  w \cap ShiftLeft(Complement(Decrement(Bit(floor, d))), 1) # Zero

anyLower(w, floor, d) == w \cap Decrement(Bit(floor, d)) # Zero

anyOther(w, floor, d) == w \cap Complement(Bit(floor, d)) # Zero

consistent(w, d) == ~anyHigher(w, d.maxFloor, d)

hasAny(w) == w # Zero

hasAdditional(a, b) == ExclusiveOr(a, b) \cap b # Zero

-----------------------------------------------------------------------------
(* The word that stands for a set of floors. *)
WordOf(S, d) == {i \in Bits : i + d.minFloor \in S}

(* One set against its word: every question has the answer of the set, and  *)
(* set makes the word of the changed set, at every floor of the building,   *)
(* the top one of a word that is full too.                                  *)
Represented(S, d) ==
  LET w == WordOf(S, d)
  IN  /\ consistent(w, d)
      /\ hasAny(w) <=> S # {}
      /\ \A f \in d.minFloor .. d.maxFloor :
           /\ get(w, f, d) <=> f \in S
           /\ anyHigher(w, f, d) <=> \E g \in S : g > f
           /\ anyLower(w, f, d) <=> \E g \in S : g < f
           /\ anyOther(w, f, d) <=> S \ {f} # {}
           /\ set(w, TRUE, f, d) = WordOf(S \cup {f}, d)
           /\ set(w, FALSE, f, d) = WordOf(S \ {f}, d)

(* Two of them: what was pressed in between, and the union.  A FloorSet     *)
(* begins as the empty one.                                                 *)
RepresentedTogether(S, T, d) ==
  /\ Zero = WordOf({}, d)
  /\ hasAdditional(WordOf(S, d), WordOf(T, d)) <=> T \ S # {}
  /\ WordOf(S, d) \cup WordOf(T, d) = WordOf(S \cup T, d)
=============================================================================
