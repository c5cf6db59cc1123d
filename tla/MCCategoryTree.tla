--------------------------- MODULE MCCategoryTree ---------------------------
(***************************************************************************)
(* Instances of CategoryTree for TLC: two requests at a time of every      *)
(* kind, and two that move.                                                *)
(***************************************************************************)
EXTENDS CategoryTree

MCAll == {"create", "move", "update", "delete"}
MCSymmetry == Permutations(Request)

MCThree == [c \in 1 .. 3 |-> IF c = 3 THEN 1 ELSE Root]
MCEdited == {<<2, 3>>}
MCIndex == {-1, 1, 5}

=============================================================================
