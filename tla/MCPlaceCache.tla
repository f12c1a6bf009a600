---------------------------- MODULE MCPlaceCache ----------------------------
(***************************************************************************)
(* Two towns; a place between them is beyond the limit of the searches of  *)
(* the second, and one place is near the first only.                       *)
(***************************************************************************)
EXTENDS PlaceCache, TLC

MCDistance == [east |-> [inn |-> 1, mill |-> 2], west |-> [inn |-> 2, mill |-> 3]]

Ask(location, radius) ==
    [location |-> location, category |-> "visit", radius |-> radius]

MCRequest == {Ask("east", 1), Ask("west", 3)}
EastRequest == {Ask("east", 1)}
Symmetry == Permutations(Call)
=============================================================================
