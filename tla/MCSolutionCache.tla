-------------------------- MODULE MCSolutionCache --------------------------
(***************************************************************************)
(* Requests for one city under two names, for a town and for a place Maps  *)
(* does not know, on two days; on Sunday the town has no plan, and on      *)
(* Saturday more than the default number.                                  *)
(***************************************************************************)
EXTENDS SolutionCache, TLC

Symmetry == Permutations(Call)

Sat == 5
Sun == 6
Radius == 10000

Ask(location, weekday, numPlans) ==
    [location |-> location, radius |-> Radius, weekday |-> weekday,
     numPlans |-> numPlans]

MCRequest == {Ask("frisco", Sat, 1), Ask("san francisco", Sat, 0),
              Ask("san francisco", Sun, 1), Ask("town", Sun, 1), Ask("town", Sat, -1),
              Ask("nowhere", Sat, 1)}

MCValidated ==
    [name \in {"frisco", "san francisco", "town"} |->
        IF name = "frisco" THEN "san francisco" ELSE name]

MCAvailable ==
    [what \in {"san francisco", "town"} \X {Radius} \X {Sat, Sun} |->
        CASE what = <<"town", Radius, Sun>> -> 0
          [] what = <<"town", Radius, Sat>> -> 6
          [] OTHER -> 2]
============================================================================
