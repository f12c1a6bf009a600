------------------------- MODULE MCPlanGeneration -------------------------
(***************************************************************************)
(* The standard request (visit, eatery, visit) over four visits and two    *)
(* eateries; every slot may offer any of the listed choices of places.     *)
(***************************************************************************)
EXTENDS PlanGeneration

MCPlace == {"v1", "v2", "v3", "e1", "e2"}
MCSlotCategories == <<"visit", "eatery", "visit">>

VisitChoices == {<<>>, <<"v1">>, <<"v1", "v1">>, <<"v2", "v1">>, <<"v1", "v2", "v3">>}
EateryChoices == {<<>>, <<"e1">>, <<"e1", "e2">>}
Cluster == [visit : VisitChoices, eatery : EateryChoices]
EmptyCluster == [visit |-> <<>>, eatery |-> <<>>]

\* Every day of three slots, and the single cluster a search for another
\* request may have left in the matcher.
MCClusters ==
    {<<a, b, c>> : a, c \in {x \in Cluster : x.eatery = <<>>},
                   b \in {x \in Cluster : x.visit = <<>>}}
    \cup {<<a>> : a \in Cluster}

MCNumPlans == {-1, 0, 1, 2, 3}

\* A tie (v1 with v2), places that are worth less together, and an order of
\* the same places that is worth more than its reverse.
MCScore(plan) ==
    LET worth == [v1 |-> 2, v2 |-> 2, v3 |-> 3, e1 |-> 0, e2 |-> -1]
    IN  worth[plan[1]] + worth[plan[2]] + worth[plan[3]]
        - (IF {plan[1], plan[3]} = {"v2", "v3"} THEN 2 ELSE 0)
        + (IF plan[1] = "v1" THEN 1 ELSE 0)
============================================================================
