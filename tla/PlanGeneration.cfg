\* Safety and termination of plan generation for the standard request.
SPECIFICATION Spec
CONSTANTS
    Place <- MCPlace
    SlotCategories <- MCSlotCategories
    Clusters <- MCClusters
    NumPlans <- MCNumPlans
    Score <- MCScore
INVARIANTS
    TypeOK
    IteratorInOrder
    AllButLastConsidered
    BestPlansReturned
PROPERTY
    Terminates
CHECK_DEADLOCK FALSE
