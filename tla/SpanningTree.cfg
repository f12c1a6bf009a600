\* Every graph of five vertices with distances 1 and 2, and every root.
SPECIFICATION TreeSpec
CONSTANTS
    Nodes <- MCNodes
    Weights <- MCWeights
INVARIANTS
    TreeTypeOK
    QueueIsHeap
    FrontierQueued
    MinimumTree
PROPERTY
    ConstructEnds
CHECK_DEADLOCK FALSE
