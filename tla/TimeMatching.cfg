\* Three calls that overlap or follow each other in any way.
SPECIFICATION Spec
CONSTANTS
    Request <- ThreeRequests
    Slots <- MCSlots
    Day <- MCDay
    Search <- MCSearch
    Hours <- MCHours
    MaxOverlap = 2
INVARIANTS
    TypeOK
    IsolationWhenAlone
CHECK_DEADLOCK FALSE
