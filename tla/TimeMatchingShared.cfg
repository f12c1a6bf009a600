\* Two calls on the shared managers.
SPECIFICATION Spec
CONSTANTS
    Request <- PlanRequests
    Slots <- MCSlots
    Day <- MCDay
    Search <- MCSearch
    Hours <- MCHours
    MaxOverlap = 2
INVARIANT
    Isolation
CHECK_DEADLOCK FALSE
