\* Three calls for two towns, with every failure of Redis.
SPECIFICATION Spec
CONSTANTS
    Call = {c1, c2, c3}
    Location = {"east", "west"}
    PlaceCat = {"visit"}
    Place = {"inn", "mill"}
    Distance <- MCDistance
    Request <- MCRequest
    MinNumResults = 1
    MaxSearchRadius = 2
    Refresh = 1
    MaxTime = 2
    MaxOverlap = 2
    MaxFailing = 1
SYMMETRY Symmetry
INVARIANTS
    TypeOK
    AnswerInReach
    IndexedHasDetails
    NoNeedlessSearch
CHECK_DEADLOCK FALSE
