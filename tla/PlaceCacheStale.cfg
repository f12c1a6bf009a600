\* A search that fails after the data has become old.
SPECIFICATION Spec
CONSTANTS
    Call = {c1, c2, c3}
    Location = {"east", "west"}
    PlaceCat = {"visit"}
    Place = {"inn", "mill"}
    Distance <- MCDistance
    Request <- EastRequest
    MinNumResults = 1
    MaxSearchRadius = 2
    Refresh = 1
    MaxTime = 2
    MaxOverlap = 2
    MaxFailing = 1
INVARIANT
    FreshData
CHECK_DEADLOCK FALSE
