\* Pages on which only some results have opening hours.
SPECIFICATION Spec
CONSTANTS
    PlaceTypes <- MCPlaceTypes
    Pages <- AllPages
    MinNumResults = 3
    MaxRequestTimes = 2
    HasRequestId <- WithId
INVARIANT
    DetailsFilled
CHECK_DEADLOCK FALSE
