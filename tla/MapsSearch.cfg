\* Searches of both kinds, with every failure.
SPECIFICATION Spec
CONSTANTS
    PlaceTypes <- MCPlaceTypes
    Pages <- AllPages
    MinNumResults = 4
    MaxRequestTimes = 3
    HasRequestId <- WithAndWithout
INVARIANTS
    TypeOK
    NoPlaceTwice
    PagesInOrder
    AnswerComplete
PROPERTY
    CallerAnswered
CHECK_DEADLOCK FALSE
