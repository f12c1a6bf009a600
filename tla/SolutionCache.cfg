\* Three calls on the plans of two days.
SPECIFICATION Spec
CONSTANTS
    Call = {c1, c2, c3}
    Request <- MCRequest
    Validated <- MCValidated
    Available <- MCAvailable
    Expiration = 2
    MaxTime = 3
SYMMETRY Symmetry
INVARIANTS
    TypeOK
    AnswerOfRequest
    EnoughPlans
CHECK_DEADLOCK FALSE
