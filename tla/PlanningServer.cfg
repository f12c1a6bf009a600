\* Two requests, two workers, a channel of one event, and an interrupt.
SPECIFICATION Spec
CONSTANTS
    Request = {r1, r2}
    Worker = {w1, w2}
    Capacity = 1
    None = None
INVARIANTS
    TypeOK
    EventsConserved
    ShutdownDrains
    WorkersBeforeDestroy
    ValidRequestsLogged
PROPERTIES
    DeliverySpec
    EveryRequestAnswered
    InterruptEndsProcess
CHECK_DEADLOCK FALSE
