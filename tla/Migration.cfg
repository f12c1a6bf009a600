\* One administrator with two sign-ups, a login and a migration, and one of the
\* package; two places and batches of two, with a key that SCAN repeats and a
\* place that a search stores.
SPECIFICATION Spec
CONSTANTS
    Call = {"s1", "s2", "l1", "m1", "a1"}
    Request <- MCRequest
    AdminUsers = {"ann"}
    MayOverlap <- MCMayOverlap
    MaxFailing = 1
    Place = {"inn", "mill"}
    Field = {"url", "ratings"}
    Stored <- MCStored
    BatchSize = 2
    MaxRepeated = 1
    MaxSearches = 1
INVARIANTS
    TypeOK
    AccountKept
    AskedByOne
PROPERTIES
    BatchStored
    MigrationEnds
CHECK_DEADLOCK FALSE
