\* City names that mean the same in every country.
SPECIFICATION Spec
CONSTANTS
    Call = {c1, c2, c3}
    City <- MCCity
    Country <- MCCountry
    Known <- MCKnown
    Corrected <- MCCorrected
INVARIANTS
    TypeOK
    RightLocation
    Remembered
CHECK_DEADLOCK FALSE
