CONSTANTS
    Callers = {c1, c2, c3}
    Cfg <- MCCfg
    Names <- MCNames
    RetryAfters <- MCRetryAfters
SPECIFICATION Spec
INVARIANTS
    TypeOK
    TripsAreEarned
    StragglersBounded
PROPERTIES
    ClosesAgain
