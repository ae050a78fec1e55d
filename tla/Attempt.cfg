SPECIFICATION Spec
INVARIANTS
    TypeOK
    HonestVerdict
    NothingHeld
PROPERTIES
    AttemptEnds
CHECK_DEADLOCK FALSE
