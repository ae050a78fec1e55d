SPECIFICATION Spec
INVARIANTS
    StartedStreamIsNotCapped
CHECK_DEADLOCK FALSE
