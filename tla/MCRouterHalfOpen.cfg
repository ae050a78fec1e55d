CONSTANTS
    Callers = {c1, c2}
    Cfg <- MCCfg
    Names <- MCNames
    RetryAfters <- MCRetryAfters
SPECIFICATION Spec
INVARIANTS
    HalfOpen
