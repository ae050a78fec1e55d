CONSTANTS
    r1 = r1
    r2 = r2
    Requests = {r1, r2}
    Impatient = {r2}
    Inputs <- MCInputs
    Configs <- MCConfigs
    FirstConfig <- MCConfig
    Replies <- MCReplies
    MaxReloads = 0
    MaxSpent = 2
    TransportCooldown = 1
    KeyCooldown = 2
SPECIFICATION Spec
INVARIANTS
    MetricsAgree
PROPERTIES
    PlainIsAnswered
    FollowsItsRoute
CHECK_DEADLOCK FALSE
