CONSTANTS
    Requests = {r1, r2}
    Impatient = {}
    Inputs <- MCInputs
    Configs <- MCConfigs
    FirstConfig <- MCFirst
    Replies <- MCReplies
    MaxReloads = 1
    MaxSpent = 3
    TransportCooldown = 1
    KeyCooldown = 1
SPECIFICATION Spec
INVARIANTS
    TypeOK
    AnswersFit
    NoReplayedToolCalls
    RoutingIsBounded
PROPERTIES
    VerdictsStayHome
    CapacitySparesKeys
    FollowsItsRoute
VIEW Routing
SYMMETRY Symmetry
CHECK_DEADLOCK FALSE
