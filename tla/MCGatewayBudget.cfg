CONSTANTS
    Requests = {r1}
    Impatient = {}
    Inputs <- MCInputs
    Configs <- MCPatientConfigs
    FirstConfig <- MCPatient
    Replies <- MCReplies
    MaxReloads = 0
    MaxSpent = 7
    TransportCooldown = 1
    KeyCooldown = 1
SPECIFICATION Spec
INVARIANTS
    WithinBudget
CHECK_DEADLOCK FALSE
