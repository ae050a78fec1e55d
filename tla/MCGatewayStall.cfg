CONSTANTS
    Requests = {r1}
    Impatient = {}
    Inputs <- MCStreams
    Configs <- MCPatientConfigs
    FirstConfig <- MCPatient
    Replies <- MCServerError
    MaxReloads = 0
    MaxSpent = 7
    TransportCooldown = 1
    KeyCooldown = 1
SPECIFICATION Spec
PROPERTIES
    StreamIsRouted
CHECK_DEADLOCK FALSE
