CONSTANTS
    Size = 3
    Cooldowns <- MCCooldowns
SPECIFICATION Spec
INVARIANTS
    TypeOK
    AvailableCanBeTaken
    RoundRobin
PROPERTIES
    CooldownNeverCut
    DisabledForever
