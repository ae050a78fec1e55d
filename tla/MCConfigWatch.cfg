CONSTANTS
    Docs <- MCDocs
    Envs <- MCEnvs
    MaxSaves = 3
    MaxClock = 2
SPECIFICATION Spec
INVARIANTS
    TypeOK
    NothingMissed
    EnvironmentWins
PROPERTIES
    RefinesHotReload
    FreshSaveIsUsed
    StopsWhenTold
CHECK_DEADLOCK FALSE
