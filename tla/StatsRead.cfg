CONSTANTS
    stream = stream
    initialize = initialize
    none = none
    None <- none
    Readers <- MCReaders
    Envs <- MCEnvs
    MaxSystem = 3
SPECIFICATION Spec
INVARIANTS UsageInBounds
PROPERTIES StatsRecover ReadsFollowContainer
