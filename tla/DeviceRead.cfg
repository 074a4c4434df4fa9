CONSTANTS
    stream = stream
    initialize = initialize
    none = none
    None <- none
    Readers <- MCReaders
    Shapes <- MCShapes
    Envs <- MCEnvs
    Duration = 1
    MaxTime = 4
SPECIFICATION Spec
INVARIANTS PressIsKept
PROPERTIES OverloadBounded PressIsAnswered ReadReturns
