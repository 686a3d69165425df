SPECIFICATION JobSpec
CONSTANTS
    DeviceSize = 7
    ChunkSize = 2
    MaxLength = 5
    Data <- MCData
    Calls <- MCCalls
    Moves <- MCMoves
    InitialDisk <- MCDisk
INVARIANTS
    SuccessMeansMoved
    OnlyTargetWritten
    AnsweredSuccessIsTrue
    FailureKeepsData
    NeighboursUntouched
PROPERTIES
    ImplementsSnapshot
    JobEnds
CHECK_DEADLOCK FALSE
