SPECIFICATION JobSpec
CONSTANTS
    DeviceSize = 7
    ChunkSize = 2
    MaxLength = 5
    Data <- MCData
    Calls <- MCCalls
    Moves <- MCMoves
    InitialDisk <- MCDisk
INVARIANTS
    SuccessIsTrue
CHECK_DEADLOCK FALSE
